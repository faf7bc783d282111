-------------------------- MODULE PublishingProofs --------------------------
(* Proofs about Publishing, for any platforms, listed in any orders, any   *)
(* tasks and publish nodes, and any bounds.                                *)
EXTENDS Publishing, TLAPS

(* What a publisher has still to do, as a set.                             *)
Elements(s) == {s[i] : i \in 1..Len(s)}
Left(k) == Elements(todo[k])
Injective(s) == \A i, j \in 1..Len(s) : s[i] = s[j] => i = j

Working == {"select", "write", "upload"}

(* Types, as TypeOK states them, but for the statuses of the rows.         *)
Types ==
  /\ generation \in {"unsent", "queued", "lost", "completed"}
  /\ due \in BOOLEAN
  /\ row \in [Platforms -> Ledger!Rows]
  /\ uploads \in [Platforms -> Nat]
  /\ queued \in Nat
  /\ pc \in [Publishers -> Working \cup {"idle", "commit"}]
  /\ todo \in [Publishers -> Seq(Platforms)]
  /\ found \in [Publishers -> BOOLEAN]
  /\ draft \in [Publishers -> [Platforms -> Ledger!Rows]]
  /\ nodeDone \subseteq Nodes
  /\ faults \in [Faults -> Nat]

(* A publisher has platforms left exactly while it works, each once.       *)
Agenda ==
  \A k \in Publishers : /\ pc[k] \in Working <=> todo[k] # <<>>
                        /\ Injective(todo[k])

(* What its open transaction has written: nothing when it is idle, nothing *)
(* yet for the platforms left but the one that is uploaded to, an outcome  *)
(* for all others.                                                         *)
DraftOf(k, p) ==
  IF pc[k] = "idle" THEN draft[k][p] = NoRow
  ELSE IF p \notin Left(k) THEN draft[k][p].status \in {"published", "failed"}
  ELSE IF pc[k] = "upload" /\ p = Current(k) THEN draft[k][p].status = "uploading"
  ELSE draft[k][p] = NoRow

Drafts == \A k \in Publishers, p \in Platforms : DraftOf(k, p)

(* Who has written a row keeps the others from it.                         *)
Locks == \A j, k \in Publishers, p \in Platforms :
           j # k => draft[j][p] = NoRow \/ draft[k][p] = NoRow

(* A draft goes on from the committed row, which nobody changes meanwhile. *)
Successor(k, p) ==
  /\ draft[k][p].status = "published" => /\ draft[k][p].id > row[p].id
                                         /\ draft[k][p].id <= uploads[p]
  /\ draft[k][p].status \in {"failed", "uploading"} => draft[k][p].id = row[p].id

Successors == /\ \A p \in Platforms : row[p].id <= uploads[p]
              /\ \A k \in Publishers, p \in Platforms : Successor(k, p)

(* "uploading" is never committed.                                         *)
Settled == \A p \in Platforms : row[p].status # "uploading"

IInv == Types /\ Agenda /\ Drafts /\ Locks /\ Successors /\ Settled

(* For what is known of the uploads: who is about to write beyond its first *)
(* platform has found what is there, since nobody has committed meanwhile;  *)
(* with one order it holds the row of the first platform, and so waits for  *)
(* nobody that waits for it.                                                *)
Writing(k) == \E p \in Platforms : draft[k][p] # NoRow

Looked == \A k \in Publishers :
            pc[k] = "write" /\ Writing(k) => (found[k] <=> row[Current(k)] # NoRow)

OneOrder == \A o1, o2 \in Orders : o1 = o2

InOrder == OneOrder => /\ faults["deadlock"] = 0
                       /\ \A k \in Publishers, o \in Orders :
                            Head(o) \in Left(k) => todo[k] = o

Known(p) == \/ uploads[p] = row[p].id
            \/ \E k \in Publishers : uploads[p] = draft[k][p].id

Calm == /\ faults["crash"] = 0 /\ faults["timeout"] = 0
        /\ faults["deadlock"] = 0 \/ OneOrder

KInv == IInv /\ Looked /\ InOrder /\ (Calm => \A p \in Platforms : Known(p))
-----------------------------------------------------------------------------
(* Sequences.                                                              *)

(* What is left after the first element of a sequence without repetition.  *)
LEMMA TailElements ==
  ASSUME NEW S, NEW s \in Seq(S), s # <<>>, Injective(s)
  PROVE  /\ Tail(s) \in Seq(S)
         /\ Head(s) \in Elements(s)
         /\ Elements(s) \subseteq S
         /\ Elements(Tail(s)) = Elements(s) \ {Head(s)}
         /\ Injective(Tail(s))
         /\ Len(s) = 1 <=> Tail(s) = <<>>
  <1>1. Len(s) \in Nat \ {0} /\ Head(s) = s[1] /\ 1 \in 1..Len(s)
    OBVIOUS
  <1>2. Len(Tail(s)) = Len(s) - 1 /\ \A i \in 1..Len(s)-1 : Tail(s)[i] = s[i+1]
    OBVIOUS
  <1>3. Elements(Tail(s)) = Elements(s) \ {Head(s)}
    <2>1. ASSUME NEW x \in Elements(Tail(s)) PROVE x \in Elements(s) \ {Head(s)}
      <3>1. PICK i \in 1..Len(s)-1 : x = s[i+1]
        BY <1>2, <2>1 DEF Elements
      <3>2. i+1 \in 1..Len(s) /\ i+1 # 1
        BY <1>1
      <3> QED BY <1>1, <3>1, <3>2 DEF Elements, Injective
    <2>2. ASSUME NEW x \in Elements(s) \ {Head(s)} PROVE x \in Elements(Tail(s))
      <3>1. PICK i \in 1..Len(s) : x = s[i]
        BY DEF Elements
      <3>2. i-1 \in 1..Len(s)-1 /\ (i-1)+1 = i
        BY <1>1, <2>2, <3>1
      <3> QED BY <1>1, <1>2, <3>1, <3>2 DEF Elements
    <2> QED BY <2>1, <2>2
  <1>4. Injective(Tail(s))
    <2> SUFFICES ASSUME NEW i \in 1..Len(s)-1, NEW j \in 1..Len(s)-1,
                        Tail(s)[i] = Tail(s)[j]
                 PROVE  i = j
      BY <1>2 DEF Injective
    <2>1. i+1 \in 1..Len(s) /\ j+1 \in 1..Len(s)
      BY <1>1
    <2>2. s[i+1] = s[j+1]
      BY <1>2
    <2>3. i+1 = j+1
      BY <2>1, <2>2 DEF Injective
    <2> QED BY <2>3
  <1>5. Len(s) = 1 <=> Tail(s) = <<>>
    BY <1>1, <1>2
  <1>6. Tail(s) \in Seq(S) /\ \A i \in 1..Len(s) : s[i] \in S
    OBVIOUS
  <1>7. Head(s) \in Elements(s) /\ Elements(s) \subseteq S
    BY <1>1, <1>6 DEF Elements
  <1> QED BY <1>3, <1>4, <1>5, <1>6, <1>7

(* An order lists every platform, each once.                               *)
LEMMA OrderElements ==
  ASSUME NEW o \in Orders
  PROVE  /\ o \in Seq(Platforms) /\ o # <<>>
         /\ Elements(o) = Platforms
         /\ Injective(o)
  <1>1. o \in Seq(Platforms) /\ Injective(o)
    BY PublishingAssumption DEF Injective
  <1>2. Elements(o) = Platforms
    <2>1. \A i \in 1..Len(o) : o[i] \in Platforms
      BY <1>1
    <2>2. \A p \in Platforms : \E i \in 1..Len(o) : o[i] = p
      BY PublishingAssumption
    <2> QED BY <2>1, <2>2 DEF Elements
  <1>3. o # <<>>
    BY <1>2, PublishingAssumption DEF Elements
  <1> QED BY <1>1, <1>2, <1>3

LEMMA FailTypes ==
  ASSUME faults \in [Faults -> Nat], NEW f \in Faults, Fail(f)
  PROVE  faults' \in [Faults -> Nat]
  BY DEF Fail

LEMMA NoRowIsRow == NoRow \in Ledger!Rows /\ NoRow.status = "none" /\ NoRow.id = 0
  BY DEF NoRow, Ledger!NoRow, Ledger!Rows
-----------------------------------------------------------------------------
(* The inductive invariant.                                                *)

LEMMA InitIInv == Init => IInv
  <1> SUFFICES ASSUME Init PROVE IInv
    OBVIOUS
  <1> USE NoRowIsRow DEF Init, Clear
  <1>0. /\ generation \in {"unsent", "queued"} /\ due \in BOOLEAN
        /\ nodeDone \subseteq Nodes /\ faults = [f \in Faults |-> 0]
    BY Zenon
  <1>1. Types      BY <1>0 DEF Types, Working
  <1>2. Agenda     BY DEF Agenda, Working, Injective
  <1>3. Drafts     BY DEF Drafts, DraftOf
  <1>4. Locks      BY DEF Locks
  <1>5. Successors BY DEF Successors, Successor
  <1>6. Settled    BY DEF Settled
  <1> QED BY <1>1, <1>2, <1>3, <1>4, <1>5, <1>6 DEF IInv

(* Nothing but a publisher's step disturbs the invariant.                  *)
LEMMA OutsideKeepsIInv ==
  ASSUME IInv,
         \/ SendGeneration \/ LoseGeneration \/ Generate \/ BecomeDue
         \/ CheckDue \/ RequestRetry \/ RetryFailedPublishes \/ UNCHANGED vars
  PROVE  IInv'
  <1> USE DEF vars, video, publisher
  <1>1. UNCHANGED <<publisher, row, uploads>>
    BY DEF SendGeneration, LoseGeneration, Generate, BecomeDue, CheckDue,
           RequestRetry, RetryFailedPublishes
  <1>2. Types'
    <2>1. CASE SendGeneration \/ Generate \/ BecomeDue \/ RetryFailedPublishes \/ UNCHANGED vars
      BY <2>1 DEF IInv, Types, SendGeneration, Generate, BecomeDue, RetryFailedPublishes
    <2>2. CASE LoseGeneration
      BY <2>2, FailTypes DEF IInv, Types, LoseGeneration, Faults
    <2>3. CASE CheckDue
      BY <2>3 DEF IInv, Types, CheckDue, Enqueue
    <2>4. CASE RequestRetry
      BY <2>4, FailTypes DEF IInv, Types, RequestRetry, Enqueue, Faults
    <2> QED BY <2>1, <2>2, <2>3, <2>4
  <1>3. (Agenda /\ Drafts /\ Locks /\ Successors /\ Settled)'
    BY <1>1 DEF IInv, Agenda, Drafts, DraftOf, Left, Current, Locks,
                Successors, Successor, Settled
  <1> QED BY <1>2, <1>3 DEF IInv

(* The end of an attempt by an error or a loss: nothing of it stays.       *)
LEMMA RollbackKeeps ==
  ASSUME IInv, NEW k \in Publishers, Rollback(k), UNCHANGED <<row, uploads>>
  PROVE  (Agenda /\ Drafts /\ Locks /\ Successors /\ Settled)'
  <1> USE NoRowIsRow DEF IInv, Types, Rollback, Goto, Clear
  <1>1. Agenda'
    BY DEF Agenda, Working, Injective
  <1>2. Drafts'
    BY DEF Drafts, DraftOf, Left, Current
  <1>3. Locks'
    BY DEF Locks
  <1>4. Successors'
    BY DEF Successors, Successor
  <1>5. Settled'
    BY DEF Settled
  <1> QED BY <1>1, <1>2, <1>3, <1>4, <1>5

LEMMA AbandonKeepsIInv ==
  ASSUME IInv, NEW k \in Publishers, Duplicate(k) \/ Deadlock(k) \/ Crash(k)
  PROVE  IInv'
  <1>1. Rollback(k) /\ UNCHANGED <<row, uploads>>
    BY DEF Duplicate, Deadlock, Crash
  <1>2. Types'
    <2>1. faults' \in [Faults -> Nat]
      <3>1. CASE Crash(k)
        BY <3>1, FailTypes DEF IInv, Types, Crash, Faults
      <3>2. CASE Deadlock(k)
        <4>1. faults' = [faults EXCEPT !["deadlock"] = 1]
          BY <3>2 DEF Deadlock
        <4> QED BY <4>1 DEF IInv, Types, Faults
      <3>3. CASE Duplicate(k)
        BY <3>3 DEF IInv, Types, Duplicate
      <3> QED BY <3>1, <3>2, <3>3
    <2>2. UNCHANGED <<video, row, uploads, queued, found, nodeDone>>
      BY DEF Duplicate, Deadlock, Crash
    <2> QED BY <1>1, <2>1, <2>2, NoRowIsRow DEF IInv, Types, Rollback, Goto, Clear, video
  <1> QED BY <1>1, <1>2, RollbackKeeps DEF IInv

LEMMA BeginKeepsIInv ==
  ASSUME IInv, NEW k \in Publishers, StartTask(k) \/ StartNode(k)
  PROVE  IInv'
  <1> USE NoRowIsRow, OrderElements
  <1>1. PICK o \in Orders : todo' = [todo EXCEPT ![k] = o]
    BY DEF StartTask, StartNode, Begin
  <1>2. /\ pc[k] = "idle" /\ pc' = [pc EXCEPT ![k] = "select"]
        /\ UNCHANGED <<video, row, uploads, found, draft, nodeDone, faults>>
    BY DEF StartTask, StartNode, Begin, Goto
  <1>3. queued' \in Nat
    BY DEF StartTask, StartNode, IInv, Types
  <1>4. Types'
    BY <1>1, <1>2, <1>3 DEF IInv, Types, video, Working
  <1>5. Agenda'
    BY <1>1, <1>2 DEF IInv, Types, Agenda, Working
  <1>6. Drafts'
    <2> SUFFICES ASSUME NEW j \in Publishers, NEW p \in Platforms PROVE DraftOf(j, p)'
      BY DEF Drafts
    <2>1. CASE j = k
      BY <1>1, <1>2, <2>1 DEF IInv, Types, Drafts, DraftOf, Left, Working
    <2>2. CASE j # k
      BY <1>1, <1>2, <2>2 DEF IInv, Types, Drafts, DraftOf, Left, Current
    <2> QED BY <2>1, <2>2
  <1>7. (Locks /\ Successors /\ Settled)'
    BY <1>2 DEF IInv, Locks, Successors, Successor, Settled
  <1> QED BY <1>4, <1>5, <1>6, <1>7 DEF IInv

LEMMA SelectKeepsIInv ==
  ASSUME IInv, NEW k \in Publishers, Select(k)
  PROVE  IInv'
  <1> USE DEF Select, Goto
  <1>1. Types'
    BY DEF IInv, Types, video, Working
  <1>2. Agenda'
    BY DEF IInv, Types, Agenda, Working
  <1>3. Drafts'
    BY DEF IInv, Types, Drafts, DraftOf, Left, Current
  <1>4. (Locks /\ Successors /\ Settled)'
    BY DEF IInv, Locks, Successors, Successor, Settled
  <1> QED BY <1>1, <1>2, <1>3, <1>4 DEF IInv

LEMMA WriteKeepsIInv ==
  ASSUME IInv, NEW k \in Publishers, Write(k)
  PROVE  IInv'
  <1> DEFINE p0 == Current(k)
  <1> USE NoRowIsRow DEF Goto
  <1>1. /\ pc[k] = "write" /\ todo[k] # <<>>
        /\ p0 \in Platforms /\ p0 \in Left(k) /\ draft[k][p0] = NoRow
    <2>1. pc[k] = "write" /\ todo[k] # <<>>
      BY DEF Write, IInv, Agenda, Working
    <2>2. p0 \in Left(k) /\ Left(k) \subseteq Platforms
      BY <2>1, TailElements DEF IInv, Types, Agenda, Left, Current
    <2> QED BY <2>1, <2>2 DEF IInv, Drafts, DraftOf
  <1>2. \A j \in Publishers : j # k => draft[j][p0] = NoRow
    BY <1>1 DEF Write, WaitsFor
  <1> DEFINE new == [status |-> "uploading", id |-> row[p0].id]
  <1>3. new \in Ledger!Rows /\ new.status = "uploading" /\ new.id = row[p0].id
    BY <1>1 DEF IInv, Types, Ledger!Rows
  <1>4. /\ draft' = [draft EXCEPT ![k][p0] = new]
        /\ pc' = [pc EXCEPT ![k] = "upload"]
        /\ UNCHANGED <<video, row, uploads, queued, todo, found, nodeDone, faults>>
    BY DEF Write
  <1>5. /\ draft'[k][p0] = new
        /\ \A j \in Publishers, p \in Platforms :
             j # k \/ p # p0 => draft'[j][p] = draft[j][p]
    BY <1>1, <1>4 DEF IInv, Types
  <1> HIDE DEF p0, new
  <1>6. Types'
    BY <1>1, <1>3, <1>4 DEF IInv, Types, Working, video
  <1>7. Agenda'
    BY <1>1, <1>4 DEF IInv, Types, Agenda, Working
  <1>8. Drafts'
    <2> SUFFICES ASSUME NEW j \in Publishers, NEW p \in Platforms PROVE DraftOf(j, p)'
      BY DEF Drafts
    <2>1. DraftOf(j, p)
      BY DEF IInv, Drafts
    <2>2. Left(j)' = Left(j) /\ Current(j)' = Current(j)
      BY <1>4 DEF Left, Current
    <2>3. CASE j = k
      BY <1>1, <1>3, <1>4, <1>5, <2>1, <2>2, <2>3 DEF IInv, Types, DraftOf, p0
    <2>4. CASE j # k
      BY <1>4, <1>5, <2>1, <2>2, <2>4 DEF IInv, Types, DraftOf
    <2> QED BY <2>3, <2>4
  <1>9. Locks'
    BY <1>2, <1>5 DEF IInv, Locks
  <1>10. Successors'
    BY <1>3, <1>4, <1>5 DEF IInv, Successors, Successor
  <1>11. Settled'
    BY <1>4 DEF IInv, Settled
  <1> QED BY <1>6, <1>7, <1>8, <1>9, <1>10, <1>11 DEF IInv

(* The end of an upload, with an outcome that follows the committed row.   *)
LEMMA ConcludeKeepsIInv ==
  ASSUME IInv, NEW k \in Publishers, pc[k] = "upload",
         NEW outcome \in Ledger!Rows, Conclude(k, outcome),
         UNCHANGED <<video, row, queued, found, nodeDone>>,
         faults' \in [Faults -> Nat],
         uploads' \in [Platforms -> Nat],
         \A p \in Platforms : uploads'[p] >= uploads[p],
         \/ outcome.status = "failed" /\ outcome.id = row[Current(k)].id
         \/ /\ outcome.status = "published"
            /\ outcome.id > row[Current(k)].id
            /\ outcome.id <= uploads'[Current(k)]
  PROVE  IInv'
  <1> DEFINE p0 == Current(k)
  <1> USE NoRowIsRow
  <1>1. /\ todo[k] # <<>> /\ todo[k] \in Seq(Platforms) /\ Injective(todo[k])
        /\ p0 = Head(todo[k])
    BY DEF IInv, Types, Agenda, Working, Current
  <1>2. /\ Tail(todo[k]) \in Seq(Platforms) /\ Injective(Tail(todo[k]))
        /\ p0 \in Platforms /\ p0 \in Left(k)
        /\ Elements(Tail(todo[k])) = Left(k) \ {p0}
        /\ Len(todo[k]) = 1 <=> Tail(todo[k]) = <<>>
    BY <1>1, TailElements DEF Left
  <1> DEFINE next == IF Len(todo[k]) = 1 THEN "commit" ELSE "select"
  <1>3. /\ draft' = [draft EXCEPT ![k][p0] = outcome]
        /\ todo' = [todo EXCEPT ![k] = Tail(todo[k])]
        /\ pc' = [pc EXCEPT ![k] = next]
    BY DEF Conclude, Goto
  <1>4. /\ draft'[k][p0] = outcome
        /\ \A j \in Publishers, p \in Platforms :
             j # k \/ p # p0 => draft'[j][p] = draft[j][p]
    BY <1>2, <1>3 DEF IInv, Types
  <1>5. draft[k][p0] # NoRow
    BY <1>2 DEF IInv, Drafts, DraftOf
  <1>6. Types'
    BY <1>2, <1>3 DEF IInv, Types, Working, video
  <1>7. Agenda'
    BY <1>2, <1>3 DEF IInv, Types, Agenda, Working
  <1>8. Drafts'
    <2> SUFFICES ASSUME NEW j \in Publishers, NEW p \in Platforms PROVE DraftOf(j, p)'
      BY DEF Drafts
    <2>1. DraftOf(j, p)
      BY DEF IInv, Drafts
    <2>2. CASE j # k
      BY <1>3, <1>4, <2>1, <2>2 DEF IInv, Types, DraftOf, Left, Current
    <2>3. CASE j = k
      <3>1. Left(k)' = Left(k) \ {p0} /\ pc'[k] \in {"commit", "select"}
        BY <1>2, <1>3 DEF Left, IInv, Types
      <3>2. CASE p = p0
        BY <1>4, <2>3, <3>1, <3>2 DEF DraftOf
      <3>3. CASE p # p0
        BY <1>4, <2>1, <2>3, <3>1, <3>3 DEF DraftOf
      <3> QED BY <3>2, <3>3
    <2> QED BY <2>2, <2>3
  <1>9. Locks'
    <2>1. \A j \in Publishers : j # k => draft[j][p0] = NoRow
      BY <1>2, <1>5 DEF IInv, Locks
    <2> HIDE DEF p0
    <2> QED BY <2>1, <1>4 DEF IInv, Locks
  <1>10. Successors'
    <2>1. \A p \in Platforms : row[p].id <= uploads'[p]
      BY DEF IInv, Types, Successors, Ledger!Rows
    <2>2. ASSUME NEW j \in Publishers, NEW p \in Platforms PROVE Successor(j, p)'
      <3>1. Successor(j, p) /\ uploads'[p] >= uploads[p]
        BY DEF IInv, Successors
      <3>2. uploads[p] \in Nat /\ uploads'[p] \in Nat /\ draft[j][p].id \in Nat
        BY DEF IInv, Types, Ledger!Rows
      <3>3. CASE j = k /\ p = p0
        BY <1>4, <3>3 DEF Successor
      <3>4. CASE j # k \/ p # p0
        BY <1>4, <3>1, <3>2, <3>4 DEF Successor
      <3> QED BY <3>3, <3>4
    <2> QED BY <2>1, <2>2 DEF Successors
  <1>11. Settled'
    BY DEF IInv, Settled
  <1> QED BY <1>6, <1>7, <1>8, <1>9, <1>10, <1>11 DEF IInv

LEMMA UploadKeepsIInv ==
  ASSUME IInv, NEW k \in Publishers, Upload(k) \/ UploadFails(k) \/ UploadTimesOut(k)
  PROVE  IInv'
  <1> DEFINE p0 == Current(k)
  <1>1. pc[k] = "upload" /\ p0 \in Platforms
    <2>1. pc[k] = "upload"
      BY DEF Upload, UploadFails, UploadTimesOut
    <2> QED BY <2>1, TailElements DEF IInv, Types, Agenda, Working, Current
  <1>2. /\ draft[k][p0] \in Ledger!Rows /\ draft[k][p0].id = row[p0].id
        /\ uploads[p0] \in Nat /\ row[p0].id \in Nat /\ row[p0].id <= uploads[p0]
    <2>1. p0 \in Left(k)
      BY <1>1, TailElements DEF IInv, Types, Agenda, Working, Current, Left
    <2>2. draft[k][p0].status = "uploading"
      BY <1>1, <2>1 DEF IInv, Drafts, DraftOf
    <2> QED BY <1>1, <2>2 DEF IInv, Types, Successors, Successor, Ledger!Rows
  <1>3. /\ Failed(k) \in Ledger!Rows
        /\ Failed(k).status = "failed" /\ Failed(k).id = row[p0].id
    BY <1>2 DEF Failed, Ledger!Rows
  <1>4. /\ faults' \in [Faults -> Nat]
        /\ UNCHANGED <<video, row, queued, found, nodeDone>>
    BY FailTypes DEF Upload, UploadFails, UploadTimesOut, IInv, Types, Faults
  <1>5. ASSUME Take(p0)
        PROVE  /\ uploads' \in [Platforms -> Nat]
               /\ uploads'[p0] = uploads[p0] + 1
               /\ \A p \in Platforms : uploads'[p] >= uploads[p]
    BY <1>1, <1>5 DEF Take, IInv, Types
  <1>6. CASE Upload(k)
    <2> DEFINE new == [status |-> "published", id |-> uploads'[p0]]
    <2>1. Take(p0) /\ Conclude(k, new)
      BY <1>6 DEF Upload
    <2>2. /\ new \in Ledger!Rows /\ new.status = "published"
          /\ new.id > row[p0].id /\ new.id <= uploads'[p0]
      BY <1>2, <1>5, <2>1 DEF Ledger!Rows
    <2> HIDE DEF new
    <2> QED BY <1>1, <1>4, <1>5, <2>1, <2>2, ConcludeKeepsIInv
  <1>7. CASE UploadFails(k)
    <2>1. Conclude(k, Failed(k)) /\ uploads' = uploads
      BY <1>7 DEF UploadFails
    <2>2. uploads' \in [Platforms -> Nat] /\ \A p \in Platforms : uploads'[p] >= uploads[p]
      BY <2>1 DEF IInv, Types
    <2> QED BY <1>1, <1>3, <1>4, <2>1, <2>2, ConcludeKeepsIInv
  <1>8. CASE UploadTimesOut(k)
    <2>1. Take(p0) /\ Conclude(k, Failed(k))
      BY <1>8 DEF UploadTimesOut
    <2> QED BY <1>1, <1>3, <1>4, <1>5, <2>1, ConcludeKeepsIInv
  <1> QED BY <1>6, <1>7, <1>8

(* All platforms have an outcome when an attempt commits.                  *)
LEMMA AllConcluded ==
  ASSUME IInv, NEW k \in Publishers, pc[k] = "commit", NEW p \in Platforms
  PROVE  /\ draft[k][p] \in Ledger!Rows
         /\ draft[k][p].status \in {"published", "failed"}
         /\ draft[k][p] # NoRow
  <1>1. todo[k] = <<>>
    BY DEF IInv, Types, Agenda, Working
  <1>2. p \notin Left(k)
    BY <1>1 DEF Left, Elements
  <1> QED BY <1>2, NoRowIsRow DEF IInv, Types, Drafts, DraftOf

LEMMA CommitKeepsIInv ==
  ASSUME IInv, NEW k \in Publishers, Commit(k)
  PROVE  IInv'
  <1> USE NoRowIsRow
  <1>1. /\ pc[k] = "commit"
        /\ pc' = [pc EXCEPT ![k] = "idle"]
        /\ todo' = [todo EXCEPT ![k] = <<>>]
        /\ draft' = [draft EXCEPT ![k] = Clear]
        /\ nodeDone' = nodeDone \cup ({k} \cap Nodes)
        /\ UNCHANGED <<video, uploads, queued, found, faults>>
    BY DEF Commit, Rollback, Goto
  <1>2. row' = [p \in Platforms |-> draft[k][p]]
    BY <1>1, AllConcluded DEF Commit
  <1>3. Clear \in [Platforms -> Ledger!Rows] /\ \A p \in Platforms : Clear[p] = NoRow
    BY DEF Clear
  <1>4. Types'
    BY <1>1, <1>2, <1>3, AllConcluded DEF IInv, Types, video
  <1>5. Agenda'
    BY <1>1 DEF IInv, Types, Agenda, Working, Injective
  <1>6. /\ \A p \in Platforms : draft'[k][p] = NoRow
        /\ \A j \in Publishers : j # k => draft'[j] = draft[j]
    BY <1>1, <1>3 DEF IInv, Types
  <1>7. Drafts'
    <2> SUFFICES ASSUME NEW j \in Publishers, NEW p \in Platforms PROVE DraftOf(j, p)'
      BY DEF Drafts
    <2>1. CASE j = k
      BY <1>1, <1>6, <2>1 DEF IInv, Types, DraftOf
    <2>2. CASE j # k
      BY <1>1, <1>6, <2>2 DEF IInv, Types, Drafts, DraftOf, Left, Current
    <2> QED BY <2>1, <2>2
  <1>8. Locks'
    BY <1>6 DEF IInv, Locks
  <1>9. Successors'
    <2>1. ASSUME NEW p \in Platforms PROVE row'[p].id <= uploads'[p]
      <3>1. row'[p] = draft[k][p] /\ uploads'[p] = uploads[p]
        BY <1>1, <1>2
      <3>2. Successor(k, p) /\ row[p].id <= uploads[p]
        BY DEF IInv, Successors
      <3> QED BY <1>1, <3>1, <3>2, AllConcluded DEF Successor
    <2>2. ASSUME NEW j \in Publishers, NEW p \in Platforms PROVE Successor(j, p)'
      <3>1. draft'[j][p] = NoRow
        <4>1. CASE j = k
          BY <1>6, <4>1
        <4>2. CASE j # k
          BY <1>1, <1>6, <4>2, AllConcluded DEF IInv, Locks
        <4> QED BY <4>1, <4>2
      <3> QED BY <3>1 DEF Successor
    <2> QED BY <2>1, <2>2 DEF Successors
  <1>10. Settled'
    BY <1>1, <1>2, AllConcluded DEF Settled
  <1> QED BY <1>4, <1>5, <1>7, <1>8, <1>9, <1>10 DEF IInv

LEMMA NextIInv == IInv /\ [Next]_vars => IInv'
  <1> SUFFICES ASSUME IInv, [Next]_vars PROVE IInv'
    OBVIOUS
  <1>1. ASSUME NEW k \in Publishers,
               StartTask(k) \/ StartNode(k) \/ Publish(k) \/ Crash(k)
        PROVE  IInv'
    BY <1>1, BeginKeepsIInv, SelectKeepsIInv, WriteKeepsIInv, AbandonKeepsIInv,
       UploadKeepsIInv, CommitKeepsIInv DEF Publish
  <1> QED BY <1>1, OutsideKeepsIInv DEF Next

THEOREM Inductive == Spec => []IInv
  BY InitIInv, NextIInv, PTL DEF Spec
-----------------------------------------------------------------------------
(* What is known of the uploads.                                           *)

(* A fault has been counted.                                               *)
LEMMA FailCounts ==
  ASSUME faults \in [Faults -> Nat], NEW f \in Faults, Fail(f)
  PROVE  /\ faults'[f] # 0
         /\ \A g \in Faults : g # f => faults'[g] = faults[g]
  BY DEF Fail

(* While a publisher has written anything, nobody else can be at his       *)
(* commit, for which he needs the rows of all platforms.                   *)
LEMMA CommitAlone ==
  ASSUME IInv, NEW k \in Publishers, Commit(k), NEW j \in Publishers, j # k
  PROVE  ~Writing(j)
  BY AllConcluded DEF Commit, IInv, Locks, Writing

(* With one order, whoever has written has written its first platform.     *)
LEMMA FirstWritten ==
  ASSUME KInv, OneOrder, NEW k \in Publishers, Writing(k), NEW o \in Orders
  PROVE  Head(o) \in Platforms /\ draft[k][Head(o)] # NoRow
  <1>1. o \in Seq(Platforms) /\ o # <<>> /\ Head(o) \in Platforms /\ Elements(o) = Platforms
    BY OrderElements, TailElements
  <1>2. PICK p \in Platforms : draft[k][p] # NoRow
    BY DEF Writing
  <1>3. DraftOf(k, p) /\ DraftOf(k, Head(o)) /\ pc[k] # "idle"
    BY <1>1, <1>2 DEF KInv, IInv, Drafts, DraftOf
  <1>4. CASE Head(o) \notin Left(k)
    BY <1>1, <1>3, <1>4, NoRowIsRow DEF DraftOf
  <1>5. CASE Head(o) \in Left(k)
    <2>1. todo[k] = o
      BY <1>5 DEF KInv, InOrder
    <2>2. Left(k) = Platforms /\ Current(k) = Head(o)
      BY <1>1, <2>1 DEF Left, Current
    <2>3. pc[k] = "upload" /\ p = Current(k)
      BY <1>2, <1>3, <2>2 DEF DraftOf
    <2> QED BY <1>2, <2>2, <2>3
  <1> QED BY <1>4, <1>5

(* Who is in a circle of waiting publishers has written, and another of    *)
(* them has.  With one order there is no circle.                           *)
LEMMA NoCircle ==
  ASSUME KInv, OneOrder, NEW k \in Publishers, Deadlock(k)
  PROVE  FALSE
  <1>1. PICK S \in SUBSET Publishers :
          /\ k \in S
          /\ \A i \in S : /\ \E j \in S : WaitsFor(i, j)
                          /\ \E j \in S : WaitsFor(j, i)
    BY DEF Deadlock
  <1>2. ASSUME NEW i \in S PROVE Writing(i)
    <2>1. PICK j \in S : WaitsFor(j, i)
      BY <1>1
    <2>2. pc[j] = "write" /\ draft[i][Current(j)] # NoRow
      BY <2>1 DEF WaitsFor
    <2>3. Current(j) \in Platforms
      BY <2>2, TailElements DEF KInv, IInv, Types, Agenda, Working, Current
    <2> QED BY <2>2, <2>3 DEF Writing
  <1>3. PICK j \in S : j # k
    BY <1>1 DEF WaitsFor
  <1>4. PICK o \in Orders : TRUE
    BY PublishingAssumption
  <1>5. Writing(j) /\ Writing(k)
    BY <1>1, <1>2
  <1> QED BY <1>3, <1>5, FirstWritten DEF KInv, IInv, Locks

LEMMA InitKInv == Init => KInv
  <1> SUFFICES ASSUME Init PROVE KInv
    OBVIOUS
  <1>1. IInv
    BY InitIInv
  <1>2. Looked
    BY DEF Looked, Init
  <1>3. InOrder
    BY DEF InOrder, Init, Left, Elements, Faults
  <1>4. \A p \in Platforms : Known(p)
    BY NoRowIsRow DEF Known, Init, Clear
  <1> QED BY <1>1, <1>2, <1>3, <1>4 DEF KInv

LEMMA OutsideKeepsKInv ==
  ASSUME KInv,
         \/ SendGeneration \/ LoseGeneration \/ Generate \/ BecomeDue
         \/ CheckDue \/ RequestRetry \/ RetryFailedPublishes \/ UNCHANGED vars
  PROVE  KInv'
  <1>1. IInv'
    BY OutsideKeepsIInv DEF KInv
  <1>2. UNCHANGED <<publisher, row, uploads>>
    BY DEF SendGeneration, LoseGeneration, Generate, BecomeDue, CheckDue,
           RequestRetry, RetryFailedPublishes, vars
  <1>3. faults'["deadlock"] = faults["deadlock"] /\ (Calm' => Calm)
    <2>1. CASE LoseGeneration
      <3>1. faults \in [Faults -> Nat] /\ Fail("crash")
        BY <2>1 DEF KInv, IInv, Types, LoseGeneration
      <3> QED BY <3>1, FailCounts DEF Faults, Calm
    <2>2. CASE ~LoseGeneration
      <3>1. UNCHANGED faults
        BY <2>2 DEF SendGeneration, Generate, BecomeDue, CheckDue, RequestRetry,
                    RetryFailedPublishes, vars
      <3> QED BY <3>1 DEF Calm
    <2> QED BY <2>1, <2>2
  <1>4. Looked'
    BY <1>2 DEF KInv, Looked, Writing, Current, publisher
  <1>5. InOrder'
    BY <1>2, <1>3 DEF KInv, InOrder, Left, OneOrder, publisher
  <1>6. Calm' => \A p \in Platforms : Known(p)'
    BY <1>2, <1>3 DEF KInv, Known, publisher
  <1> QED BY <1>1, <1>4, <1>5, <1>6 DEF KInv

LEMMA BeginKeepsKInv ==
  ASSUME KInv, NEW k \in Publishers, StartTask(k) \/ StartNode(k)
  PROVE  KInv'
  <1>1. IInv'
    BY BeginKeepsIInv DEF KInv
  <1>2. PICK o0 \in Orders : todo' = [todo EXCEPT ![k] = o0]
    BY DEF StartTask, StartNode, Begin
  <1>3. /\ pc' = [pc EXCEPT ![k] = "select"]
        /\ UNCHANGED <<row, uploads, found, draft, faults>>
    BY DEF StartTask, StartNode, Begin, Goto
  <1>4. Looked'
    BY <1>2, <1>3 DEF KInv, IInv, Types, Looked, Writing, Current
  <1>5. InOrder'
    BY <1>2, <1>3 DEF KInv, IInv, Types, InOrder, Left, OneOrder
  <1>6. Calm' => \A p \in Platforms : Known(p)'
    BY <1>3 DEF KInv, Known, Calm
  <1> QED BY <1>1, <1>4, <1>5, <1>6 DEF KInv

LEMMA SelectKeepsKInv ==
  ASSUME KInv, NEW k \in Publishers, Select(k)
  PROVE  KInv'
  <1>1. IInv'
    BY SelectKeepsIInv DEF KInv
  <1>2. /\ pc' = [pc EXCEPT ![k] = "write"]
        /\ found' = [found EXCEPT ![k] = row[Current(k)] # NoRow]
        /\ UNCHANGED <<row, uploads, todo, draft, faults>>
    BY DEF Select, Goto
  <1>3. Looked'
    BY <1>2 DEF KInv, IInv, Types, Looked, Writing, Current
  <1>4. InOrder'
    BY <1>2 DEF KInv, InOrder, Left, OneOrder
  <1>5. Calm' => \A p \in Platforms : Known(p)'
    BY <1>2 DEF KInv, Known, Calm
  <1> QED BY <1>1, <1>3, <1>4, <1>5 DEF KInv

LEMMA WriteKeepsKInv ==
  ASSUME KInv, NEW k \in Publishers, Write(k)
  PROVE  KInv'
  <1> DEFINE p0 == Current(k)
  <1> DEFINE new == [status |-> "uploading", id |-> row[p0].id]
  <1>1. IInv /\ IInv'
    BY WriteKeepsIInv DEF KInv
  <1>2. /\ pc[k] = "write" /\ p0 \in Platforms /\ draft[k][p0] = NoRow
    <2>1. pc[k] = "write" /\ p0 \in Left(k) /\ p0 \in Platforms
      BY <1>1, TailElements DEF Write, IInv, Types, Agenda, Working, Current, Left
    <2> QED BY <1>1, <2>1 DEF IInv, Drafts, DraftOf
  <1>3. /\ draft' = [draft EXCEPT ![k][p0] = new]
        /\ pc' = [pc EXCEPT ![k] = "upload"]
        /\ UNCHANGED <<row, uploads, todo, found, faults>>
    BY DEF Write, Goto
  <1>4. /\ draft'[k][p0].id = row[p0].id
        /\ \A j \in Publishers, p \in Platforms :
             j # k \/ p # p0 => draft'[j][p] = draft[j][p]
    BY <1>1, <1>2, <1>3 DEF IInv, Types
  <1> HIDE DEF p0, new
  <1>5. Looked'
    BY <1>1, <1>3, <1>4 DEF KInv, IInv, Types, Looked, Writing, Current
  <1>6. InOrder'
    BY <1>3 DEF KInv, InOrder, Left, OneOrder
  <1>7. ASSUME Calm', NEW p \in Platforms PROVE Known(p)'
    <2>1. Known(p)
      BY <1>3, <1>7 DEF KInv, Calm
    <2>2. CASE uploads[p] = row[p].id
      BY <1>3, <2>2 DEF Known
    <2>3. ASSUME NEW j \in Publishers, uploads[p] = draft[j][p].id PROVE Known(p)'
      <3>1. CASE j = k /\ p = p0
        <4>1. row[p].id <= 0 /\ row[p].id \in Nat /\ uploads[p] = 0
          BY <1>1, <1>2, <2>3, <3>1, NoRowIsRow DEF IInv, Types, Successors, Ledger!Rows
        <4> QED BY <1>3, <4>1 DEF Known
      <3>2. CASE j # k \/ p # p0
        BY <1>3, <1>4, <2>3, <3>2 DEF Known
      <3> QED BY <3>1, <3>2
    <2> QED BY <2>1, <2>2, <2>3 DEF Known
  <1> QED BY <1>1, <1>5, <1>6, <1>7 DEF KInv

LEMMA UploadKeepsKInv ==
  ASSUME KInv, NEW k \in Publishers, Upload(k) \/ UploadFails(k) \/ UploadTimesOut(k)
  PROVE  KInv'
  <1> DEFINE p0 == Current(k)
  <1>1. IInv /\ IInv'
    BY UploadKeepsIInv DEF KInv
  <1>2. PICK outcome : Conclude(k, outcome)
    BY DEF Upload, UploadFails, UploadTimesOut
  <1>3. pc[k] = "upload" /\ UNCHANGED <<row, found>>
    BY DEF Upload, UploadFails, UploadTimesOut
  <1>4. /\ p0 \in Platforms /\ Left(k)' = Left(k) \ {p0}
        /\ p0 \in Left(k)
    <2>1. /\ todo[k] # <<>> /\ todo[k] \in Seq(Platforms) /\ Injective(todo[k])
          /\ p0 = Head(todo[k])
      BY <1>1, <1>3 DEF IInv, Types, Agenda, Working, Current
    <2>2. todo'[k] = Tail(todo[k])
      BY <1>1, <1>2 DEF Conclude, IInv, Types
    <2> QED BY <2>1, <2>2, TailElements DEF Left
  <1>5. /\ \A j \in Publishers, p \in Platforms :
             j # k \/ p # p0 => draft'[j][p] = draft[j][p]
        /\ \A j \in Publishers : j # k => /\ pc'[j] = pc[j] /\ todo'[j] = todo[j]
        /\ draft'[k][p0] = outcome
        /\ pc'[k] # "write"
    BY <1>1, <1>2, <1>4 DEF IInv, Types, Conclude, Goto
  <1>6. faults'["deadlock"] = faults["deadlock"]
    <2>1. CASE UploadTimesOut(k)
      <3>1. faults \in [Faults -> Nat] /\ Fail("timeout")
        BY <1>1, <2>1 DEF IInv, Types, UploadTimesOut
      <3> QED BY <3>1, FailCounts DEF Faults
    <2>2. CASE Upload(k) \/ UploadFails(k)
      BY <2>2 DEF Upload, UploadFails
    <2> QED BY <2>1, <2>2
  <1>7. Looked'
    <2> SUFFICES ASSUME NEW j \in Publishers, pc'[j] = "write", Writing(j)'
                 PROVE  found'[j] <=> row'[Current(j)'] # NoRow
      BY DEF Looked
    <2>1. j # k /\ pc[j] = "write" /\ Current(j)' = Current(j)
      BY <1>5 DEF Current
    <2>2. Writing(j)
      BY <1>5, <2>1 DEF Writing
    <2> QED BY <1>3, <2>1, <2>2 DEF KInv, Looked
  <1>8. InOrder'
    <2> SUFFICES ASSUME OneOrder, NEW j \in Publishers, NEW o \in Orders,
                        Head(o) \in Left(j)'
                 PROVE  todo'[j] = o
      BY <1>6 DEF KInv, InOrder, OneOrder
    <2>1. Head(o) \in Left(j) => todo[j] = o
      BY DEF KInv, InOrder
    <2>2. CASE j # k
      BY <1>5, <2>1, <2>2 DEF Left
    <2>3. CASE j = k
      BY <1>4, <2>1, <2>3 DEF Current
    <2> QED BY <2>2, <2>3
  <1>9. ASSUME Calm', NEW p \in Platforms PROVE Known(p)'
    <2>1. CASE UploadTimesOut(k)
      <3>1. faults \in [Faults -> Nat] /\ Fail("timeout")
        BY <1>1, <2>1 DEF IInv, Types, UploadTimesOut
      <3> QED BY <1>9, <3>1, FailCounts DEF Faults, Calm
    <2>2. CASE Upload(k) \/ UploadFails(k)
      <3>1. Known(p)
        BY <1>9, <2>2 DEF KInv, Calm, Upload, UploadFails
      <3>2. CASE p = p0 /\ Upload(k)
        <4>1. Conclude(k, [status |-> "published", id |-> uploads'[p0]])
          BY <3>2 DEF Upload
        <4>2. draft'[k][p0] = [status |-> "published", id |-> uploads'[p0]]
          BY <1>1, <1>4, <4>1 DEF Conclude, IInv, Types
        <4> QED BY <3>2, <4>2 DEF Known
      <3>3. CASE p = p0 /\ UploadFails(k)
        <4>1. Conclude(k, Failed(k)) /\ uploads' = uploads
          BY <3>3 DEF UploadFails
        <4>2. draft'[k][p0] = Failed(k)
          BY <1>1, <1>4, <4>1 DEF Conclude, IInv, Types
        <4>3. draft'[k][p0].id = draft[k][p0].id
          BY <1>1, <1>4, <4>2 DEF Failed, IInv, Types, Ledger!Rows
        <4> QED BY <1>3, <1>5, <3>1, <3>3, <4>1, <4>3 DEF Known
      <3>4. CASE p # p0
        <4>1. uploads'[p] = uploads[p]
          BY <1>1, <2>2, <3>4 DEF Upload, UploadFails, Take, IInv, Types
        <4> QED BY <1>3, <1>5, <3>1, <3>4, <4>1 DEF Known
      <3> QED BY <2>2, <3>2, <3>3, <3>4
    <2> QED BY <2>1, <2>2
  <1> QED BY <1>1, <1>7, <1>8, <1>9 DEF KInv

(* An attempt that ends with an error has uploaded nothing, or a deadlock  *)
(* or a lost process is counted.                                           *)
LEMMA AbandonKeepsKInv ==
  ASSUME KInv, NEW k \in Publishers, Duplicate(k) \/ Deadlock(k) \/ Crash(k)
  PROVE  KInv'
  <1>1. IInv /\ IInv' /\ faults \in [Faults -> Nat]
    BY AbandonKeepsIInv DEF KInv, IInv, Types
  <1>2. Rollback(k) /\ UNCHANGED <<row, uploads, found>>
    BY DEF Duplicate, Deadlock, Crash
  <1>3. /\ pc'[k] = "idle" /\ todo'[k] = <<>>
        /\ \A p \in Platforms : draft'[k][p] = NoRow
        /\ \A j \in Publishers : j # k => /\ pc'[j] = pc[j] /\ todo'[j] = todo[j]
                                         /\ draft'[j] = draft[j]
    BY <1>1, <1>2 DEF Rollback, Goto, Clear, IInv, Types
  <1>4. Looked'
    <2> SUFFICES ASSUME NEW j \in Publishers, pc'[j] = "write", Writing(j)'
                 PROVE  found'[j] <=> row'[Current(j)'] # NoRow
      BY DEF Looked
    <2>1. j # k /\ pc[j] = "write" /\ Current(j)' = Current(j) /\ Writing(j)
      BY <1>3 DEF Current, Writing
    <2> QED BY <1>2, <2>1 DEF KInv, Looked
  <1>5. OneOrder => faults'["deadlock"] = 0
    <2> SUFFICES ASSUME OneOrder PROVE faults'["deadlock"] = 0
      OBVIOUS
    <2>1. faults["deadlock"] = 0
      BY DEF KInv, InOrder
    <2>2. CASE Duplicate(k)
      BY <2>1, <2>2 DEF Duplicate
    <2>3. CASE Deadlock(k)
      BY <2>3, NoCircle
    <2>4. CASE Crash(k)
      BY <1>1, <2>1, <2>4, FailCounts DEF Crash, Faults
    <2> QED BY <2>2, <2>3, <2>4
  <1>6. InOrder'
    <2> SUFFICES ASSUME OneOrder, NEW j \in Publishers, NEW o \in Orders,
                        Head(o) \in Left(j)'
                 PROVE  todo'[j] = o
      BY <1>5 DEF InOrder, OneOrder
    <2>1. j # k
      BY <1>3 DEF Left, Elements
    <2> QED BY <1>3, <2>1 DEF KInv, InOrder, Left
  <1>7. ASSUME Calm', NEW p \in Platforms PROVE Known(p)'
    <2>1. CASE Duplicate(k)
      <3>1. Known(p)
        BY <1>7, <2>1 DEF KInv, Calm, Duplicate
      <3>2. draft[k][p] = NoRow
        BY <2>1 DEF Duplicate, KInv, Looked, Writing
      <3>3. \A j \in Publishers : draft'[j][p] = draft[j][p]
        BY <1>3, <3>2
      <3> QED BY <1>2, <3>1, <3>3 DEF Known
    <2>2. CASE Deadlock(k)
      <3>1. faults' = [faults EXCEPT !["deadlock"] = 1]
        BY <2>2 DEF Deadlock
      <3>2. faults'["deadlock"] = 1
        BY <1>1, <3>1 DEF Faults
      <3> QED BY <1>5, <1>7, <3>2 DEF Calm, OneOrder
    <2>3. CASE Crash(k)
      BY <1>1, <1>7, <2>3, FailCounts DEF Crash, Calm, Faults
    <2> QED BY <2>1, <2>2, <2>3
  <1> QED BY <1>1, <1>4, <1>6, <1>7 DEF KInv

LEMMA CommitKeepsKInv ==
  ASSUME KInv, NEW k \in Publishers, Commit(k)
  PROVE  KInv'
  <1>1. IInv /\ IInv'
    BY CommitKeepsIInv DEF KInv
  <1>2. pc[k] = "commit" /\ Rollback(k) /\ UNCHANGED <<uploads, found, faults>>
    BY DEF Commit
  <1>3. row' = [p \in Platforms |-> draft[k][p]]
    BY <1>1, AllConcluded DEF Commit
  <1>4. /\ pc'[k] = "idle" /\ todo'[k] = <<>>
        /\ \A j \in Publishers : j # k => /\ pc'[j] = pc[j] /\ todo'[j] = todo[j]
                                         /\ draft'[j] = draft[j]
    BY <1>1, <1>2 DEF Rollback, Goto, IInv, Types
  <1>5. Looked'
    <2> SUFFICES ASSUME NEW j \in Publishers, pc'[j] = "write", Writing(j)'
                 PROVE  FALSE
      BY DEF Looked
    <2>1. j # k
      BY <1>4
    <2> QED BY <1>1, <1>4, <2>1, CommitAlone DEF Writing
  <1>6. InOrder'
    <2> SUFFICES ASSUME OneOrder, NEW j \in Publishers, NEW o \in Orders,
                        Head(o) \in Left(j)'
                 PROVE  todo'[j] = o
      BY <1>2 DEF KInv, InOrder, OneOrder
    <2>1. j # k
      BY <1>4 DEF Left, Elements
    <2> QED BY <1>4, <2>1 DEF KInv, InOrder, Left
  <1>7. ASSUME Calm', NEW p \in Platforms PROVE uploads'[p] = row'[p].id
    <2>1. Known(p)
      BY <1>2, <1>7 DEF KInv, Calm
    <2>2. /\ draft[k][p].status \in {"published", "failed"} /\ draft[k][p] # NoRow
          /\ draft[k][p].id \in Nat /\ row[p].id \in Nat /\ uploads[p] \in Nat
      BY <1>1, <1>2, AllConcluded DEF IInv, Types, Ledger!Rows
    <2>3. Successor(k, p) /\ row[p].id <= uploads[p]
      BY <1>1 DEF IInv, Successors
    <2>4. draft[k][p].id = uploads[p]
      <3>1. CASE uploads[p] = row[p].id
        BY <2>2, <2>3, <3>1 DEF Successor
      <3>2. ASSUME NEW j \in Publishers, uploads[p] = draft[j][p].id
            PROVE  draft[k][p].id = uploads[p]
        <4>1. CASE j = k
          BY <3>2, <4>1
        <4>2. CASE j # k
          <5>1. uploads[p] = 0
            BY <1>1, <2>2, <3>2, <4>2, NoRowIsRow DEF IInv, Locks
          <5> QED BY <2>2, <2>3, <5>1 DEF Successor
        <4> QED BY <4>1, <4>2
      <3> QED BY <2>1, <3>1, <3>2 DEF Known
    <2> QED BY <1>2, <1>3, <2>4
  <1> QED BY <1>1, <1>5, <1>6, <1>7 DEF KInv, Known

LEMMA NextKInv == KInv /\ [Next]_vars => KInv'
  <1> SUFFICES ASSUME KInv, [Next]_vars PROVE KInv'
    OBVIOUS
  <1>1. ASSUME NEW k \in Publishers,
               StartTask(k) \/ StartNode(k) \/ Publish(k) \/ Crash(k)
        PROVE  KInv'
    BY <1>1, BeginKeepsKInv, SelectKeepsKInv, WriteKeepsKInv, AbandonKeepsKInv,
       UploadKeepsKInv, CommitKeepsKInv DEF Publish
  <1> QED BY <1>1, OutsideKeepsKInv DEF Next
-----------------------------------------------------------------------------
(* The theorems.                                                           *)

(* Every reachable state is well typed, and "uploading" is written by      *)
(* transactions that overwrite it before they commit.                      *)
THEOREM TypeCorrect == Spec => []TypeOK
  <1>1. IInv => TypeOK
    <2> SUFFICES ASSUME IInv PROVE TypeOK
      OBVIOUS
    <2>1. row \in [Platforms -> [status : {"none", "published", "failed"}, id : Nat]]
      BY DEF IInv, Types, Settled, Ledger!Rows
    <2> QED BY <2>1 DEF IInv, Types, TypeOK, Working
  <1> QED BY <1>1, Inductive, PTL

(* No two publishers of the video upload it to one platform at the same    *)
(* time, however many there are: the row lock is taken first and kept.     *)
THEOREM UploadsSerial == Spec => []UploadsAreSerial
  <1>1. IInv => UploadsAreSerial
    <2> SUFFICES ASSUME IInv, NEW i \in Publishers, NEW j \in Publishers, i # j,
                        pc[i] = "upload", pc[j] = "upload", Current(i) = Current(j)
                 PROVE  FALSE
      BY DEF UploadsAreSerial
    <2>1. ASSUME NEW k \in Publishers, pc[k] = "upload"
          PROVE  Current(k) \in Platforms /\ draft[k][Current(k)] # NoRow
      <3>1. Current(k) \in Left(k) /\ Current(k) \in Platforms
        BY <2>1, TailElements DEF IInv, Types, Agenda, Working, Current, Left
      <3> QED BY <2>1, <3>1, NoRowIsRow DEF IInv, Drafts, DraftOf
    <2> QED BY <2>1 DEF IInv, Locks
  <1> QED BY <1>1, Inductive, PTL

(* What a platform has taken is in its row or in an open transaction,      *)
(* however many publishers there are, unless a process was lost, an answer *)
(* timed out, or a deadlock was broken; with one order there are none.     *)
THEOREM UploadsKnown == Spec => []NewestUploadKnown
  <1>1. KInv => NewestUploadKnown
    BY DEF KInv, NewestUploadKnown, Calm, OneOrder, Known
  <1> QED BY <1>1, InitKInv, NextKInv, PTL DEF Spec

(* The committed rows implement the ledger: every attempt is entered as a  *)
(* whole, and no platform's row ever names an older upload than before.    *)
THEOREM Implements == Spec => ImplementsLedger
  <1>1. Init => Ledger!LedgerInit
    BY DEF Init, Ledger!LedgerInit, Clear, NoRow
  <1>2. IInv /\ [Next]_vars => [Ledger!Attempt]_row
    <2> SUFFICES ASSUME IInv, [Next]_vars PROVE [Ledger!Attempt]_row
      OBVIOUS
    <2>1. ASSUME NEW k \in Publishers, Commit(k) PROVE Ledger!Attempt
      <3>1. pc[k] = "commit" /\ row' = [p \in Platforms |-> draft[k][p]]
        BY <2>1, AllConcluded DEF Commit
      <3>2. row' \in [Platforms -> Ledger!Rows]
        BY <3>1, AllConcluded
      <3>3. ASSUME NEW p \in Platforms PROVE Ledger!Follows(row[p], row'[p])
        <4>1. row'[p] = draft[k][p] /\ Successor(k, p)
          BY <3>1 DEF IInv, Successors
        <4> QED BY <3>1, <4>1, AllConcluded DEF Successor, Ledger!Follows
      <3> QED BY <3>2, <3>3 DEF Ledger!Attempt
    <2>2. ASSUME NEW k \in Publishers,
                 StartTask(k) \/ StartNode(k) \/ Crash(k) \/ (Publish(k) /\ ~Commit(k))
          PROVE  row' = row
      BY <2>2 DEF StartTask, StartNode, Begin, Publish, Select, Write, Duplicate, Deadlock,
                  Upload, UploadFails, UploadTimesOut, Crash
    <2>3. CASE UNCHANGED vars
      BY <2>3 DEF vars
    <2>4. CASE SendGeneration \/ LoseGeneration \/ Generate \/ BecomeDue
               \/ CheckDue \/ RequestRetry \/ RetryFailedPublishes
      BY <2>4 DEF SendGeneration, LoseGeneration, Generate, BecomeDue, CheckDue,
                  RequestRetry, RetryFailedPublishes, vars
    <2> QED BY <2>1, <2>2, <2>3, <2>4 DEF Next, Publish
  <1> QED BY <1>1, <1>2, Inductive, PTL DEF Spec, ImplementsLedger, Ledger!LedgerSpec

(* Whoever is waited for waits for nobody, and PostgreSQL has aborted no    *)
(* attempt to end a circle of them.                                        *)
Orderly ==
  /\ faults["deadlock"] = 0
  /\ \A i, j, k \in Publishers : ~(WaitsFor(i, j) /\ WaitsFor(j, k))

(* When every attempt lists the platforms in one order, the publishers of  *)
(* a video never wait for each other in a circle, nor in a chain: the one  *)
(* that holds the row of the first platform can always go on.              *)
THEOREM NobodyWaitsInCircle ==
  ASSUME OneOrder
  PROVE  Spec => []Orderly
  <1>1. KInv => Orderly
    <2> SUFFICES ASSUME KInv PROVE Orderly
      OBVIOUS
    <2>1. ASSUME NEW i \in Publishers, NEW j \in Publishers, WaitsFor(i, j)
          PROVE  Writing(j)
      <3>1. Current(i) \in Platforms
        BY <2>1, TailElements DEF WaitsFor, KInv, IInv, Types, Agenda, Working, Current
      <3> QED BY <2>1, <3>1 DEF WaitsFor, Writing
    <2>2. ASSUME NEW i \in Publishers, NEW j \in Publishers, NEW k \in Publishers,
                 WaitsFor(i, j), WaitsFor(j, k)
          PROVE  FALSE
      <3>1. Writing(j) /\ Writing(k) /\ j # k
        BY <2>1, <2>2 DEF WaitsFor
      <3>2. PICK o \in Orders : TRUE
        BY PublishingAssumption
      <3> QED BY <3>1, <3>2, FirstWritten, OneOrder DEF KInv, IInv, Locks
    <2>3. faults["deadlock"] = 0
      BY OneOrder DEF KInv, InOrder
    <2> QED BY <2>2, <2>3 DEF Orderly
  <1> QED BY <1>1, InitKInv, NextKInv, PTL DEF Spec
=============================================================================
