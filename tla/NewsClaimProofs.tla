--------------------------- MODULE NewsClaimProofs ---------------------------
(* Proofs about NewsClaim, for any channels, items and executions.         *)
EXTENDS NewsClaim, TLAPS

(* An execution that has not begun to walk has skipped nothing.            *)
Unwalked == \A e \in Execs : pc[e] \in {"idle", "feeds", "query"} => passed[e] = {}

(* An item is locked by one transaction.                                   *)
Locking == {"insert", "commit"}
Locks == \A e, f \in Execs : /\ e # f
                             /\ pc[e] \in Locking /\ pc[f] \in Locking
                             => claim[e] # claim[f]

(* The stage of the consumption of an execution that holds one.            *)
StageOf(l) == IF l = "produced" THEN "produced" ELSE "selected"
Owns == \A e \in Execs :
          pc[e] \in Holding => row[Channel(e)][claim[e]] = StageOf(pc[e])

(* What has passed the unique constraint is unused until the commit.       *)
Inserted == \A e \in Execs :
              pc[e] = "commit" => row[Channel(e)][claim[e]] = "unused"

(* Who has lost his consumption has released it himself.                   *)
GoneEnded == \A e \in gone : pc[e] = "ended"

(* As long as nothing is redelivered.                                      *)
Claims == redeliveries = 0 => Owns /\ Inserted /\ GoneEnded /\ ClaimsAreDistinct

IInv == TypeOK /\ Unwalked /\ Locks /\ Claims

(* What a step of e, which goes to l, leaves as it is.                     *)
Moves(e, l) ==
  /\ pc' = [pc EXCEPT ![e] = l]
  /\ \A f \in Execs \ {e} : claim'[f] = claim[f]
  /\ redeliveries' = redeliveries
-----------------------------------------------------------------------------
(* The parts of the invariant.                                             *)

LEMMA InitIInv == Init => IInv
  <1> SUFFICES ASSUME Init PROVE IInv
    OBVIOUS
  <1>1. TypeOK
    BY ClaimAssumption DEF Init, TypeOK, Steps, Holding, Ledger!Stages
  <1>2. Unwalked /\ Locks
    BY DEF Init, Unwalked, Locks, Locking
  <1>3. Claims
    BY DEF Init, Claims, Owns, Inserted, GoneEnded, ClaimsAreDistinct, Holding
  <1> QED
    BY <1>1, <1>2, <1>3 DEF IInv

(* A step to where e neither has a lock nor a consumption.                 *)
LEMMA GoesWithout ==
  ASSUME IInv, NEW e \in Execs, NEW l \in Steps \ (Holding \cup Locking),
         Moves(e, l), row' = row, gone' = gone, pc[e] # "ended"
  PROVE  Locks' /\ Claims'
  <1>1. pc \in [Execs -> Steps] /\ claim \in [Execs -> Items \cup {NoItem}]
        /\ gone \subseteq Execs
    BY DEF IInv, TypeOK
  <1>2. pc'[e] = l /\ \A f \in Execs \ {e} : pc'[f] = pc[f] /\ claim'[f] = claim[f]
    BY <1>1 DEF Moves
  <1>3. Locks'
    BY <1>2 DEF IInv, Locks
  <1>4. ASSUME redeliveries' = 0
        PROVE  Owns' /\ Inserted' /\ GoneEnded' /\ ClaimsAreDistinct'
    <2>1. Owns /\ Inserted /\ GoneEnded /\ ClaimsAreDistinct /\ redeliveries = 0
      BY <1>4 DEF IInv, Claims, Moves
    <2>2. Owns' /\ Inserted'
      BY <1>2, <2>1 DEF Owns, Inserted, Locking, Channel
    <2>3. GoneEnded'
      BY <1>1, <1>2, <2>1 DEF GoneEnded
    <2>4. ClaimsAreDistinct'
      BY <1>2, <2>1 DEF ClaimsAreDistinct, Channel
    <2> QED
      BY <2>2, <2>3, <2>4
  <1> QED
    BY <1>3, <1>4 DEF Claims

(* A step between two places where e has its consumption and does not      *)
(* write it, or writes its new stage.                                      *)
LEMMA GoesWith ==
  ASSUME IInv, NEW e \in Execs, pc[e] \in Holding, NEW l \in Holding,
         Moves(e, l), claim' = claim, gone' = gone,
         \/ row' = row /\ (redeliveries = 0 => StageOf(l) = StageOf(pc[e]))
         \/ Mark(e, StageOf(l))
  PROVE  Locks' /\ Claims'
  <1>1. /\ pc \in [Execs -> Steps] /\ claim \in [Execs -> Items \cup {NoItem}]
        /\ gone \subseteq Execs /\ claim[e] \in Items
        /\ row \in [Channels -> [Items -> Ledger!Stages]]
        /\ \A f \in Execs : Channel(f) \in Channels
    BY ClaimAssumption DEF IInv, TypeOK, Channel
  <1>2. pc'[e] = l /\ \A f \in Execs \ {e} : pc'[f] = pc[f]
    BY <1>1 DEF Moves
  <1>3. Locks'
    BY <1>2 DEF IInv, Locks, Locking, Holding
  <1>4. ASSUME redeliveries' = 0
        PROVE  Owns' /\ Inserted' /\ GoneEnded' /\ ClaimsAreDistinct'
    <2>1. Owns /\ Inserted /\ GoneEnded /\ ClaimsAreDistinct /\ redeliveries = 0
      BY <1>4 DEF IInv, Claims, Moves
    <2>2. row'[Channel(e)][claim[e]] = StageOf(l)
      BY <1>1, <2>1 DEF Owns, Mark
    <2>3. ASSUME NEW f \in Execs, claim[f] \in Items,
                 Channel(f) # Channel(e) \/ claim[f] # claim[e]
          PROVE  row'[Channel(f)][claim[f]] = row[Channel(f)][claim[f]]
      BY <1>1, <2>3 DEF Mark
    <2>4. Owns'
      <3>1. ASSUME NEW f \in Execs, f # e, pc[f] \in Holding
            PROVE  row'[Channel(f)][claim[f]] = StageOf(pc[f])
        <4>1. claim[f] \in Items
          BY <3>1 DEF IInv, TypeOK
        <4>2. Channel(f) # Channel(e) \/ claim[f] # claim[e]
          BY <2>1, <3>1 DEF ClaimsAreDistinct
        <4> QED
          BY <2>1, <2>3, <3>1, <4>1, <4>2 DEF Owns
      <3> QED
        BY <1>2, <2>2, <3>1 DEF Owns, Channel
    <2>5. Inserted'
      <3>1. ASSUME NEW f \in Execs, pc[f] = "commit"
            PROVE  row'[Channel(f)][claim[f]] = "unused"
        <4>1. claim[f] \in Items
          BY <3>1 DEF IInv, TypeOK
        <4>2. row[Channel(f)][claim[f]] = "unused"
          BY <2>1, <3>1 DEF Inserted
        <4>3. row[Channel(e)][claim[e]] # "unused"
          BY <2>1 DEF Owns, StageOf
        <4> QED
          BY <2>3, <4>1, <4>2, <4>3
      <3>2. l # "commit"
        BY DEF Holding
      <3> QED
        BY <1>2, <3>1, <3>2 DEF Inserted, Channel
    <2>6. GoneEnded'
      BY <1>1, <1>2, <2>1 DEF GoneEnded, Holding
    <2>7. ClaimsAreDistinct'
      BY <1>2, <2>1 DEF ClaimsAreDistinct, Channel
    <2> QED
      BY <2>4, <2>5, <2>6, <2>7
  <1> QED
    BY <1>3, <1>4 DEF Claims

(* The last step of e, which writes to its consumption what nobody reads.  *)
LEMMA LastKeeps ==
  ASSUME IInv, NEW e \in Execs, NEW st, pc[e] \in Holding,
         Moves(e, "ended"), claim' = claim, Mark(e, st), gone \subseteq gone',
         redeliveries = 0 => gone' \subseteq gone \cup {e}
  PROVE  Locks' /\ Claims'
  <1>1. /\ pc \in [Execs -> Steps] /\ gone \subseteq Execs
        /\ row \in [Channels -> [Items -> Ledger!Stages]] /\ claim[e] \in Items
        /\ \A f \in Execs : Channel(f) \in Channels
    BY ClaimAssumption DEF IInv, TypeOK, Channel
  <1>2. pc'[e] = "ended" /\ \A f \in Execs \ {e} : pc'[f] = pc[f]
    BY <1>1 DEF Moves
  <1>3. Locks'
    BY <1>2 DEF IInv, Locks, Locking
  <1>4. ASSUME redeliveries' = 0
        PROVE  Owns' /\ Inserted' /\ GoneEnded' /\ ClaimsAreDistinct'
    <2>1. Owns /\ Inserted /\ GoneEnded /\ ClaimsAreDistinct /\ redeliveries = 0
      BY <1>4 DEF IInv, Claims, Moves
    <2>2. ASSUME NEW f \in Execs, f # e, pc[f] \in Holding \cup {"commit"}
          PROVE  row'[Channel(f)][claim[f]] = row[Channel(f)][claim[f]]
      <3>1. claim[f] \in Items
        BY <2>2 DEF IInv, TypeOK
      <3>2. Channel(f) # Channel(e) \/ claim[f] # claim[e]
        <4>1. CASE pc[f] \in Holding
          BY <2>1, <2>2, <4>1 DEF ClaimsAreDistinct
        <4>2. CASE pc[f] = "commit"
          <5>1. row[Channel(f)][claim[f]] = "unused"
            BY <2>1, <4>2 DEF Inserted
          <5>2. row[Channel(e)][claim[e]] # "unused"
            BY <2>1 DEF Owns, StageOf
          <5> QED
            BY <5>1, <5>2
        <4> QED
          BY <2>2, <4>1, <4>2
      <3> QED
        BY <1>1, <3>1, <3>2 DEF Mark
    <2>3. Owns' /\ Inserted'
      BY <1>2, <2>1, <2>2 DEF Owns, Inserted, Channel, Holding
    <2>4. GoneEnded'
      BY <1>1, <1>2, <2>1 DEF GoneEnded
    <2>5. ClaimsAreDistinct'
      BY <1>2, <2>1 DEF ClaimsAreDistinct, Channel, Holding
    <2> QED
      BY <2>3, <2>4, <2>5
  <1> QED
    BY <1>3, <1>4 DEF Claims
-----------------------------------------------------------------------------
(* The steps.                                                              *)

Outside == \/ Scrape
           \/ Expire
           \/ \E c \in Channels : grant_feeds_to_channel(c) \/ revoke_feed_from_channel(c)

LEMMA OutsideKeeps == IInv /\ Outside => IInv'
  <1> SUFFICES ASSUME IInv, Outside PROVE IInv'
    OBVIOUS
  <1>1. UNCHANGED <<row, exec, redeliveries>>
    BY DEF Outside, Scrape, Expire, grant_feeds_to_channel, revoke_feed_from_channel
  <1>2. stored' \subseteq Items /\ aged' \subseteq stored' /\ granted' \subseteq Channels
    BY DEF IInv, TypeOK, Outside, Scrape, Expire, grant_feeds_to_channel,
           revoke_feed_from_channel, fetch_feed, upsert_item
  <1>3. TypeOK'
    BY <1>1, <1>2 DEF IInv, TypeOK, exec
  <1>4. Unwalked' /\ Locks' /\ Claims'
    BY <1>1 DEF IInv, exec, Unwalked, Locks, Claims, Owns, Inserted, GoneEnded,
                ClaimsAreDistinct, Channel
  <1> QED
    BY <1>3, <1>4 DEF IInv

(* The types of what the steps of an execution change.                     *)
LEMMA StepTypes ==
  ASSUME IInv, NEW e \in Execs, SelectNews(e) \/ Rest(e)
  PROVE  TypeOK' /\ Unwalked'
  <1>1. /\ pc \in [Execs -> Steps] /\ claim \in [Execs -> Items \cup {NoItem}]
        /\ snapshot \in [Execs -> SUBSET Items] /\ passed \in [Execs -> SUBSET Items]
        /\ row \in [Channels -> [Items -> Ledger!Stages]]
        /\ Channel(e) \in Channels
    BY ClaimAssumption DEF IInv, TypeOK, Channel
  <1>2. UNCHANGED <<news, redeliveries>>
    BY DEF SelectNews, Rest, ReadFeeds, ReadFeedsAgain, BeginSelect, Take, Skip, NoNews,
           Insert, InsertFails, Commit, Attach, Publish, Reject, Complete, ReleaseRead,
           ReleaseDelete
  <1>3. CASE ReadFeeds(e) \/ ReadFeedsAgain(e) \/ NoNews(e) \/ Insert(e)
             \/ Reject(e) \/ Complete(e) \/ ReleaseRead(e)
    <2>1. UNCHANGED <<row, snapshot, passed, claim, gone>>
      BY <1>3 DEF ReadFeeds, ReadFeedsAgain, NoNews, Insert, Reject, Complete, ReleaseRead
    <2>2. PICK l \in Steps : /\ pc' = [pc EXCEPT ![e] = l]
                             /\ l \in {"idle", "feeds", "query"} =>
                                  pc[e] \in {"idle", "feeds", "query"}
                             /\ l \in Holding \cup Locking =>
                                  pc[e] \in Holding \cup Locking
      BY <1>3 DEF ReadFeeds, ReadFeedsAgain, NoNews, Insert, Reject, Complete, ReleaseRead,
                  Goto, Steps, Holding, Locking
    <2> QED
      BY <1>1, <1>2, <2>1, <2>2 DEF IInv, TypeOK, Unwalked, news, Locking
  <1>4. CASE BeginSelect(e)
    <2>1. Unused(Channel(e)) \subseteq Items
      BY DEF IInv, TypeOK, Unused
    <2>2. TypeOK'
      BY <1>1, <1>2, <1>4, <2>1
      DEF IInv, TypeOK, Unwalked, news, BeginSelect, Goto, Steps, Holding
    <2>3. Unwalked'
      BY <1>1, <1>4 DEF IInv, Unwalked, BeginSelect, Goto
    <2> QED
      BY <2>2, <2>3
  <1>5. ASSUME NEW i \in Items, Take(e, i) PROVE TypeOK' /\ Unwalked'
    BY <1>1, <1>2, <1>5 DEF IInv, TypeOK, Unwalked, news, Take, Goto, Steps, Holding
  <1>6. ASSUME NEW i \in Items, Skip(e, i) PROVE TypeOK' /\ Unwalked'
    BY <1>1, <1>2, <1>6 DEF IInv, TypeOK, Unwalked, news, Skip, Reaches
  <1>7. CASE InsertFails(e)
    BY <1>1, <1>2, <1>7 DEF IInv, TypeOK, Unwalked, news, InsertFails, Goto, Steps, Holding
  <1>8. CASE Commit(e) \/ Attach(e) \/ Publish(e) \/ ReleaseDelete(e)
    <2>1. UNCHANGED <<snapshot, passed, claim>>
      BY <1>8 DEF Commit, Attach, Publish, ReleaseDelete
    <2>2. PICK l \in Holding \cup {"ended"} : pc' = [pc EXCEPT ![e] = l]
      BY <1>8 DEF Commit, Attach, Publish, ReleaseDelete, Goto, Holding
    <2>3. claim[e] \in Items
      BY <1>8 DEF IInv, TypeOK, Commit, Attach, Publish, ReleaseDelete, Holding
    <2>4. row' \in [Channels -> [Items -> Ledger!Stages]]
      BY <1>1, <1>8, <2>3, SMTT(30)
      DEF Commit, Attach, Publish, ReleaseDelete, Mark, Ledger!Stages
    <2>5. gone' \subseteq Execs
      BY <1>8 DEF IInv, TypeOK, Commit, Attach, Publish, ReleaseDelete
    <2> QED
      BY <1>1, <1>2, <2>1, <2>2, <2>3, <2>4, <2>5
      DEF IInv, TypeOK, Unwalked, news, Steps, Holding
  <1> QED
    BY <1>3, <1>4, <1>5, <1>6, <1>7, <1>8 DEF SelectNews, Rest

(* The walk, up to the lock.                                               *)
LEMMA WalkKeeps ==
  ASSUME IInv, NEW e \in Execs,
         \/ ReadFeeds(e) \/ ReadFeedsAgain(e) \/ BeginSelect(e) \/ NoNews(e)
         \/ \E i \in Items : Skip(e, i)
  PROVE  Locks' /\ Claims'
  <1>1. pc \in [Execs -> Steps]
    BY DEF IInv, TypeOK
  <1>2. pc[e] # "ended" /\ row' = row /\ claim' = claim /\ gone' = gone
        /\ redeliveries' = redeliveries
    BY DEF ReadFeeds, ReadFeedsAgain, BeginSelect, NoNews, Skip, Reaches
  <1>3. PICK l \in Steps \ (Holding \cup Locking) : pc' = [pc EXCEPT ![e] = l]
    <2>1. CASE \E i \in Items : Skip(e, i)
      <3>1. pc' = pc /\ pc[e] = "scan"
        BY <2>1 DEF Skip, Reaches
      <3>2. pc' = [pc EXCEPT ![e] = "scan"]
        BY <1>1, <3>1
      <3> QED
        BY <3>2 DEF Steps, Holding, Locking
    <2>2. CASE ~\E i \in Items : Skip(e, i)
      BY <2>2 DEF ReadFeeds, ReadFeedsAgain, BeginSelect, NoNews, Goto, Steps, Holding, Locking
    <2> QED
      BY <2>1, <2>2
  <1>4. Moves(e, l)
    BY <1>2, <1>3 DEF Moves
  <1> QED
    BY <1>2, <1>4, GoesWithout

LEMMA TakeKeeps ==
  ASSUME IInv, NEW e \in Execs, NEW i \in Items, Take(e, i)
  PROVE  Locks' /\ Claims'
  <1>1. pc \in [Execs -> Steps] /\ claim \in [Execs -> Items \cup {NoItem}]
    BY DEF IInv, TypeOK
  <1>2. /\ pc[e] = "scan" /\ ~Locked(i)
        /\ row' = row /\ gone' = gone /\ redeliveries' = redeliveries
        /\ pc'[e] = "insert" /\ claim'[e] = i
        /\ \A f \in Execs \ {e} : pc'[f] = pc[f] /\ claim'[f] = claim[f]
    BY <1>1 DEF Take, Reaches, Goto
  <1>3. Locks'
    BY <1>2 DEF IInv, Locks, Locked, Locking
  <1>4. Claims'
    BY <1>2, SMTT(30) DEF IInv, TypeOK, Claims, Owns, Inserted, GoneEnded, ClaimsAreDistinct,
                          Channel, Holding
  <1> QED
    BY <1>3, <1>4

LEMMA InsertKeeps ==
  ASSUME IInv, NEW e \in Execs, Insert(e)
  PROVE  Locks' /\ Claims'
  <1>1. pc \in [Execs -> Steps]
    BY DEF IInv, TypeOK
  <1>2. /\ pc[e] = "insert" /\ row[Channel(e)][claim[e]] = "unused"
        /\ row' = row /\ gone' = gone /\ claim' = claim /\ redeliveries' = redeliveries
        /\ pc'[e] = "commit"
        /\ \A f \in Execs \ {e} : pc'[f] = pc[f]
    BY <1>1 DEF Insert, Goto
  <1>3. Locks'
    BY <1>2 DEF IInv, Locks, Locking
  <1>4. Claims'
    BY <1>2 DEF IInv, TypeOK, Claims, Owns, Inserted, GoneEnded, ClaimsAreDistinct, Channel,
                Holding
  <1> QED
    BY <1>3, <1>4

LEMMA InsertFailsKeeps ==
  ASSUME IInv, NEW e \in Execs, InsertFails(e)
  PROVE  Locks' /\ Claims'
  <1>1. claim \in [Execs -> Items \cup {NoItem}]
    BY DEF IInv, TypeOK
  <1>2. pc[e] # "ended" /\ row' = row /\ gone' = gone /\ Moves(e, "failed")
    BY <1>1 DEF InsertFails, Goto, Moves
  <1>3. "failed" \in Steps \ (Holding \cup Locking)
    BY DEF Steps, Holding, Locking
  <1> QED
    BY <1>2, <1>3, GoesWithout

(* The consumption that appears at the commit: nobody else of the channel   *)
(* has one of that item, or has inserted one.                              *)
LEMMA CommitKeeps ==
  ASSUME IInv, NEW e \in Execs, Commit(e)
  PROVE  Locks' /\ Claims'
  <1>1. /\ pc \in [Execs -> Steps] /\ row \in [Channels -> [Items -> Ledger!Stages]]
        /\ claim[e] \in Items /\ gone \subseteq Execs
        /\ \A f \in Execs : Channel(f) \in Channels
    BY ClaimAssumption DEF IInv, TypeOK, Channel, Commit
  <1>2. /\ pc[e] = "commit" /\ Mark(e, "selected")
        /\ gone' = gone /\ claim' = claim /\ redeliveries' = redeliveries
        /\ pc'[e] = "claimed"
        /\ \A f \in Execs \ {e} : pc'[f] = pc[f]
    BY <1>1 DEF Commit, Goto
  <1>3. Locks'
    BY <1>2 DEF IInv, Locks, Locking
  <1>4. ASSUME redeliveries' = 0
        PROVE  Owns' /\ Inserted' /\ GoneEnded' /\ ClaimsAreDistinct'
    <2>1. Owns /\ Inserted /\ GoneEnded /\ ClaimsAreDistinct /\ redeliveries = 0
      BY <1>2, <1>4 DEF IInv, Claims
    <2>2. row[Channel(e)][claim[e]] = "unused" /\ row'[Channel(e)][claim[e]] = "selected"
      BY <1>1, <1>2, <2>1 DEF Inserted, Mark
    <2>3. ASSUME NEW f \in Execs, claim[f] \in Items,
                 Channel(f) # Channel(e) \/ claim[f] # claim[e]
          PROVE  row'[Channel(f)][claim[f]] = row[Channel(f)][claim[f]]
      BY <1>1, <1>2, <2>3 DEF Mark
    <2>4. \A f \in Execs : pc[f] \in Holding =>
            Channel(f) # Channel(e) \/ claim[f] # claim[e]
      BY <2>1, <2>2 DEF Owns, StageOf
    <2>5. \A f \in Execs \ {e} : pc[f] = "commit" => claim[f] # claim[e]
      BY <1>2 DEF IInv, Locks, Locking
    <2>6. \A f \in Execs : pc[f] \in Holding \cup {"commit"} => claim[f] \in Items
      BY DEF IInv, TypeOK
    <2>7. Owns'
      <3>1. ASSUME NEW f \in Execs, f # e, pc[f] \in Holding
            PROVE  row'[Channel(f)][claim[f]] = StageOf(pc[f])
        BY <2>1, <2>3, <2>4, <2>6, <3>1 DEF Owns
      <3> QED
        BY <1>2, <2>2, <3>1 DEF Owns, StageOf, Channel
    <2>8. Inserted'
      <3>1. ASSUME NEW f \in Execs, f # e, pc[f] = "commit"
            PROVE  row'[Channel(f)][claim[f]] = "unused"
        BY <2>1, <2>3, <2>5, <2>6, <3>1 DEF Inserted
      <3> QED
        BY <1>2, <3>1 DEF Inserted, Channel
    <2>9. GoneEnded'
      BY <1>1, <1>2, <2>1 DEF GoneEnded
    <2>10. ClaimsAreDistinct'
      BY <1>2, <2>1, <2>4 DEF ClaimsAreDistinct, Channel
    <2> QED
      BY <2>7, <2>8, <2>9, <2>10
  <1> QED
    BY <1>3, <1>4 DEF Claims

(* What the rest of the run makes of the consumption.                      *)
LEMMA RestKeeps ==
  ASSUME IInv, NEW e \in Execs,
         Attach(e) \/ Publish(e) \/ Reject(e) \/ Complete(e) \/ ReleaseRead(e)
  PROVE  Locks' /\ Claims'
  <1>1. /\ pc[e] \in Holding /\ pc[e] # "ended"
        /\ claim' = claim /\ gone' = gone /\ redeliveries' = redeliveries
    BY DEF Attach, Publish, Reject, Complete, ReleaseRead, Holding
  <1>2. ASSUME redeliveries = 0 PROVE Kept(e)
    BY <1>1, <1>2 DEF IInv, Claims, GoneEnded, Kept
  <1>3. CASE Attach(e)
    <2>1. CASE Kept(e)
      BY <1>1, <1>3, <2>1, GoesWith DEF Attach, Goto, Moves, StageOf, Holding
    <2>2. CASE ~Kept(e)
      BY <1>1, <1>2, <1>3, <2>2, GoesWith DEF Attach, Goto, Moves, Holding
    <2> QED
      BY <2>1, <2>2
  <1>4. CASE Reject(e)
    BY <1>1, <1>4, GoesWith DEF Reject, Goto, Moves, StageOf, Holding
  <1>5. CASE Complete(e)
    BY <1>1, <1>5, GoesWithout DEF Complete, Goto, Moves, Steps, Holding, Locking
  <1>6. CASE ReleaseRead(e)
    <2>1. CASE Kept(e) /\ row[Channel(e)][claim[e]] = "selected"
      BY <1>1, <1>6, <2>1, GoesWith DEF ReleaseRead, Goto, Moves, StageOf, Holding
    <2>2. CASE ~(Kept(e) /\ row[Channel(e)][claim[e]] = "selected")
      BY <1>1, <1>6, <2>2, GoesWithout
      DEF ReleaseRead, Goto, Moves, Steps, Holding, Locking
    <2> QED
      BY <2>1, <2>2
  <1>7. CASE Publish(e)
    <2>1. CASE row' = row
      BY <1>1, <1>7, <2>1, GoesWithout DEF Publish, Goto, Moves, Steps, Holding, Locking
    <2>2. CASE Mark(e, "published")
      BY <1>1, <1>7, <2>2, LastKeeps DEF Publish, Goto, Moves
    <2> QED
      BY <1>7, <2>1, <2>2 DEF Publish
  <1> QED
    BY <1>3, <1>4, <1>5, <1>6, <1>7

LEMMA ReleaseKeeps ==
  ASSUME IInv, NEW e \in Execs, ReleaseDelete(e)
  PROVE  Locks' /\ Claims'
  <1> DEFINE lost == {f \in Execs : /\ Channel(f) = Channel(e)
                                    /\ claim[f] = claim[e]
                                    /\ pc[f] \in Holding}
  <1>1. /\ pc[e] = "releasing" /\ gone' = gone \cup lost /\ claim' = claim
        /\ Moves(e, "ended")
    BY DEF ReleaseDelete, Goto, Moves
  <1>2. CASE Kept(e)
    <2>1. redeliveries = 0 => lost \subseteq {e}
      BY <1>1 DEF IInv, Claims, ClaimsAreDistinct, Holding
    <2> QED
      BY <1>1, <1>2, <2>1, LastKeeps DEF ReleaseDelete, Holding
  <1>3. CASE ~Kept(e)
    <2>1. redeliveries # 0
      BY <1>1, <1>3 DEF IInv, Claims, GoneEnded, Kept
    <2>2. Locks'
      BY <1>1 DEF IInv, TypeOK, Locks, Locking, Moves
    <2> QED
      BY <1>1, <2>1, <2>2 DEF Claims, Moves
  <1> QED
    BY <1>2, <1>3

LEMMA RedeliverKeeps ==
  ASSUME IInv, NEW e \in Execs, NEW first \in Execs, Redeliver(e, first)
  PROVE  IInv'
  <1>1. /\ pc \in [Execs -> Steps] /\ claim \in [Execs -> Items \cup {NoItem}]
        /\ claim[first] \in Items /\ redeliveries \in Nat
    BY DEF IInv, TypeOK, Redeliver, Holding
  <1>2. redeliveries' # 0 /\ redeliveries' \in Nat
    BY <1>1 DEF Redeliver
  <1>3. TypeOK' /\ Unwalked'
    BY <1>1, <1>2 DEF IInv, TypeOK, Unwalked, Redeliver, Goto, news, Steps, Holding
  <1>4. Locks'
    BY <1>1 DEF IInv, Locks, Locking, Redeliver, Goto
  <1> QED
    BY <1>2, <1>3, <1>4 DEF IInv, Claims

LEMMA NextKeeps == IInv /\ [Next]_vars => IInv'
  <1> SUFFICES ASSUME IInv, [Next]_vars PROVE IInv'
    OBVIOUS
  <1>1. CASE Outside
    BY <1>1, OutsideKeeps
  <1>2. ASSUME NEW e \in Execs, SelectNews(e) \/ Rest(e) PROVE IInv'
    <2>1. TypeOK' /\ Unwalked'
      BY <1>2, StepTypes
    <2>2. Locks' /\ Claims'
      BY <1>2, WalkKeeps, TakeKeeps, InsertKeeps, InsertFailsKeeps, CommitKeeps, RestKeeps,
         ReleaseKeeps DEF SelectNews, Rest
    <2> QED
      BY <2>1, <2>2 DEF IInv
  <1>3. ASSUME NEW e \in Execs, NEW first \in Execs, Redeliver(e, first) PROVE IInv'
    BY <1>3, RedeliverKeeps
  <1>4. CASE UNCHANGED vars
    BY <1>4 DEF vars, news, exec, IInv, TypeOK, Unwalked, Locks, Claims, Owns, Inserted,
                GoneEnded, ClaimsAreDistinct, Channel
  <1> QED
    BY <1>1, <1>2, <1>3, <1>4 DEF Next, Outside
-----------------------------------------------------------------------------
(* The theorems.                                                           *)

(* Every variable keeps its type.                                          *)
THEOREM TypeCorrect == Spec => []TypeOK
  <1>1. IInv => TypeOK
    BY DEF IInv
  <1> QED
    BY <1>1, InitIInv, NextKeeps, PTL DEF Spec

(* However the statements of claim_next_news_for_channel interleave, no two *)
(* runs of a channel work on one item, until a run is executed twice.      *)
THEOREM ClaimsDiffer == Spec => []ClaimsAreDistinct
  <1>1. IInv => ClaimsAreDistinct
    BY DEF IInv, Claims, ClaimsAreDistinct
  <1> QED
    BY <1>1, InitIInv, NextKeeps, PTL DEF Spec

(* A write of a consumption is a move of the ledger.                       *)
LEMMA RowMoves ==
  IInv /\ [Next]_vars => [redeliveries' > 0 \/ Ledger!LedgerNext]_row
  <1> SUFFICES ASSUME IInv, [Next]_vars, row' # row, ~(redeliveries' > 0)
               PROVE  Ledger!LedgerNext
    OBVIOUS
  <1>1. redeliveries \in Nat
    BY DEF IInv, TypeOK
  <1>2. PICK e \in Execs : Commit(e) \/ Attach(e) \/ Publish(e) \/ ReleaseDelete(e)
    <2>1. ~\E e, first \in Execs : Redeliver(e, first)
      BY DEF Redeliver
    <2>2. Next
      BY DEF vars
    <2> QED
      BY <2>1, <2>2
      DEF Next, Scrape, Expire, grant_feeds_to_channel, revoke_feed_from_channel, SelectNews,
          Rest, ReadFeeds, ReadFeedsAgain, BeginSelect, Take, Skip, NoNews, Insert,
          InsertFails, Reject, Complete, ReleaseRead
  <1>3. redeliveries = 0
    BY <1>1, <1>2 DEF Commit, Attach, Publish, ReleaseDelete
  <1>4. Owns /\ Inserted
    BY <1>3 DEF IInv, Claims
  <1>5. Channel(e) \in Channels /\ claim[e] \in Items
    BY <1>2, ClaimAssumption
    DEF IInv, TypeOK, Channel, Commit, Attach, Publish, ReleaseDelete, Holding
  <1> DEFINE now == row[Channel(e)][claim[e]]
  <1>6. CASE Commit(e)
    <2>1. now = "unused" /\ Mark(e, "selected")
      BY <1>4, <1>6 DEF Inserted, Commit
    <2> QED
      BY <1>5, <2>1 DEF Mark, Ledger!LedgerNext, Ledger!Move
  <1>7. CASE Attach(e)
    <2>1. now = "selected" /\ Mark(e, "produced")
      BY <1>4, <1>7 DEF Owns, StageOf, Attach, Holding
    <2> QED
      BY <1>5, <2>1 DEF Mark, Ledger!LedgerNext, Ledger!Move
  <1>8. CASE Publish(e)
    <2>1. now = "produced" /\ Mark(e, "published")
      BY <1>4, <1>8 DEF Owns, StageOf, Publish, Holding
    <2> QED
      BY <1>5, <2>1 DEF Mark, Ledger!LedgerNext, Ledger!Move
  <1>9. CASE ReleaseDelete(e)
    <2>1. now = "selected" /\ Mark(e, "unused")
      BY <1>4, <1>9 DEF Owns, StageOf, ReleaseDelete, Holding
    <2> QED
      BY <1>5, <2>1 DEF Mark, Ledger!LedgerNext, Ledger!Move
  <1> QED
    BY <1>2, <1>6, <1>7, <1>8, <1>9

(* The consumptions implement the ledger, until a run is executed twice at a *)
(* time: no channel takes an item that it has, none goes back once a video   *)
(* was made of it.                                                         *)
THEOREM Implements == Spec => ImplementsLedger
  <1>1. Init => Ledger!LedgerInit
    BY DEF Init, Ledger!LedgerInit
  <1> QED
    BY <1>1, InitIInv, NextKeeps, RowMoves, PTL DEF Spec, ImplementsLedger
=============================================================================
