----------------------------- MODULE NewsClaim -----------------------------
(***************************************************************************)
(* How pipeline runs claim news: claim_next_news_for_channel, statement by *)
(* statement, with the row locks of SELECT ... FOR UPDATE SKIP LOCKED, and *)
(* what the rest of the run does with the claim.                           *)
(*                                                                         *)
(* The SELECT sees the consumptions committed when it starts, then walks   *)
(* over the unused items, newest first, and passes by those that another   *)
(* transaction has locked.  The lock lies on the item, which all channels  *)
(* share, and does not change it, so that PostgreSQL has no reason to look *)
(* at the consumptions again.                                              *)
(***************************************************************************)
EXTENDS Naturals, FiniteSets

CONSTANTS
  Channels,
  Items,            \* news items, numbered from the oldest to the newest
  Execs,            \* executions of a pipeline run
  ChannelOf,        \* the channel of each
  NoItem,
  MaxRedeliveries   \* bound: executions delivered a second time

ASSUME ClaimAssumption ==
  /\ Items \subseteq Nat
  /\ IsFiniteSet(Items)
  /\ ChannelOf \in [Execs -> Channels]
  /\ NoItem \notin Items
  /\ MaxRedeliveries \in Nat

VARIABLES
  stored,      \* committed items
  aged,        \* those older than RSS_NEWS_MAX_AGE_DAYS
  granted,     \* channels that have the feed
  row,         \* committed consumptions of each channel: their status
  \* an execution
  pc,
  snapshot,    \* the items that were unused when its SELECT began
  passed,      \* those that it has skipped
  claim,       \* the item it has locked, later claimed
  gone,        \* executions whose consumption has been removed
  redeliveries

news == <<stored, aged, granted>>
exec == <<pc, snapshot, passed, claim, gone>>
vars == <<news, row, exec, redeliveries>>

Ledger == INSTANCE NewsLedger WITH entry <- row

Steps == {"idle", "feeds", "query", "scan", "insert", "commit",  \* select_news
          "claimed", "produced", "releasing",                    \* the rest
          "free", "skipped", "rejected", "failed", "ended"}      \* it is over

\* The steps of an execution that has a consumption.
Holding == {"claimed", "produced", "rejected", "releasing"}

Channel(e) == ChannelOf[e]
Goto(e, l) == pc' = [pc EXCEPT ![e] = l]
Mark(e, st) == row' = [row EXCEPT ![Channel(e)][claim[e]] = st]

Init ==
  /\ stored = {}
  /\ aged = {}
  /\ granted = Channels
  /\ row = [c \in Channels |-> [i \in Items |-> "unused"]]
  /\ pc = [e \in Execs |-> "idle"]
  /\ snapshot = [e \in Execs |-> {}]
  /\ passed = [e \in Execs |-> {}]
  /\ claim = [e \in Execs |-> NoItem]
  /\ gone = {}
  /\ redeliveries = 0
-----------------------------------------------------------------------------
(* Around the claims.                                                      *)

\* What the feed answers: any items, none if it cannot be fetched or parsed.
fetch_feed == SUBSET Items

\* upsert_item creates those that are not stored; it changes no others.
upsert_item(S) == stored \cup S

\* A scrape commits the new items of its feeds all together.
Scrape == \E S \in fetch_feed :
  /\ stored' = upsert_item(S)
  /\ UNCHANGED <<aged, granted, row, exec, redeliveries>>

\* An item grows older than RSS_NEWS_MAX_AGE_DAYS.
Expire == \E i \in stored :
  /\ aged' = aged \cup {i}
  /\ UNCHANGED <<stored, granted, row, exec, redeliveries>>

grant_feeds_to_channel(c) ==
  /\ granted' = granted \cup {c}
  /\ UNCHANGED <<stored, aged, row, exec, redeliveries>>

revoke_feed_from_channel(c) ==
  /\ granted' = granted \ {c}
  /\ UNCHANGED <<stored, aged, row, exec, redeliveries>>
-----------------------------------------------------------------------------
(* select_news.                                                            *)

\* get_channel_feed_ids is not empty.
HasFeed(c) == c \in granted

\* Without a feed the run is free to think of anything.
ReadFeeds(e) ==
  /\ pc[e] = "idle"
  /\ Goto(e, IF HasFeed(Channel(e)) THEN "feeds" ELSE "free")
  /\ UNCHANGED <<news, row, snapshot, passed, claim, gone, redeliveries>>

\* The claim reads the feeds again; without one it returns None.
ReadFeedsAgain(e) ==
  /\ pc[e] = "feeds"
  /\ Goto(e, IF HasFeed(Channel(e)) THEN "query" ELSE "skipped")
  /\ UNCHANGED <<news, row, snapshot, passed, claim, gone, redeliveries>>

Unused(c) == {i \in stored \ aged : row[c][i] = "unused"}

BeginSelect(e) ==
  /\ pc[e] = "query"
  /\ snapshot' = [snapshot EXCEPT ![e] = Unused(Channel(e))]
  /\ Goto(e, "scan")
  /\ UNCHANGED <<news, row, passed, claim, gone, redeliveries>>

\* Some open transaction has locked the item.
Locked(i) == \E f \in Execs : pc[f] \in {"insert", "commit"} /\ claim[f] = i

\* The walk has come to the item.
Reaches(e, i) == /\ pc[e] = "scan"
                 /\ i \in snapshot[e] \ passed[e]
                 /\ \A j \in snapshot[e] \ passed[e] : j <= i

\* Mutated form: the item is not kept for the insertion.
TakeUnkept(e, i) ==
  /\ Reaches(e, i)
  /\ ~Locked(i)
  /\ Goto(e, "insert")
  /\ UNCHANGED <<news, row, snapshot, passed, claim, gone, redeliveries>>

Take(e, i) ==
  /\ Reaches(e, i)
  /\ ~Locked(i)
  /\ claim' = [claim EXCEPT ![e] = i]
  /\ Goto(e, "insert")
  /\ UNCHANGED <<news, row, snapshot, passed, gone, redeliveries>>

\* SKIP LOCKED.
Skip(e, i) ==
  /\ Reaches(e, i)
  /\ Locked(i)
  /\ passed' = [passed EXCEPT ![e] = @ \cup {i}]
  /\ UNCHANGED <<news, row, pc, snapshot, claim, gone, redeliveries>>

\* The claim returns None, and the router ends the run without a video.
NoNews(e) ==
  /\ pc[e] = "scan"
  /\ passed[e] = snapshot[e]
  /\ Goto(e, "skipped")
  /\ UNCHANGED <<news, row, snapshot, passed, claim, gone, redeliveries>>

\* Mutated form: uq_channel_news_item is missing.
InsertUnchecked(e) ==
  /\ pc[e] = "insert"
  /\ Goto(e, "commit")
  /\ UNCHANGED <<news, row, snapshot, passed, claim, gone, redeliveries>>

Insert(e) ==
  /\ pc[e] = "insert"
  /\ row[Channel(e)][claim[e]] = "unused"
  /\ Goto(e, "commit")
  /\ UNCHANGED <<news, row, snapshot, passed, claim, gone, redeliveries>>

\* The item was consumed after the SELECT began and before its lock was
\* taken: uq_channel_news_item ends the run with an IntegrityError.
InsertFails(e) ==
  /\ pc[e] = "insert"
  /\ row[Channel(e)][claim[e]] # "unused"
  /\ claim' = [claim EXCEPT ![e] = NoItem]
  /\ Goto(e, "failed")
  /\ UNCHANGED <<news, row, snapshot, passed, gone, redeliveries>>

Commit(e) ==
  /\ pc[e] = "commit"
  /\ Mark(e, "selected")
  /\ Goto(e, "claimed")
  /\ UNCHANGED <<news, snapshot, passed, claim, gone, redeliveries>>
-----------------------------------------------------------------------------
(* The rest of the run.                                                    *)

\* Its consumption, if nobody has removed it.
Kept(e) == e \notin gone

\* attach_video in persist_metadata; a consumption that is gone is no error.
Attach(e) ==
  /\ pc[e] = "claimed"
  /\ IF Kept(e) THEN Mark(e, "produced") ELSE UNCHANGED row
  /\ Goto(e, "produced")
  /\ UNCHANGED <<news, snapshot, passed, claim, gone, redeliveries>>

\* mark_published in publish, if any platform has taken the video.
Publish(e) ==
  /\ pc[e] = "produced"
  /\ \/ Kept(e) /\ Mark(e, "published")
     \/ UNCHANGED row
  /\ Goto(e, "ended")
  /\ UNCHANGED <<news, snapshot, passed, claim, gone, redeliveries>>

\* The ideas are rejected.
Reject(e) ==
  /\ pc[e] = "claimed"
  /\ Goto(e, "rejected")
  /\ UNCHANGED <<news, row, snapshot, passed, claim, gone, redeliveries>>

\* The graph has ended: the run is completed, and keeps its claim.
Complete(e) ==
  /\ pc[e] = "rejected"
  /\ Goto(e, "ended")
  /\ UNCHANGED <<news, row, snapshot, passed, claim, gone, redeliveries>>

\* If mark_completed fails, release_consumption reads the row,
ReleaseRead(e) ==
  /\ pc[e] = "rejected"
  /\ Goto(e, IF Kept(e) /\ row[Channel(e)][claim[e]] = "selected"
             THEN "releasing" ELSE "ended")
  /\ UNCHANGED <<news, row, snapshot, passed, claim, gone, redeliveries>>

\* and deletes it by its key.
ReleaseDelete(e) ==
  /\ pc[e] = "releasing"
  /\ IF Kept(e) THEN Mark(e, "unused") ELSE UNCHANGED row
  /\ gone' = gone \cup {f \in Execs : /\ Channel(f) = Channel(e)
                                      /\ claim[f] = claim[e]
                                      /\ pc[f] \in Holding}
  /\ Goto(e, "ended")
  /\ UNCHANGED <<news, snapshot, passed, claim, redeliveries>>

\* The visibility timeout has the run executed a second time, from the
\* checkpoint of select_news, while the first execution goes on.
Redeliver(e, first) ==
  /\ redeliveries < MaxRedeliveries
  /\ redeliveries' = redeliveries + 1
  /\ pc[e] = "idle"
  /\ pc[first] = "claimed"
  /\ Channel(e) = Channel(first)
  /\ claim' = [claim EXCEPT ![e] = claim[first]]
  /\ Goto(e, "claimed")
  /\ UNCHANGED <<news, row, snapshot, passed, gone>>

SelectNews(e) == \/ ReadFeeds(e)
                 \/ ReadFeedsAgain(e)
                 \/ BeginSelect(e)
                 \/ \E i \in Items : Take(e, i) \/ Skip(e, i)
                 \/ NoNews(e)
                 \/ Insert(e)
                 \/ InsertFails(e)
                 \/ Commit(e)

Rest(e) == Attach(e) \/ Publish(e) \/ Reject(e) \/ Complete(e)
           \/ ReleaseRead(e) \/ ReleaseDelete(e)

Next == \/ Scrape
        \/ Expire
        \/ \E c \in Channels : grant_feeds_to_channel(c) \/ revoke_feed_from_channel(c)
        \/ \E e \in Execs : SelectNews(e) \/ Rest(e)
        \/ \E e, first \in Execs : Redeliver(e, first)

Spec == Init /\ [][Next]_vars
-----------------------------------------------------------------------------
(* Properties.                                                             *)

\* Types of all variables.
TypeOK ==
  /\ stored \subseteq Items
  /\ aged \subseteq stored
  /\ granted \subseteq Channels
  /\ row \in [Channels -> [Items -> Ledger!Stages]]
  /\ pc \in [Execs -> Steps]
  /\ snapshot \in [Execs -> SUBSET Items]
  /\ passed \in [Execs -> SUBSET Items]
  /\ \A e \in Execs : passed[e] \subseteq snapshot[e]
  /\ claim \in [Execs -> Items \cup {NoItem}]
  /\ \A e \in Execs : pc[e] \in Holding \cup {"insert", "commit"} => claim[e] \in Items
  /\ gone \subseteq Execs
  /\ redeliveries \in Nat

\* Two runs of a channel never work on the same item: SKIP LOCKED alone does
\* not see to it, the unique constraint does.
ClaimsAreDistinct ==
  redeliveries = 0 =>
    \A e, f \in Execs : /\ e # f /\ Channel(e) = Channel(f)
                        /\ pc[e] \in Holding /\ pc[f] \in Holding
                       => claim[e] # claim[f]

\* The consumptions keep the promises of the ledger, however the statements
\* of the claims interleave, until a run is executed twice at a time.
ImplementsLedger == /\ Ledger!LedgerInit
                    /\ [][redeliveries' > 0 \/ Ledger!LedgerNext]_row
=============================================================================
