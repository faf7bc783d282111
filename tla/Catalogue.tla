------------------------------ MODULE Catalogue -----------------------------
(***************************************************************************)
(* The scrape of the RSS feeds: scrape_rss_feeds, sent by beat every day   *)
(* and by POST /rss/scrape, so that executions may overlap.  One           *)
(* transaction reads the active feeds and stores the items and the status  *)
(* of each; a second one dispatches the runs (RssScheduling begins there). *)
(*                                                                         *)
(* READ COMMITTED: a statement sees what is committed and what its own     *)
(* transaction wrote.  An insert of an item that another transaction has   *)
(* inserted, and an update of a feed that another has updated, wait for    *)
(* the other to end; Postgres ends one of those that wait in a circle.     *)
(***************************************************************************)
EXTENDS Naturals, FiniteSets, FiniteSetsExt, SequencesExt

CONSTANTS
  Scrapers,   \* executions of scrape_rss_feeds
  Sources,    \* the feeds
  Guids,      \* the items of a feed
  ListLimit   \* feeds that list_active returns at most, 100

ASSUME CatalogueAssumption ==
  IsFiniteSet(Sources) /\ ListLimit \in Nat \ {0}

Entries == Sources \X Guids
FeedStatus == [error : BOOLEAN, items : SUBSET Guids]
Unscraped  == [error |-> FALSE, items |-> {}]

VARIABLES
  active,    \* feeds that are active
  stored,    \* items in rss_news_items
  status,    \* of each feed: what its last scrape was, and which items it had
  offered,   \* items that a dispatch has seen
  stranded,  \* history: items whose own scrape has not come to its dispatch
  scraper    \* of each execution

catalogueVars == <<active, stored, status, offered, stranded, scraper>>

Fresh == [pc      |-> "new",
          todo    |-> <<>>,       \* feeds, the first one in work
          error   |-> FALSE,      \* of its fetch
          found   |-> {},         \* the guids fetched from it,
          left    |-> {},         \* those still to upsert,
          guid    |-> "none",     \* and the one that had no row
          inserts |-> {},         \* what the transaction has written
          updated |-> {},
          updates |-> [f \in Sources |-> Unscraped]]

CatalogueInit ==
  /\ active \in SUBSET Sources
  /\ stored = {} /\ offered = {} /\ stranded = {}
  /\ status = [f \in Sources |-> Unscraped]
  /\ scraper = [s \in Scrapers |-> Fresh]
-----------------------------------------------------------------------------
Feed(s)  == Head(scraper[s].todo)
Entry(s) == <<Feed(s), scraper[s].guid>>
At(s, pc) == scraper[s].pc = pc
InTransaction(s) == scraper[s].pc \in {"fetch", "items", "insert", "commit"}
Becomes(s, r)  == scraper' = [scraper EXCEPT ![s] = r]
OnlyScraper    == UNCHANGED <<active, stored, status, offered, stranded>>

\* The transactions that hold what s wants to write.
Holders(s) ==
  {t \in Scrapers \ {s} :
     /\ InTransaction(t)
     /\ \/ At(s, "insert") /\ Entry(s) \in scraper[t].inserts
        \/ At(s, "items") /\ scraper[s].left = {} /\ Feed(s) \in scraper[t].updated}

\* POST /rss/feeds.
CreateFeed(f) ==
  /\ f \notin active
  /\ active' = active \cup {f}
  /\ UNCHANGED <<stored, status, offered, stranded, scraper>>

\* list_active, in no particular order.  Without feeds the task returns.
ListActive(s) ==
  /\ At(s, "new")
  /\ IF active = {}
     THEN Becomes(s, [Fresh EXCEPT !.pc = "ended"])
     ELSE \E q \in SetToSeqs(active) :
            Becomes(s, [Fresh EXCEPT !.pc = "fetch",
                                     !.todo = SubSeq(q, 1, Min({Len(q), ListLimit}))])
  /\ OnlyScraper

\* fetch_feed: the items that the feed has now, or an error.
Fetch(s) ==
  /\ At(s, "fetch")
  /\ \E error \in BOOLEAN, found \in SUBSET Guids :
       /\ error => found = {}
       /\ Becomes(s, [scraper[s] EXCEPT !.pc = "items", !.error = error,
                                        !.found = found, !.left = found])
  /\ OnlyScraper

\* upsert_item looks for the row, and creates it if there is none.
Look(s, g) ==
  /\ At(s, "items") /\ g \in scraper[s].left
  /\ IF <<Feed(s), g>> \in stored \cup scraper[s].inserts
     THEN Becomes(s, [scraper[s] EXCEPT !.left = @ \ {g}])
     ELSE Becomes(s, [scraper[s] EXCEPT !.pc = "insert", !.guid = g])
  /\ OnlyScraper

\* The task fails, and its transaction is rolled back.
Abort(s) == Becomes(s, [Fresh EXCEPT !.pc = "ended"]) /\ OnlyScraper

Insert(s) ==
  LET r == scraper[s]
  IN /\ At(s, "insert") /\ Holders(s) = {} /\ Entry(s) \notin stored
     /\ Becomes(s, [r EXCEPT !.pc = "items", !.left = @ \ {r.guid}, !.guid = "none",
                             !.inserts = @ \cup {Entry(s)}])
     /\ OnlyScraper

\* Mutant: the error is caught after create() has rolled back, and the task goes on.
ConflictSwallowed(s) ==
  LET r == scraper[s]
  IN /\ At(s, "insert") /\ Holders(s) = {} /\ Entry(s) \in stored
     /\ Becomes(s, [r EXCEPT !.pc = "items", !.left = @ \ {r.guid}, !.guid = "none",
                             !.inserts = {}, !.updated = {}])
     /\ OnlyScraper

\* uq_rss_feed_guid: another scrape has committed the item since the look.
Conflict(s) ==
  /\ At(s, "insert") /\ Holders(s) = {} /\ Entry(s) \in stored
  /\ Abort(s)

\* Mutant: the status is recorded before the items are stored.
RecordEarly(s) ==
  LET r == scraper[s]
  IN /\ At(s, "items") /\ Holders(s) = {}
     /\ Becomes(s, [r EXCEPT !.pc = IF Len(r.todo) = 1 THEN "commit" ELSE "fetch",
                             !.todo = Tail(@), !.error = FALSE, !.found = {},
                             !.updated = @ \cup {Feed(s)},
                             !.updates[Feed(s)] = [error |-> r.error, items |-> r.found]])
     /\ OnlyScraper

\* _record_feed_scrape_status.
Record(s) ==
  LET r == scraper[s]
  IN /\ At(s, "items") /\ r.left = {} /\ Holders(s) = {}
     /\ Becomes(s, [r EXCEPT !.pc = IF Len(r.todo) = 1 THEN "commit" ELSE "fetch",
                             !.todo = Tail(@), !.error = FALSE, !.found = {},
                             !.updated = @ \cup {Feed(s)},
                             !.updates[Feed(s)] = [error |-> r.error, items |-> r.found]])
     /\ OnlyScraper

Deadlock(s) ==
  /\ \E D \in SUBSET Scrapers : s \in D /\ \A t \in D : Holders(t) \cap D # {}
  /\ Abort(s)

Stores(s, next) ==
  /\ At(s, "commit")
  /\ stored' = stored \cup scraper[s].inserts
  /\ status' = [f \in Sources |-> IF f \in scraper[s].updated THEN scraper[s].updates[f]
                                                              ELSE status[f]]
  /\ Becomes(s, [Fresh EXCEPT !.pc = next, !.inserts = scraper[s].inserts])
  /\ UNCHANGED <<active, offered, stranded>>

\* Mutant: a scrape in which a feed has failed returns before the dispatch.
CommitEndsOnError(s) ==
  Stores(s, IF \E f \in scraper[s].updated : scraper[s].updates[f].error THEN "ended"
                                                                         ELSE "dispatch")

CommitScrape(s) == Stores(s, "dispatch")

\* dispatch_rss_pipelines_for_all_channels and the compensation after it.
OfferNews(s) ==
  /\ At(s, "dispatch")
  /\ offered' = offered \cup stored
  /\ Becomes(s, [Fresh EXCEPT !.pc = "ended"])
  /\ UNCHANGED <<active, stored, status, stranded>>

\* The worker is lost, or the database: in the scrape, or in the dispatch.
LoseScrape(s) ==
  /\ InTransaction(s) \/ At(s, "dispatch")
  /\ stranded' = IF At(s, "dispatch") THEN stranded \cup scraper[s].inserts ELSE stranded
  /\ Becomes(s, [Fresh EXCEPT !.pc = "ended"])
  /\ UNCHANGED <<active, stored, status, offered>>

CatalogueNext ==
  \/ \E f \in Sources : CreateFeed(f)
  \/ \E s \in Scrapers :
       \/ ListActive(s) \/ Fetch(s) \/ Insert(s) \/ Conflict(s) \/ Record(s)
       \/ Deadlock(s) \/ CommitScrape(s) \/ OfferNews(s) \/ LoseScrape(s)
       \/ \E g \in Guids : Look(s, g)

CatalogueSpec == CatalogueInit /\ [][CatalogueNext]_catalogueVars
-----------------------------------------------------------------------------
(* Properties.                                                             *)

\* The tables and the executions have their types.
CatalogueTypeOK ==
  /\ active \subseteq Sources /\ stored \subseteq Entries
  /\ offered \subseteq stored /\ stranded \subseteq stored
  /\ status \in [Sources -> FeedStatus]
  /\ \A s \in Scrapers :
       LET r == scraper[s]
       IN /\ r.pc \in {"new", "fetch", "items", "insert", "commit", "dispatch", "ended"}
          /\ r.todo \in Seq(Sources) /\ r.error \in BOOLEAN
          /\ r.left \subseteq r.found /\ r.found \subseteq Guids
          /\ r.guid \in Guids \cup {"none"}
          /\ r.inserts \subseteq Entries /\ r.updated \subseteq Sources
          /\ r.updates \in [Sources -> FeedStatus]

\* A scrape status that can be read is true: the items of that scrape are
\* stored, whichever scrape has stored them and whichever other one has failed
\* on them.
StatusMeansStored ==
  \A f \in Sources : \A g \in status[f].items : <<f, g>> \in stored

\* An item that can be read has been before a dispatch, or the scrape that has
\* stored it goes on to one; otherwise that scrape has been lost in between.  A
\* scrape that fails on an item of another leaves it to that other.
NewsIsDispatched ==
  stored \subseteq offered \cup stranded \cup
    UNION {scraper[s].inserts : s \in {t \in Scrapers : At(t, "dispatch")}}
=============================================================================
