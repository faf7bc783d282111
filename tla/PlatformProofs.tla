--------------------------- MODULE PlatformProofs ---------------------------
(***************************************************************************)
(* Proofs about the parts around the pipeline: the scrape of the feeds     *)
(* (Catalogue), the rate limiter (RateLimit), the requests of users on     *)
(* their channels (Ownership), and the database with its migrations, users *)
(* and permissions (Schema, Accounts), for any constants; and about all of *)
(* them beside each other and the planning of runs (Platform).             *)
(***************************************************************************)
EXTENDS Platform, RssSchedulingProofs, FiniteSetTheorems, SequenceTheorems, TLAPS

(***************************************************************************)
(*                               Catalogue                                 *)
(***************************************************************************)
Points == {"new", "fetch", "items", "insert", "commit", "dispatch", "ended"}

Records == [pc      : Points,
            todo    : Seq(Sources),
            error   : BOOLEAN,
            found   : SUBSET Guids,
            left    : SUBSET Guids,
            guid    : Guids \cup {"none"},
            inserts : SUBSET Entries,
            updated : SUBSET Sources,
            updates : [Sources -> FeedStatus]]

(* An execution has what it relies on: what it is going to record is       *)
(* written or committed, and what it brings to the dispatch is committed.  *)
Sound(r, committed) ==
  /\ r.left \subseteq r.found
  /\ r.pc \in {"fetch", "items", "insert"} => r.todo # <<>>
  /\ r.pc = "insert" => r.guid \in r.left
  /\ \A f \in r.updated : \A g \in r.updates[f].items : <<f, g>> \in committed \cup r.inserts
  /\ r.pc \in {"items", "insert"} =>
       \A g \in r.found \ r.left : <<Head(r.todo), g>> \in committed \cup r.inserts
  /\ r.pc = "dispatch" => r.inserts \subseteq committed

TablesOK ==
  /\ active \subseteq Sources /\ stored \subseteq Entries
  /\ offered \subseteq stored /\ stranded \subseteq stored
  /\ status \in [Sources -> FeedStatus]

CatalogueInv ==
  /\ TablesOK
  /\ scraper \in [Scrapers -> Records]
  /\ \A s \in Scrapers : Sound(scraper[s], stored)
  /\ StatusMeansStored
  /\ NewsIsDispatched
-----------------------------------------------------------------------------
(* Executions and the sequences they work on.                              *)

(* An execution that begins or ends is sound whatever is committed.        *)
LEMMA FreshIsSound ==
  ASSUME NEW place \in {"new", "ended"}, NEW committed
  PROVE  /\ [Fresh EXCEPT !.pc = place] \in Records
         /\ Sound([Fresh EXCEPT !.pc = place], committed)
  <1>1. Unscraped \in FeedStatus
    BY DEF Unscraped, FeedStatus
  <1>2. <<>> \in Seq(Sources)
    OBVIOUS
  <1> QED
    BY <1>1, <1>2 DEF Fresh, Records, Points, Sound

(* What others commit does not disturb an execution.                       *)
LEMMA SoundGrows ==
  ASSUME NEW r \in Records, NEW old, NEW new, old \subseteq new, Sound(r, old)
  PROVE  Sound(r, new)
  BY DEF Sound

(* What is left of the sequence after its first feed.                      *)
LEMMA RestOfTodo ==
  ASSUME NEW q \in Seq(Sources), q # <<>>
  PROVE  /\ Head(q) \in Sources /\ Tail(q) \in Seq(Sources)
         /\ Len(q) # 1 => Tail(q) # <<>>
  <1>1. Len(q) \in Nat \ {0}
    OBVIOUS
  <1>2. Head(q) \in Sources /\ Tail(q) \in Seq(Sources) /\ Len(Tail(q)) = Len(q) - 1
    OBVIOUS
  <1>3. Len(q) # 1 => Len(Tail(q)) # 0
    BY <1>1, <1>2
  <1>4. Len(<<>>) = 0
    OBVIOUS
  <1>5. Len(q) # 1 => Tail(q) # <<>>
    BY <1>3, <1>4, ZenonT(30)
  <1> QED
    BY <1>2, <1>5

(* list_active returns at least one feed if there is one.                  *)
LEMMA ListedFeeds ==
  ASSUME NEW S \in SUBSET Sources, S # {},
         NEW q \in SetToSeqs(S)
  PROVE  /\ SubSeq(q, 1, Min({Len(q), ListLimit})) \in Seq(Sources)
         /\ SubSeq(q, 1, Min({Len(q), ListLimit})) # <<>>
  <1> DEFINE n == Cardinality(S)
             m == Min({Len(q), ListLimit})
  <1>1. IsFiniteSet(S)
    BY FS_Subset, CatalogueAssumption
  <1>2. n \in Nat /\ n # 0
    <2>1. n \in Nat
      BY <1>1, FS_CardinalityType
    <2>2. n = 0 <=> S = {}
      BY <1>1, FS_EmptySet
    <2> QED
      BY <2>1, <2>2
  <1>3. q \in [1..n -> S]
    BY DEF SetToSeqs
  <1>4. Len(q) = n
    BY <1>2, <1>3
  <1>5. m \in 1..n
    <2>1. \E x \in {n, ListLimit} : \A y \in {n, ListLimit} : x =< y
      <3>1. CASE n =< ListLimit
        BY <3>1, <1>2, CatalogueAssumption
      <3>2. CASE ~(n =< ListLimit)
        BY <3>2, <1>2, CatalogueAssumption
      <3> QED
        BY <3>1, <3>2
    <2>2. m \in {n, ListLimit} /\ \A y \in {n, ListLimit} : m =< y
      BY <2>1, <1>4 DEF Min
    <2> QED
      BY <2>2, <1>2, CatalogueAssumption
  <1> HIDE DEF m, n
  <1>6. m \in Int /\ \A i \in 1..m : q[i] \in Sources
    BY <1>2, <1>3, <1>5
  <1>7. SubSeq(q, 1, m) \in Seq(Sources) /\ Len(SubSeq(q, 1, m)) = m
    BY <1>2, <1>5, <1>6, SubSeqProperties
  <1>8. Len(SubSeq(q, 1, m)) # 0
    BY <1>2, <1>5, <1>7
  <1>9. SubSeq(q, 1, m) # <<>>
    <2>1. Len(<<>>) = 0
      OBVIOUS
    <2> QED
      BY <1>8, <2>1
  <1> QED
    BY <1>7, <1>9 DEF m
-----------------------------------------------------------------------------
(* The steps.                                                              *)

LEMMA CatalogueStarts == CatalogueInit => CatalogueInv
  <1> SUFFICES ASSUME CatalogueInit PROVE CatalogueInv
    OBVIOUS
  <1>1. Fresh = [Fresh EXCEPT !.pc = "new"]
    <2>1. Fresh.pc = "new" /\ Fresh = [x \in DOMAIN Fresh |-> Fresh[x]]
      BY DEF Fresh
    <2> HIDE DEF Fresh
    <2> QED
      BY <2>1
  <1>2. Fresh \in Records /\ Sound(Fresh, stored)
    BY <1>1, FreshIsSound
  <1>3. TablesOK
    BY DEF CatalogueInit, TablesOK, Unscraped, FeedStatus
  <1>4. StatusMeansStored /\ NewsIsDispatched
    BY DEF CatalogueInit, StatusMeansStored, NewsIsDispatched, Unscraped
  <1> QED
    BY <1>2, <1>3, <1>4 DEF CatalogueInv, CatalogueInit

(* A step inside of an execution that is not at its dispatch.              *)
LEMMA InnerStep ==
  ASSUME CatalogueInv, NEW s \in Scrapers, NEW r \in Records, Sound(r, stored),
         scraper[s].pc # "dispatch", Becomes(s, r), OnlyScraper
  PROVE  CatalogueInv'
  <1>1. scraper' \in [Scrapers -> Records]
    BY DEF CatalogueInv, Becomes
  <1>2. \A t \in Scrapers : Sound(scraper'[t], stored')
    BY DEF CatalogueInv, Becomes, OnlyScraper
  <1>3. TablesOK' /\ StatusMeansStored'
    BY DEF CatalogueInv, OnlyScraper, TablesOK, StatusMeansStored
  <1>4. \A t \in Scrapers : scraper[t].pc = "dispatch" => scraper'[t] = scraper[t]
    BY DEF CatalogueInv, Becomes
  <1>5. NewsIsDispatched'
    BY <1>4 DEF CatalogueInv, NewsIsDispatched, OnlyScraper, At
  <1> QED
    BY <1>1, <1>2, <1>3, <1>5 DEF CatalogueInv

(* An execution that ends without its dispatch and without a commit.       *)
LEMMA AbortKeeps ==
  ASSUME CatalogueInv, NEW s \in Scrapers, scraper[s].pc # "dispatch", Abort(s)
  PROVE  CatalogueInv'
  <1> DEFINE r == [Fresh EXCEPT !.pc = "ended"]
  <1>1. r \in Records /\ Sound(r, stored)
    BY FreshIsSound
  <1>2. Becomes(s, r) /\ OnlyScraper
    BY DEF Abort
  <1> HIDE DEF r
  <1> QED
    BY <1>1, <1>2, InnerStep

LEMMA ListActiveKeeps ==
  ASSUME CatalogueInv, NEW s \in Scrapers, ListActive(s)
  PROVE  CatalogueInv'
  <1>1. scraper[s].pc # "dispatch" /\ OnlyScraper
    BY DEF ListActive, At
  <1>2. CASE active = {}
    BY <1>1, <1>2, AbortKeeps DEF ListActive, Abort
  <1>3. CASE active # {}
    <2>1. PICK q \in SetToSeqs(active) :
            Becomes(s, [Fresh EXCEPT !.pc = "fetch",
                                     !.todo = SubSeq(q, 1, Min({Len(q), ListLimit}))])
      BY <1>3 DEF ListActive
    <2> DEFINE todo == SubSeq(q, 1, Min({Len(q), ListLimit}))
               r    == [Fresh EXCEPT !.pc = "fetch", !.todo = todo]
    <2>2. todo \in Seq(Sources) /\ todo # <<>>
      BY <1>3, ListedFeeds DEF CatalogueInv, TablesOK
    <2> HIDE DEF todo
    <2>3. r \in Records /\ Sound(r, stored)
      <3>1. Unscraped \in FeedStatus
        BY DEF Unscraped, FeedStatus
      <3> QED
        BY <2>2, <3>1 DEF Fresh, Records, Points, Sound
    <2>4. Becomes(s, r)
      BY <2>1 DEF todo
    <2> HIDE DEF r
    <2> QED
      BY <1>1, <2>3, <2>4, InnerStep
  <1> QED
    BY <1>2, <1>3

LEMMA FetchKeeps ==
  ASSUME CatalogueInv, NEW s \in Scrapers, Fetch(s)
  PROVE  CatalogueInv'
  <1>1. scraper[s].pc = "fetch" /\ OnlyScraper
    BY DEF Fetch, At
  <1>2. PICK error \in BOOLEAN, found \in SUBSET Guids :
          Becomes(s, [scraper[s] EXCEPT !.pc = "items", !.error = error,
                                        !.found = found, !.left = found])
    BY DEF Fetch
  <1> DEFINE r == [scraper[s] EXCEPT !.pc = "items", !.error = error,
                                     !.found = found, !.left = found]
  <1>3. scraper[s] \in Records /\ Sound(scraper[s], stored)
    BY DEF CatalogueInv
  <1>4. r \in Records
    BY <1>3 DEF Records, Points
  <1>5. Sound(r, stored)
    BY <1>1, <1>3 DEF Sound, Records
  <1>6. Becomes(s, r)
    BY <1>2
  <1> HIDE DEF r
  <1> QED
    BY <1>1, <1>4, <1>5, <1>6, InnerStep

LEMMA LookKeeps ==
  ASSUME CatalogueInv, NEW s \in Scrapers, NEW g \in Guids, Look(s, g)
  PROVE  CatalogueInv'
  <1>1. scraper[s].pc = "items" /\ g \in scraper[s].left /\ OnlyScraper
    BY DEF Look, At
  <1>2. scraper[s] \in Records /\ Sound(scraper[s], stored)
    BY DEF CatalogueInv
  <1>3. CASE <<Feed(s), g>> \in stored \cup scraper[s].inserts
    <2> DEFINE r == [scraper[s] EXCEPT !.left = @ \ {g}]
    <2>1. r \in Records
      BY <1>2 DEF Records
    <2>2. Sound(r, stored)
      BY <1>1, <1>2, <1>3 DEF Sound, Records, Feed
    <2>3. Becomes(s, r)
      BY <1>3 DEF Look
    <2> HIDE DEF r
    <2> QED
      BY <1>1, <2>1, <2>2, <2>3, InnerStep
  <1>4. CASE ~(<<Feed(s), g>> \in stored \cup scraper[s].inserts)
    <2> DEFINE r == [scraper[s] EXCEPT !.pc = "insert", !.guid = g]
    <2>1. r \in Records
      BY <1>2 DEF Records, Points
    <2>2. Sound(r, stored)
      BY <1>1, <1>2 DEF Sound, Records
    <2>3. Becomes(s, r)
      BY <1>4 DEF Look
    <2> HIDE DEF r
    <2> QED
      BY <1>1, <2>1, <2>2, <2>3, InnerStep
  <1> QED
    BY <1>3, <1>4

LEMMA InsertKeeps ==
  ASSUME CatalogueInv, NEW s \in Scrapers, Insert(s)
  PROVE  CatalogueInv'
  <1> DEFINE r == [scraper[s] EXCEPT !.pc = "items", !.left = @ \ {scraper[s].guid},
                                     !.guid = "none", !.inserts = @ \cup {Entry(s)}]
  <1>1. scraper[s].pc = "insert" /\ OnlyScraper /\ Becomes(s, r)
    BY DEF Insert, At
  <1>2. scraper[s] \in Records /\ Sound(scraper[s], stored)
    BY DEF CatalogueInv
  <1>3. scraper[s].guid \in Guids /\ scraper[s].todo # <<>>
    BY <1>1, <1>2 DEF Sound, Records
  <1>4. Head(scraper[s].todo) \in Sources
    BY <1>2, <1>3 DEF Records
  <1>5. Entry(s) = <<Head(scraper[s].todo), scraper[s].guid>> /\ Entry(s) \in Entries
    BY <1>3, <1>4 DEF Entry, Feed, Entries
  <1>6. r \in Records
    BY <1>2, <1>5 DEF Records, Points
  <1>7. Sound(r, stored)
    BY <1>1, <1>2, <1>5 DEF Sound, Records
  <1> HIDE DEF r
  <1> QED
    BY <1>1, <1>6, <1>7, InnerStep

LEMMA RecordKeeps ==
  ASSUME CatalogueInv, NEW s \in Scrapers, Record(s)
  PROVE  CatalogueInv'
  <1> DEFINE o    == scraper[s]
             f    == Feed(s)
             last == [error |-> o.error, items |-> o.found]
             r    == [o EXCEPT !.pc = IF Len(o.todo) = 1 THEN "commit" ELSE "fetch",
                               !.todo = Tail(@), !.error = FALSE, !.found = {},
                               !.updated = @ \cup {f}, !.updates[f] = last]
  <1>1. o.pc = "items" /\ o.left = {} /\ OnlyScraper /\ Becomes(s, r)
    BY DEF Record, At
  <1>2. o \in Records /\ Sound(o, stored)
    BY DEF CatalogueInv
  <1>3. o.todo \in Seq(Sources) /\ o.todo # <<>> /\ f = Head(o.todo)
    BY <1>1, <1>2 DEF Sound, Records, Feed
  <1>4. f \in Sources /\ Tail(o.todo) \in Seq(Sources)
        /\ (Len(o.todo) # 1 => Tail(o.todo) # <<>>)
    BY <1>3, RestOfTodo
  <1>5. last \in FeedStatus
    BY <1>2 DEF Records, FeedStatus
  <1>6. o.updates \in [Sources -> FeedStatus]
    BY <1>2 DEF Records
  <1>7. \A g \in o.found : <<f, g>> \in stored \cup o.inserts
    BY <1>1, <1>2, <1>3 DEF Sound
  <1> DEFINE u == [o.updates EXCEPT ![f] = last]
  <1>8. /\ u \in [Sources -> FeedStatus]
        /\ u[f].items = o.found
        /\ \A h \in Sources \ {f} : u[h] = o.updates[h]
    BY <1>4, <1>5, <1>6
  <1>9. \A h \in o.updated \cup {f} : \A g \in u[h].items : <<h, g>> \in stored \cup o.inserts
    <2>1. /\ o.updated \subseteq Sources
          /\ \A h \in o.updated : \A g \in o.updates[h].items : <<h, g>> \in stored \cup o.inserts
      BY <1>2 DEF Sound, Records
    <2> HIDE DEF u, f, o
    <2> QED
      BY <1>4, <1>7, <1>8, <2>1
  <1>10. /\ r.pc = (IF Len(o.todo) = 1 THEN "commit" ELSE "fetch")
         /\ r.todo = Tail(o.todo) /\ r.error = FALSE /\ r.found = {} /\ r.left = {}
         /\ r.guid = o.guid /\ r.inserts = o.inserts
         /\ r.updated = o.updated \cup {f} /\ r.updates = u
    BY <1>1, <1>2 DEF Records
  <1>11. r \in Records
    BY <1>2, <1>4, <1>8 DEF Records, Points
  <1> HIDE DEF r, u, last, f
  <1>12. Sound(r, stored)
    BY <1>4, <1>9, <1>10 DEF Sound
  <1>13. o.pc # "dispatch"
    BY <1>1
  <1> QED
    BY <1>1, <1>11, <1>12, <1>13, InnerStep

(* The commit: what the execution has recorded and what it has inserted     *)
(* become visible at once.                                                 *)
LEMMA CommitKeeps ==
  ASSUME CatalogueInv, NEW s \in Scrapers, CommitScrape(s)
  PROVE  CatalogueInv'
  <1> DEFINE o == scraper[s]
             r == [Fresh EXCEPT !.pc = "dispatch", !.inserts = o.inserts]
  <1>1. /\ o.pc = "commit" /\ stored' = stored \cup o.inserts /\ Becomes(s, r)
        /\ active' = active /\ offered' = offered /\ stranded' = stranded
        /\ status' = [f \in Sources |-> IF f \in o.updated THEN o.updates[f] ELSE status[f]]
    BY DEF CommitScrape, Stores, At
  <1>2. o \in Records /\ Sound(o, stored)
    BY DEF CatalogueInv
  <1>3. r \in Records /\ r.pc = "dispatch" /\ r.inserts = o.inserts
    <2>1. Unscraped \in FeedStatus /\ <<>> \in Seq(Sources)
      BY DEF Unscraped, FeedStatus
    <2> QED
      BY <1>2, <2>1 DEF Fresh, Records, Points
  <1>4. Sound(r, stored')
    BY <1>1 DEF Sound, Fresh
  <1>5. TablesOK'
    BY <1>1, <1>2 DEF CatalogueInv, TablesOK, Records
  <1>6. StatusMeansStored'
    BY <1>1, <1>2 DEF CatalogueInv, StatusMeansStored, Sound
  <1> HIDE DEF r
  <1>7. scraper' \in [Scrapers -> Records] /\ scraper'[s] = r
        /\ \A t \in Scrapers \ {s} : scraper'[t] = scraper[t]
    BY <1>1, <1>3 DEF CatalogueInv, Becomes
  <1>8. \A t \in Scrapers : Sound(scraper'[t], stored')
    BY <1>1, <1>4, <1>7, SoundGrows DEF CatalogueInv
  <1>9. NewsIsDispatched'
    BY <1>1, <1>3, <1>7 DEF CatalogueInv, NewsIsDispatched, At
  <1> QED
    BY <1>5, <1>6, <1>7, <1>8, <1>9 DEF CatalogueInv

LEMMA OfferKeeps ==
  ASSUME CatalogueInv, NEW s \in Scrapers, OfferNews(s)
  PROVE  CatalogueInv'
  <1> DEFINE r == [Fresh EXCEPT !.pc = "ended"]
  <1>1. offered' = offered \cup stored /\ Becomes(s, r)
        /\ active' = active /\ stored' = stored /\ status' = status /\ stranded' = stranded
    BY DEF OfferNews
  <1>2. r \in Records /\ Sound(r, stored)
    BY FreshIsSound
  <1> HIDE DEF r
  <1>3. scraper' \in [Scrapers -> Records]
        /\ \A t \in Scrapers : Sound(scraper'[t], stored')
    BY <1>1, <1>2 DEF CatalogueInv, Becomes
  <1>4. TablesOK' /\ StatusMeansStored'
    BY <1>1 DEF CatalogueInv, TablesOK, StatusMeansStored
  <1>5. NewsIsDispatched'
    BY <1>1 DEF NewsIsDispatched
  <1> QED
    BY <1>3, <1>4, <1>5 DEF CatalogueInv

(* The loss of a worker: what it brought to the dispatch is stranded.      *)
LEMMA LossKeeps ==
  ASSUME CatalogueInv, NEW s \in Scrapers, LoseScrape(s)
  PROVE  CatalogueInv'
  <1> DEFINE r == [Fresh EXCEPT !.pc = "ended"]
  <1>1. /\ Becomes(s, r)
        /\ active' = active /\ stored' = stored /\ status' = status /\ offered' = offered
        /\ stranded' = IF scraper[s].pc = "dispatch" THEN stranded \cup scraper[s].inserts
                                                     ELSE stranded
    BY DEF LoseScrape, At
  <1>2. r \in Records /\ Sound(r, stored)
    BY FreshIsSound
  <1> HIDE DEF r
  <1>3. scraper' \in [Scrapers -> Records]
        /\ \A t \in Scrapers : Sound(scraper'[t], stored')
    BY <1>1, <1>2 DEF CatalogueInv, Becomes
  <1>4. scraper[s].pc = "dispatch" => scraper[s].inserts \subseteq stored
    BY DEF CatalogueInv, Sound
  <1>5. TablesOK' /\ StatusMeansStored'
    BY <1>1, <1>4 DEF CatalogueInv, TablesOK, StatusMeansStored
  <1>6. \A t \in Scrapers \ {s} : scraper'[t] = scraper[t]
    BY <1>1 DEF CatalogueInv, Becomes
  <1>7. NewsIsDispatched'
    BY <1>1, <1>6 DEF CatalogueInv, NewsIsDispatched, At
  <1> QED
    BY <1>3, <1>5, <1>7 DEF CatalogueInv

LEMMA CatalogueSteps ==
  CatalogueInv /\ [CatalogueNext]_catalogueVars => CatalogueInv'
  <1> SUFFICES ASSUME CatalogueInv, [CatalogueNext]_catalogueVars
               PROVE  CatalogueInv'
    OBVIOUS
  <1>1. ASSUME NEW f \in Sources, CreateFeed(f) PROVE CatalogueInv'
    BY <1>1 DEF CreateFeed, CatalogueInv, TablesOK, StatusMeansStored, NewsIsDispatched, At
  <1>2. ASSUME NEW s \in Scrapers, ListActive(s) PROVE CatalogueInv'
    BY <1>2, ListActiveKeeps
  <1>3. ASSUME NEW s \in Scrapers, Fetch(s) PROVE CatalogueInv'
    BY <1>3, FetchKeeps
  <1>4. ASSUME NEW s \in Scrapers, NEW g \in Guids, Look(s, g) PROVE CatalogueInv'
    BY <1>4, LookKeeps
  <1>5. ASSUME NEW s \in Scrapers, Insert(s) PROVE CatalogueInv'
    BY <1>5, InsertKeeps
  <1>6. ASSUME NEW s \in Scrapers, Conflict(s) PROVE CatalogueInv'
    <2>1. scraper[s].pc # "dispatch" /\ Abort(s)
      BY <1>6 DEF Conflict, At
    <2> QED
      BY <2>1, AbortKeeps
  <1>7. ASSUME NEW s \in Scrapers, Record(s) PROVE CatalogueInv'
    BY <1>7, RecordKeeps
  <1>8. ASSUME NEW s \in Scrapers, Deadlock(s) PROVE CatalogueInv'
    <2>1. Holders(s) # {} /\ Abort(s)
      BY <1>8 DEF Deadlock
    <2>2. scraper[s].pc # "dispatch"
      BY <2>1 DEF Holders, At
    <2> QED
      BY <2>1, <2>2, AbortKeeps
  <1>9. ASSUME NEW s \in Scrapers, CommitScrape(s) PROVE CatalogueInv'
    BY <1>9, CommitKeeps
  <1>10. ASSUME NEW s \in Scrapers, OfferNews(s) PROVE CatalogueInv'
    BY <1>10, OfferKeeps
  <1>11. ASSUME NEW s \in Scrapers, LoseScrape(s) PROVE CatalogueInv'
    BY <1>11, LossKeeps
  <1>12. CASE UNCHANGED catalogueVars
    BY <1>12 DEF catalogueVars, CatalogueInv, TablesOK, StatusMeansStored, NewsIsDispatched, At
  <1> QED
    BY <1>1, <1>2, <1>3, <1>4, <1>5, <1>6, <1>7, <1>8, <1>9, <1>10, <1>11, <1>12
    DEF CatalogueNext
-----------------------------------------------------------------------------
(* The tables and the executions keep their types.                         *)
THEOREM CatalogueTypesHold == CatalogueSpec => []CatalogueTypeOK
  <1>1. CatalogueInit => CatalogueInv
    BY CatalogueStarts
  <1>2. CatalogueInv /\ [CatalogueNext]_catalogueVars => CatalogueInv'
    BY CatalogueSteps
  <1>3. CatalogueInv => CatalogueTypeOK
    BY DEF CatalogueInv, TablesOK, CatalogueTypeOK, Records, Points, Sound
  <1> QED
    BY <1>1, <1>2, <1>3, PTL DEF CatalogueSpec

(* A recorded scrape has its items stored, whichever scrapes have failed.  *)
THEOREM StatusIsTrue == CatalogueSpec => []StatusMeansStored
  <1>1. CatalogueInit => CatalogueInv
    BY CatalogueStarts
  <1>2. CatalogueInv /\ [CatalogueNext]_catalogueVars => CatalogueInv'
    BY CatalogueSteps
  <1>3. CatalogueInv => StatusMeansStored
    BY DEF CatalogueInv
  <1> QED
    BY <1>1, <1>2, <1>3, PTL DEF CatalogueSpec

(* A stored item has met a dispatch or goes to one, unless its scrape has   *)
(* been lost between its two transactions.                                 *)
THEOREM EveryItemIsDispatched == CatalogueSpec => []NewsIsDispatched
  <1>1. CatalogueInit => CatalogueInv
    BY CatalogueStarts
  <1>2. CatalogueInv /\ [CatalogueNext]_catalogueVars => CatalogueInv'
    BY CatalogueSteps
  <1>3. CatalogueInv => NewsIsDispatched
    BY DEF CatalogueInv
  <1> QED
    BY <1>1, <1>2, <1>3, PTL DEF CatalogueSpec
-----------------------------------------------------------------------------
(***************************************************************************)
(*                               RateLimit                                 *)
(***************************************************************************)
(* What the limit is about: the hits of the window, stored or on their way. *)
Counted == {h \in hits : Live(h)} \cup In("add")

(* As many are open as the API handles, and a hit is no longer on its way. *)
LimiterInv ==
  /\ LimiterTypeOK
  /\ Cardinality(Open) <= Concurrent
  /\ \A h \in hits : step[h] \in {"expire", "passed", "lost"}
  /\ OvershootBounded

LimiterPoints == {"new", "count", "add", "expire", "passed", "denied", "lost"}
-----------------------------------------------------------------------------
(* Sets of requests.                                                       *)

(* They are finite, and a part of one has no more elements.                *)
LEMMA Sizes ==
  ASSUME NEW S \in SUBSET Requests, NEW T \in SUBSET S
  PROVE  /\ IsFiniteSet(S) /\ Cardinality(S) \in Nat
         /\ IsFiniteSet(T) /\ Cardinality(T) \in Nat
         /\ Cardinality(T) <= Cardinality(S)
  <1>1. IsFiniteSet(S)
    BY FS_Subset, LimiterAssumption
  <1>2. IsFiniteSet(T) /\ Cardinality(T) <= Cardinality(S)
    BY <1>1, FS_Subset
  <1> QED
    BY <1>1, <1>2, FS_CardinalityType

(* A union has at most as many elements as its parts together.             *)
LEMMA UnionSize ==
  ASSUME NEW S \in SUBSET Requests, NEW T \in SUBSET Requests
  PROVE  Cardinality(S \cup T) <= Cardinality(S) + Cardinality(T)
  <1>1. IsFiniteSet(S) /\ IsFiniteSet(T) /\ Cardinality(S) \in Nat /\ Cardinality(T) \in Nat
    BY Sizes
  <1>2. Cardinality(S \cup T) = Cardinality(S) + Cardinality(T) - Cardinality(S \cap T)
    BY <1>1, FS_Union
  <1>3. Cardinality(S \cap T) \in Nat
    BY Sizes, S \cap T \in SUBSET S
  <1> QED
    BY <1>1, <1>2, <1>3

(* Every policy has a number of calls.                                     *)
LEMMA PolicyHasCalls ==
  ASSUME NEW method, NEW path
  PROVE  Calls[Policy(method, path)] \in Nat \ {0}
  BY LimiterAssumption DEF Policy
-----------------------------------------------------------------------------
(* The parts of the invariant.                                             *)

(* Fewer hits are as well within the bound.                                *)
LEMMA FewerCounted ==
  ASSUME LimiterInv, limit' = limit, Counted' \in SUBSET Counted
  PROVE  OvershootBounded'
  <1>1. Counted \in SUBSET Requests
    BY DEF LimiterInv, LimiterTypeOK, Counted, In
  <1>2. Cardinality(Counted) \in Nat /\ Cardinality(Counted') \in Nat
        /\ Cardinality(Counted') <= Cardinality(Counted)
    BY <1>1, Sizes
  <1>3. Cardinality(Counted) < limit + Concurrent
    BY DEF LimiterInv, OvershootBounded, Counted
  <1>4. limit \in Nat /\ Concurrent \in Nat
    BY LimiterAssumption DEF LimiterInv, LimiterTypeOK
  <1>5. Cardinality(Counted') < limit' + Concurrent
    BY <1>2, <1>3, <1>4
  <1> QED
    BY <1>5 DEF OvershootBounded, Counted

(* No more requests are open.                                              *)
LEMMA FewerOpen ==
  ASSUME LimiterInv, Open' \in SUBSET Open
  PROVE  Cardinality(Open') <= Concurrent
  <1>1. Open \in SUBSET Requests
    BY DEF Open, In
  <1>2. Cardinality(Open) \in Nat /\ Cardinality(Open') \in Nat
        /\ Cardinality(Open') <= Cardinality(Open)
    BY <1>1, Sizes
  <1> QED
    BY <1>2, LimiterAssumption DEF LimiterInv

LEMMA LimiterStarts == LimiterInit => LimiterInv
  <1> SUFFICES ASSUME LimiterInit PROVE LimiterInv
    OBVIOUS
  <1>1. limit \in Nat \ {0}
    BY PolicyHasCalls DEF LimiterInit
  <1>2. Never \in Nat
    BY LimiterAssumption DEF Never, GraceTicks
  <1>3. LimiterTypeOK
    BY <1>1, <1>2 DEF LimiterInit, LimiterTypeOK
  <1>4. Open = {} /\ Counted = {}
    BY DEF LimiterInit, Open, Counted, In
  <1>5. Cardinality({}) = 0
    BY FS_EmptySet
  <1>6. Cardinality(Open) = 0 /\ Cardinality(Counted) = 0
    BY <1>4, <1>5
  <1>7. 0 < limit + Concurrent /\ 0 <= Concurrent
    BY <1>1, LimiterAssumption
  <1>8. OvershootBounded /\ Cardinality(Open) <= Concurrent
    BY <1>6, <1>7 DEF OvershootBounded, Counted
  <1> QED
    BY <1>3, <1>8 DEF LimiterInv, LimiterInit

(* Every step keeps them.                                                  *)
LEMMA LimiterSteps ==
  LimiterInv /\ [LimiterNext]_limiterVars => LimiterInv'
  <1> SUFFICES ASSUME LimiterInv, [LimiterNext]_limiterVars PROVE LimiterInv'
    OBVIOUS
  <1> USE DEF StepGoes
  <1>t. /\ limit \in Nat \ {0} /\ instant \in Nat /\ expiry \in Nat
        /\ score \in [Requests -> Nat] /\ step \in [Requests -> LimiterPoints]
        /\ hits \subseteq Requests
        /\ \A h \in hits : step[h] \in {"expire", "passed", "lost"}
    BY DEF LimiterInv, LimiterTypeOK, LimiterPoints
  <1>n. Never \in Nat /\ Window \in Nat /\ GraceTicks \in Nat /\ Concurrent \in Nat \ {0}
    BY LimiterAssumption DEF Never, GraceTicks
  <1>1. ASSUME NEW r \in Requests, Arrive(r) PROVE LimiterInv'
    <2>1. LimiterTypeOK'
      BY <1>1, <1>t DEF Arrive, LimiterTypeOK, LimiterPoints
    <2>2. Open' = Open \cup {r} /\ Open \in SUBSET Requests
      BY <1>1, <1>t DEF Arrive, Open, In
    <2>3. Cardinality(Open') <= Cardinality(Open) + 1 /\ Cardinality(Open) \in Nat
      BY <2>2, Sizes, FS_AddElement
    <2>4. Cardinality(Open') <= Concurrent
      <3>1. Cardinality(Open') \in Nat
        BY <2>2, Sizes
      <3> QED
        BY <1>1, <1>n, <2>3, <3>1 DEF Arrive
    <2>5. \A h \in hits' : step'[h] \in {"expire", "passed", "lost"}
      BY <1>1, <1>t DEF Arrive
    <2>6. Counted' \in SUBSET Counted
      <3>1. \A h \in hits : h # r
        BY <1>1, <1>t DEF Arrive
      <3> QED
        BY <1>1, <1>t, <3>1 DEF Arrive, Counted, In, Live
    <2> QED
      BY <1>1, <2>1, <2>4, <2>5, <2>6, FewerCounted DEF LimiterInv, Arrive
  <1>2. ASSUME NEW r \in Requests, Count(r) PROVE LimiterInv'
    <2> DEFINE kept == {h \in hits : score[h] > score[r] - Window}
    <2>1. hits' = kept /\ limit' = limit /\ score' = score /\ instant' = instant
      BY <1>2 DEF Count
    <2>2. LimiterTypeOK'
      BY <1>2, <1>t, <1>n DEF Count, LimiterTypeOK, LimiterPoints
    <2>3. Open' \in SUBSET Open
      BY <1>2, <1>t DEF Count, Open, In
    <2>4. \A h \in hits' : step'[h] \in {"expire", "passed", "lost"}
      BY <1>2, <1>t DEF Count
    <2>5. OvershootBounded'
      <3>1. CASE AtLimit(kept)
        <4>1. Counted' \in SUBSET Counted
          BY <1>2, <1>t, <2>1, <3>1 DEF Count, Counted, In, Live
        <4> QED
          BY <2>1, <4>1, FewerCounted
      <3>2. CASE ~AtLimit(kept)
        <4>1. Counted' \in SUBSET (kept \cup In("add")')
          BY <2>1 DEF Counted
        <4>2. kept \in SUBSET Requests /\ In("add")' \in SUBSET Open'
              /\ Open' \in SUBSET Requests
          BY <1>t DEF In, Open
        <4>3. Cardinality(In("add")') <= Cardinality(Open')
          BY <4>2, Sizes
        <4>4. Cardinality(Open') <= Concurrent
          BY <2>3, FewerOpen
        <4>5. Cardinality(Counted') <= Cardinality(kept \cup In("add")')
          BY <4>1, <4>2, Sizes
        <4>6. Cardinality(kept \cup In("add")') <= Cardinality(kept) + Cardinality(In("add")')
          BY <4>2, UnionSize
        <4>7. Cardinality(kept) < limit
          <5>1. Cardinality(kept) \in Nat
            BY <4>2, Sizes
          <5> QED
            BY <3>2, <1>t, <5>1 DEF AtLimit
        <4>8. /\ Cardinality(kept) \in Nat /\ Cardinality(Counted') \in Nat
              /\ Cardinality(In("add")') \in Nat /\ Cardinality(Open') \in Nat
              /\ Cardinality(kept \cup In("add")') \in Nat
          <5>1. In("add")' \in SUBSET Requests /\ kept \cup In("add")' \in SUBSET Requests
            BY <4>2
          <5>2. Counted' \in SUBSET Requests
            BY <4>1, <5>1
          <5> QED
            BY <4>2, <5>1, <5>2, Sizes
        <4>9. Cardinality(Counted') < limit' + Concurrent
          BY <2>1, <1>t, <1>n, <4>3, <4>4, <4>5, <4>6, <4>7, <4>8
        <4> QED
          BY <4>9 DEF OvershootBounded, Counted
      <3> QED
        BY <3>1, <3>2
    <2> QED
      BY <2>2, <2>3, <2>4, <2>5, FewerOpen DEF LimiterInv
  <1>3. ASSUME NEW r \in Requests, AddHit(r) PROVE LimiterInv'
    <2>1. LimiterTypeOK'
      BY <1>3, <1>t DEF AddHit, LimiterTypeOK, LimiterPoints
    <2>2. Open' \in SUBSET Open
      BY <1>3, <1>t DEF AddHit, Open, In
    <2>3. \A h \in hits' : step'[h] \in {"expire", "passed", "lost"}
      BY <1>3, <1>t DEF AddHit
    <2>4. Counted' \in SUBSET Counted
      BY <1>3, <1>t DEF AddHit, Counted, In, Live
    <2> QED
      BY <1>3, <2>1, <2>2, <2>3, <2>4, FewerCounted, FewerOpen DEF LimiterInv, AddHit
  <1>4. ASSUME NEW r \in Requests, Expire(r) PROVE LimiterInv'
    <2>1. LimiterTypeOK'
      BY <1>4, <1>t, <1>n DEF Expire, LimiterTypeOK, LimiterPoints
    <2>2. Open' \in SUBSET Open
      BY <1>4, <1>t DEF Expire, Open, In
    <2>3. \A h \in hits' : step'[h] \in {"expire", "passed", "lost"}
      BY <1>4, <1>t DEF Expire
    <2>4. Counted' \in SUBSET Counted
      BY <1>4, <1>t DEF Expire, Counted, In, Live
    <2> QED
      BY <1>4, <2>1, <2>2, <2>3, <2>4, FewerCounted, FewerOpen DEF LimiterInv, Expire
  <1>5. ASSUME NEW r \in Requests, FailOpen(r) \/ LoseWorker(r) PROVE LimiterInv'
    <2>0. /\ r \in Open
          /\ \/ hits' = hits
             \/ hits' = hits \cup {r} /\ r \in In("add")
          /\ \E s \in {"passed", "lost"} : step' = [step EXCEPT ![r] = s]
          /\ UNCHANGED <<limit, instant, score, expiry>>
      BY <1>5 DEF FailOpen, LoseWorker
    <2>1. LimiterTypeOK'
      BY <2>0, <1>t DEF LimiterTypeOK, LimiterPoints
    <2>2. Open' \in SUBSET Open
      BY <2>0, <1>t DEF Open, In
    <2>3. \A h \in hits' : step'[h] \in {"expire", "passed", "lost"}
      BY <2>0, <1>t
    <2>4. Counted' \in SUBSET Counted
      BY <2>0, <1>t DEF Counted, In, Live
    <2> QED
      BY <2>0, <2>1, <2>2, <2>3, <2>4, FewerCounted, FewerOpen DEF LimiterInv
  <1>6. CASE DropKey
    <2>1. LimiterTypeOK'
      BY <1>6, <1>t, <1>n DEF DropKey, LimiterTypeOK, LimiterPoints
    <2>2. Open' \in SUBSET Open /\ Counted' \in SUBSET Counted /\ hits' = {}
      BY <1>6 DEF DropKey, Open, Counted, In, Live
    <2> QED
      BY <1>6, <2>1, <2>2, FewerCounted, FewerOpen DEF LimiterInv, DropKey
  <1>7. CASE Pass
    <2>1. LimiterTypeOK'
      BY <1>7, <1>t DEF Pass, LimiterTypeOK, LimiterPoints
    <2>2. Open' \in SUBSET Open
      BY <1>7 DEF Pass, Open, In
    <2>3. \A h \in hits : Live(h)' => Live(h)
      BY <1>7, <1>t, <1>n DEF Pass, Live
    <2>4. Counted' \in SUBSET Counted
      BY <1>7, <2>3 DEF Pass, Counted, In
    <2> QED
      BY <1>7, <1>t, <2>1, <2>2, <2>4, FewerCounted, FewerOpen DEF LimiterInv, Pass
  <1>8. CASE UNCHANGED limiterVars
    BY <1>8 DEF LimiterInv, LimiterTypeOK, OvershootBounded, Open, In, Live, limiterVars
  <1> QED
    BY <1>1, <1>2, <1>3, <1>4, <1>5, <1>6, <1>7, <1>8 DEF LimiterNext
-----------------------------------------------------------------------------
(* The limiter's variables keep their types, and a hit stays one of a      *)
(* request that was let through.                                           *)
THEOREM LimiterTypesHold == LimiterSpec => []LimiterTypeOK
  <1>1. LimiterInit => LimiterInv
    BY LimiterStarts
  <1>2. LimiterInv /\ [LimiterNext]_limiterVars => LimiterInv'
    BY LimiterSteps
  <1>3. LimiterInv => LimiterTypeOK
    BY DEF LimiterInv
  <1> QED
    BY <1>1, <1>2, <1>3, PTL DEF LimiterSpec

(* However requests interleave and fail, a window holds fewer hits than the *)
(* limit and the requests handled at a time together.                      *)
THEOREM OvershootIsBounded == LimiterSpec => []OvershootBounded
  <1>1. LimiterInit => LimiterInv
    BY LimiterStarts
  <1>2. LimiterInv /\ [LimiterNext]_limiterVars => LimiterInv'
    BY LimiterSteps
  <1>3. LimiterInv => OvershootBounded
    BY DEF LimiterInv
  <1> QED
    BY <1>1, <1>2, <1>3, PTL DEF LimiterSpec

(***************************************************************************)
(*                               Ownership                                 *)
(***************************************************************************)
(* The steps of a request, and what it is made of.                         *)
Stages == {"new", "nothing", "profile", "rows", "channel", "video", "write", "look",
           "insert", "answer", "done"}

RequestType == [pc : Stages, user : People \cup {"none"}, op : Ops \cup {"none"},
                id : ChannelIds \cup {"none"}, name : Names \cup {"none"},
                feeds : SUBSET FeedIds, todo : SUBSET FeedIds,
                loaded : Names \cup {"none"}, answer : Nat, list : SUBSET ChannelIds]

ChannelType == [owner : People \cup {"none"}, name : Names \cup {"none"}, deleted : BOOLEAN]

(* The operations whose effect on the rows a success promises.             *)
Writers == {"update_channel", "delete_channel", "connect_platform", "grant_channel_feeds",
            "revoke_channel_feed", "schedule_video", "trigger_pipeline"}

(* A request that was answered with success.                               *)
Answered(t) == t.pc = "done" /\ t.answer = RouteOf[t.op].ok

(* A request that has begun asks for one of the operations, with what it   *)
(* may be asked with.                                                      *)
Asks(t) == /\ t.user \in People /\ t.op \in Ops /\ t.id \in ChannelIds
           /\ t.op = "create_channel" => t.name \in Names

(* The step it is at is one of its operation.                              *)
Staged(t) ==
  /\ t.pc \in {"nothing", "profile", "channel", "video"} => RouteOf[t.op].owns = t.pc
  /\ t.pc = "rows" => RouteOf[t.op].owns \in {"rows", "profile"}
  /\ t.pc = "write" => t.op = "create_channel" \/ RouteOf[t.op].owns = "channel"
  /\ t.pc \in {"look", "insert"} => t.op \in {"connect_platform", "grant_channel_feeds"}
  /\ t.pc = "answer" => t.op \notin Writers /\ RouteOf[t.op].owns = "channel"

(* It may do what it asks for,                                             *)
Permitted(t) == t.pc \notin {"new", "done"} \/ Answered(t) =>
                  RouteOf[t.op].needs \in Holds[t.user]

(* with a channel that is its user's, once that was looked up.             *)
Holding(t) == \/ t.pc \in {"write", "look", "insert", "answer"}
                 /\ RouteOf[t.op].owns = "channel"
              \/ Answered(t) /\ RouteOf[t.op].owns \in {"channel", "video"}
Held(t) == Holding(t) => channel[t.id].owner = t.user

Lists(t) == /\ t.pc # "done" => t.list = {}
            /\ \A c \in t.list : channel[c].owner = t.user

(* The name it has loaded is the row's, and the feeds it has nothing more  *)
(* to do for are granted, unless another has written the same.             *)
Remembers(r, t) ==
  t.pc # "done" /\ t.op = "update_channel" /\ t.loaded # "none" =>
    /\ channel[t.id].owner = t.user
    /\ t.loaded = channel[t.id].name \/ r \in undone

Granting(r, t) ==
  t.pc = "insert" /\ t.op = "grant_channel_feeds" =>
    /\ t.todo \subseteq t.feeds
    /\ \A f \in t.feeds \ t.todo : <<t.id, f>> \in grants \/ r \in undone

(* What has been answered is done, and lasts.                              *)
Done(r, t) ==
  /\ t.op = "update_channel" => t.name \in {"none", channel[t.id].name}
  /\ t.op = "delete_channel" => channel[t.id].deleted
  /\ t.op = "connect_platform" => config[t.id] = r
  /\ t.op = "grant_channel_feeds" => \A f \in t.feeds : <<t.id, f>> \in grants
  /\ t.op = "revoke_channel_feed" => \A f \in t.feeds : <<t.id, f>> \notin grants
  /\ t.op \in {"schedule_video", "trigger_pipeline"} => <<t.id, r>> \in made
Lasts(r, t) == Answered(t) => Done(r, t) \/ r \in undone

Good(r, t) ==
  /\ t.pc = "new" => t = NewReq
  /\ t.pc # "new" => Asks(t)
  /\ Staged(t) /\ Permitted(t) /\ Held(t) /\ Lists(t)
  /\ Remembers(r, t) /\ Granting(r, t) /\ Lasts(r, t)

TablesTyped ==
  /\ channel \in [ChannelIds -> ChannelType]
  /\ grants \subseteq ChannelIds \X FeedIds
  /\ config \in [ChannelIds -> Clients \cup {"none"}]
  /\ made \subseteq ChannelIds \X Clients
  /\ undone \subseteq Clients
  /\ \A c \in ChannelIds :
       channel[c] = NoChannel => /\ config[c] = "none"
                                 /\ \A f \in FeedIds : <<c, f>> \notin grants

OwnershipInv ==
  /\ TablesTyped
  /\ req \in [Clients -> RequestType]
  /\ \A r \in Clients : Good(r, req[r])
-----------------------------------------------------------------------------
(* The routes as the requests need them: a writer needs a channel of its   *)
(* user, and no success has the status of a refusal.                       *)
LEMMA RoutesAsNeeded ==
  \A op \in DOMAIN RouteOf :
    /\ RouteOf[op].owns \in {"nothing", "profile", "rows", "channel", "video"}
    /\ RouteOf[op].ok \in {200, 201, 202, 204}
    /\ op \in Writers => RouteOf[op].owns = "channel"
    /\ op = "create_channel" => RouteOf[op].owns = "profile"
  <1> DEFINE P(op, t) == /\ t.owns \in {"nothing", "profile", "rows", "channel", "video"}
                         /\ t.ok \in {200, 201, 202, 204}
                         /\ op \in Writers => t.owns = "channel"
                         /\ op = "create_channel" => t.owns = "profile"
  <1>1. \A op \in DOMAIN UserRoutes : P(op, UserRoutes[op])
    BY DEF UserRoutes, Route, Writers
  <1>2. \A op \in DOMAIN ChannelRoutes : P(op, ChannelRoutes[op])
    BY DEF ChannelRoutes, Route, Writers
  <1>3. \A op \in DOMAIN PlatformRoutes : P(op, PlatformRoutes[op])
    BY DEF PlatformRoutes, Route, Writers
  <1>4. \A op \in DOMAIN VideoRoutes : P(op, VideoRoutes[op])
    BY DEF VideoRoutes, Route, Writers
  <1>5. \A op \in DOMAIN RssRoutes : P(op, RssRoutes[op])
    BY DEF RssRoutes, Route, Writers
  <1>6. \A op \in DOMAIN PipelineRoutes : P(op, PipelineRoutes[op])
    BY DEF PipelineRoutes, Route, Writers
  <1>7. \A op \in DOMAIN RetryRoutes : P(op, RetryRoutes[op])
    BY DEF RetryRoutes, Route, Writers
  <1> HIDE DEF P
  <1>8. \A op \in DOMAIN RouteOf : P(op, RouteOf[op])
    BY <1>1, <1>2, <1>3, <1>4, <1>5, <1>6, <1>7 DEF RouteOf
  <1> QED
    BY <1>8 DEF P

(* What a step of another request leaves of one: owners stay, a deleted    *)
(* channel stays deleted, and what the request has written stays, or the   *)
(* request is counted as undone.                                           *)
Undisturbed(r, t) ==
  /\ \A c \in ChannelIds : channel[c].owner \in People =>
       channel'[c].owner = channel[c].owner /\ (channel[c].deleted => channel'[c].deleted)
  /\ undone \subseteq undone' /\ made \subseteq made'
  /\ t.pc # "new" /\ r \notin undone' =>
       /\ t.op = "update_channel" /\ channel[t.id].owner \in People =>
            channel'[t.id].name = channel[t.id].name
       /\ t.op = "connect_platform" => config'[t.id] = config[t.id]
       /\ t.op = "grant_channel_feeds" =>
            \A f \in t.feeds : <<t.id, f>> \in grants => <<t.id, f>> \in grants'
       /\ t.op = "revoke_channel_feed" =>
            \A f \in t.feeds : <<t.id, f>> \in grants' => <<t.id, f>> \in grants

LEMMA GoodStays ==
  ASSUME NEW r \in Clients, NEW t \in RequestType, Good(r, t), Undisturbed(r, t)
  PROVE  Good(r, t)'
  <1>1. CASE t.pc = "new"
    BY <1>1 DEF Good, NewReq, Staged, Permitted, Held, Holding, Answered, Lists, Remembers,
                Granting, Lasts
  <1>2. CASE t.pc # "new"
    <2>1. Asks(t) /\ t.user \in People /\ t.id \in ChannelIds /\ t.op \in DOMAIN RouteOf
      BY <1>2, OwnershipAssumption DEF Good, Asks
    <2>2. Held(t)'
      BY <2>1 DEF Good, Held, Undisturbed, Holding, Answered
    <2>3. Lists(t)'
      BY <2>1 DEF Good, Lists, Undisturbed, RequestType
    <2>4. Remembers(r, t)'
      BY <1>2, <2>1 DEF Good, Remembers, Undisturbed
    <2>5. Granting(r, t)'
      BY <1>2, <2>1 DEF Good, Granting, Undisturbed
    <2>6. ASSUME Answered(t), r \notin undone' PROVE Done(r, t)'
      <3>1. t.op \in Writers => channel[t.id].owner \in People
        BY <2>1, <2>6, RoutesAsNeeded DEF Good, Held, Holding
      <3>2. Done(r, t)
        BY <2>6 DEF Good, Lasts, Undisturbed
      <3> QED
        BY <1>2, <2>1, <2>6, <3>1, <3>2 DEF Done, Undisturbed, Writers
    <2> QED
      BY <1>2, <2>1, <2>2, <2>3, <2>4, <2>5, <2>6 DEF Good, Asks, Staged, Permitted, Answered, Lasts
  <1> QED
    BY <1>1, <1>2

(* A step of r.                                                            *)
LEMMA RequestStep ==
  ASSUME OwnershipInv, NEW r \in Clients, NEW t \in RequestType,
         req' = [req EXCEPT ![r] = t],
         TablesTyped', Good(r, t)',
         \A q \in Clients \ {r} : Undisturbed(q, req[q])
  PROVE  OwnershipInv'
  <1>1. req' \in [Clients -> RequestType] /\ req'[r] = t
        /\ \A q \in Clients \ {r} : req'[q] = req[q]
    BY DEF OwnershipInv
  <1>2. ASSUME NEW q \in Clients \ {r} PROVE Good(q, req[q])'
    <2>1. PICK s \in RequestType : s = req[q]
      BY DEF OwnershipInv
    <2>2. Good(q, s) /\ Undisturbed(q, s)
      BY <2>1 DEF OwnershipInv
    <2>3. Good(q, s)'
      BY <2>2, GoodStays
    <2>4. req[q]' = s
      BY <1>1, <2>1
    <2> QED
      BY <2>3, <2>4 DEF Good
  <1>3. Good(r, req[r])'
    BY <1>1 DEF Good
  <1> QED
    BY <1>1, <1>2, <1>3 DEF OwnershipInv

(* A step of r that leaves the rows as they are.                           *)
LEMMA QuietStep ==
  ASSUME OwnershipInv, NEW r \in Clients, NEW t \in RequestType,
         req' = [req EXCEPT ![r] = t], UNCHANGED <<tables, undone>>, Good(r, t)
  PROVE  OwnershipInv'
  <1>1. TablesTyped' /\ Good(r, t)'
    BY DEF OwnershipInv, TablesTyped, tables, Good, Held, Lists, Remembers, Granting, Lasts, Done
  <1>2. \A q \in Clients \ {r} : Undisturbed(q, req[q])
    BY DEF Undisturbed, tables
  <1> QED
    BY <1>1, <1>2, RequestStep
-----------------------------------------------------------------------------
(* The steps that change a request only.                                   *)

(* A request whose fields change within their types.                       *)
LEMMA FieldsTyped ==
  ASSUME NEW t \in RequestType
  PROVE  /\ \A x \in Stages : [t EXCEPT !.pc = x] \in RequestType
         /\ \A x \in People : [t EXCEPT !.user = x] \in RequestType
         /\ \A x \in Ops : [t EXCEPT !.op = x] \in RequestType
         /\ \A x \in ChannelIds : [t EXCEPT !.id = x] \in RequestType
         /\ \A x \in Names \cup {"none"} : [t EXCEPT !.name = x] \in RequestType
         /\ \A x \in Names \cup {"none"} : [t EXCEPT !.loaded = x] \in RequestType
         /\ \A x \in SUBSET FeedIds : [t EXCEPT !.feeds = x] \in RequestType
         /\ \A x \in SUBSET FeedIds : [t EXCEPT !.todo = x] \in RequestType
         /\ \A x \in Nat : [t EXCEPT !.answer = x] \in RequestType
         /\ \A x \in SUBSET ChannelIds : [t EXCEPT !.list = x] \in RequestType
  BY DEF RequestType

LEMMA AuthorizeKeeps ==
  ASSUME OwnershipInv, NEW r \in Clients, NEW u \in People, NEW op \in Ops,
         NEW c \in ChannelIds, NEW name \in NamesFor(op), NEW given \in FeedsFor(op),
         Authorize(r, u, op, c, name, given)
  PROVE  OwnershipInv'
  <1>1. PICK p, n, l :
          /\ p = IF RouteOf[op].needs \in Holds[u] THEN RouteOf[op].owns ELSE "done"
          /\ n = IF RouteOf[op].needs \in Holds[u] THEN 0 ELSE 403
          /\ l = IF channel[c].owner = u THEN channel[c].name ELSE "none"
    OBVIOUS
  <1>2. PICK t : t = [req[r] EXCEPT !.user = u, !.op = op, !.id = c, !.name = name,
                                    !.feeds = given, !.loaded = l, !.pc = p, !.answer = n]
    OBVIOUS
  <1>t. req[r] \in RequestType /\ req[r].todo = {} /\ req[r].list = {}
    BY DEF OwnershipInv, Good, Authorize, Is, NewReq
  <1>3. op \in DOMAIN RouteOf /\ u # "none"
    BY OwnershipAssumption
  <1>4. \/ p = "done" /\ n = 403
        \/ p = RouteOf[op].owns /\ n = 0 /\ RouteOf[op].needs \in Holds[u]
    BY <1>1
  <1>f. /\ t.user = u /\ t.op = op /\ t.id = c /\ t.name = name /\ t.feeds = given
        /\ t.loaded = l /\ t.pc = p /\ t.answer = n /\ t.todo = {} /\ t.list = {}
    BY <1>2, <1>t DEF RequestType
  <1>5. name \in Names \cup {"none"} /\ (op = "create_channel" => name \in Names)
    BY DEF NamesFor
  <1>6. given \in SUBSET FeedIds
    BY DEF FeedsFor
  <1>7. l \in Names \cup {"none"} /\ (l # "none" => channel[c].owner = u /\ l = channel[c].name)
    BY <1>1 DEF OwnershipInv, TablesTyped, ChannelType
  <1>8. t \in RequestType
    <2>1. RouteOf[op].owns \in Stages /\ "done" \in Stages
      BY <1>3, RoutesAsNeeded DEF Stages
    <2>2. p \in Stages /\ n \in Nat
      BY <1>4, <2>1
    <2> QED
      BY <1>2, <1>t, <1>5, <1>6, <1>7, <2>2, FieldsTyped
  <1>9. Good(r, t)
    <2>1. RouteOf[op].owns \in {"nothing", "profile", "rows", "channel", "video"}
          /\ RouteOf[op].ok # 403
      BY <1>3, RoutesAsNeeded
    <2>2. p \in {"nothing", "profile", "rows", "channel", "video", "done"}
      BY <1>4, <2>1
    <2>3. ~Answered(t)
      BY <1>f, <1>4, <2>1 DEF Answered
    <2>4. Asks(t) /\ Staged(t) /\ Permitted(t)
      BY <1>f, <1>4, <1>5, <2>1, <2>2, <2>3 DEF Asks, Staged, Permitted
    <2>5. Held(t) /\ Lists(t) /\ Granting(r, t) /\ Lasts(r, t)
      BY <1>f, <2>2, <2>3 DEF Held, Holding, Lists, Granting, Lasts
    <2>6. Remembers(r, t)
      BY <1>f, <1>7 DEF Remembers
    <2> QED
      BY <1>f, <2>2, <2>4, <2>5, <2>6 DEF Good
  <1>10. req' = [req EXCEPT ![r] = t] /\ UNCHANGED <<tables, undone>>
    BY <1>1, <1>2 DEF Authorize
  <1> QED
    BY <1>8, <1>9, <1>10, QuietStep

(* A request that is refused promises nothing.                             *)
LEMMA RefusedKeeps ==
  ASSUME OwnershipInv, NEW r \in Clients, req[r].pc # "new",
         NEW n \in Nat, n \notin {200, 201, 202, 204}, Refuse(r, n)
  PROVE  OwnershipInv'
  <1>1. PICK t : t = [req[r] EXCEPT !.pc = "done", !.answer = n]
    OBVIOUS
  <1>2. req[r] \in RequestType /\ Good(r, req[r]) /\ Asks(req[r])
    BY DEF OwnershipInv, Good
  <1>3. t \in RequestType
    <2>1. "done" \in Stages /\ n \in Nat
      BY DEF Stages
    <2> QED
      BY <1>1, <1>2, <2>1 DEF RequestType
  <1>4. /\ t.user = req[r].user /\ t.op = req[r].op /\ t.id = req[r].id
        /\ t.name = req[r].name /\ t.loaded = req[r].loaded /\ t.list = req[r].list
        /\ t.pc = "done" /\ t.answer = n
    BY <1>1, <1>2 DEF RequestType
  <1>5. ~Answered(t)
    BY <1>2, <1>4, RoutesAsNeeded, OwnershipAssumption DEF Answered, Asks
  <1>6. Good(r, t)
    BY <1>2, <1>4, <1>5 DEF Good, Asks, Staged, Permitted, Held, Holding, Lists, Remembers,
                            Granting, Lasts
  <1>7. req' = [req EXCEPT ![r] = t] /\ UNCHANGED <<tables, undone>>
    BY <1>1 DEF Refuse, Answer
  <1> QED
    BY <1>3, <1>6, <1>7, QuietStep

(* One that goes on keeps what it has.                                     *)
LEMMA ProfileKeeps ==
  ASSUME OwnershipInv, NEW r \in Clients, Profile(r)
  PROVE  OwnershipInv'
  <1>1. CASE req[r].user \notin HasProfile
    BY <1>1, RefusedKeeps DEF Profile, Is
  <1>2. CASE req[r].user \in HasProfile
    <2>1. PICK t : t = [req[r] EXCEPT !.pc = IF Op(r) = "create_channel" THEN "write" ELSE "rows"]
      OBVIOUS
    <2>2. req[r] \in RequestType /\ Good(r, req[r]) /\ req[r].pc = "profile"
      BY DEF OwnershipInv, Profile, Is
    <2>3. t \in RequestType
      BY <2>1, <2>2 DEF RequestType, Stages
    <2>4. /\ t.user = req[r].user /\ t.op = req[r].op /\ t.id = req[r].id
          /\ t.name = req[r].name /\ t.loaded = req[r].loaded /\ t.list = req[r].list
          /\ t.pc = IF t.op = "create_channel" THEN "write" ELSE "rows"
      BY <2>1, <2>2 DEF RequestType, Op
    <2>5. RouteOf[t.op].owns = "profile" /\ ~Answered(t) /\ t.pc # "new"
      BY <2>2, <2>4 DEF Good, Staged, Answered
    <2>6. Good(r, t)
      BY <2>2, <2>4, <2>5 DEF Good, Asks, Staged, Permitted, Held, Holding, Lists, Remembers,
                              Granting, Lasts
    <2>7. req' = [req EXCEPT ![r] = t] /\ UNCHANGED <<tables, undone>>
      BY <1>2, <2>1 DEF Profile, Goes
    <2> QED
      BY <2>3, <2>6, <2>7, QuietStep
  <1> QED
    BY <1>1, <1>2

LEMMA ChannelKeeps ==
  ASSUME OwnershipInv, NEW r \in Clients, Channel(r)
  PROVE  OwnershipInv'
  <1>1. CASE ~get_owned_channel(req[r].user, req[r].id)
    BY <1>1, RefusedKeeps DEF Channel, Is
  <1>2. CASE get_owned_channel(req[r].user, req[r].id)
    <2>1. PICK t : t = [req[r] EXCEPT !.pc = After(Op(r)),
                          !.loaded = IF req[r].loaded = "none" THEN channel[req[r].id].name
                                                               ELSE req[r].loaded]
      OBVIOUS
    <2>2. req[r] \in RequestType /\ Good(r, req[r]) /\ req[r].pc = "channel" /\ Asks(req[r])
      BY DEF OwnershipInv, Channel, Is, Good
    <2>3. t \in RequestType
      <3>1. channel[req[r].id].name \in Names \cup {"none"}
        BY <2>2 DEF OwnershipInv, TablesTyped, ChannelType, Asks
      <3>2. After(Op(r)) \in Stages
        BY DEF After, Stages
      <3> QED
        BY <2>1, <2>2, <3>1, <3>2 DEF RequestType
    <2>4. /\ t.user = req[r].user /\ t.op = req[r].op /\ t.id = req[r].id
          /\ t.name = req[r].name /\ t.list = req[r].list /\ t.pc = After(t.op)
          /\ t.loaded \in {req[r].loaded, channel[t.id].name}
          /\ t.loaded # channel[t.id].name => req[r].loaded # "none" /\ t.loaded = req[r].loaded
      BY <2>1, <2>2 DEF RequestType, Op
    <2>5. channel[t.id].owner = t.user
      BY <1>2, <2>4 DEF get_owned_channel, Owned
    <2>6. t.pc \in {"write", "look", "answer"} /\ ~Answered(t)
      BY <2>4 DEF After, Answered
    <2>7. RouteOf[t.op].owns = "channel" /\ (t.pc = "answer" => t.op \notin Writers)
          /\ (t.pc = "look" => t.op \in {"connect_platform", "grant_channel_feeds"})
      BY <2>2, <2>4 DEF Good, Staged, After, Writers
    <2>8. Remembers(r, t)
      BY <2>2, <2>4, <2>5 DEF Good, Remembers
    <2>9. Good(r, t)
      BY <2>2, <2>4, <2>5, <2>6, <2>7, <2>8
      DEF Good, Asks, Staged, Permitted, Held, Lists, Granting, Lasts
    <2>10. req' = [req EXCEPT ![r] = t] /\ UNCHANGED <<tables, undone>>
      BY <1>2, <2>1 DEF Channel
    <2> QED
      BY <2>3, <2>9, <2>10, QuietStep
  <1> QED
    BY <1>1, <1>2

(* A request that is answered with success and leaves the rows as they are *)
(* has them as it promises.                                                *)
LEMMA OkKeeps ==
  ASSUME OwnershipInv, NEW r \in Clients, req[r].pc \notin {"new", "done"}, Ok(r),
         UNCHANGED <<tables, undone>>,
         RouteOf[Op(r)].owns \in {"channel", "video"} =>
           channel[req[r].id].owner = req[r].user,
         Done(r, req[r]) \/ r \in undone
  PROVE  OwnershipInv'
  <1>1. PICK t : t = [req[r] EXCEPT !.pc = "done", !.answer = RouteOf[Op(r)].ok]
    OBVIOUS
  <1>2. req[r] \in RequestType /\ Good(r, req[r]) /\ Asks(req[r])
    BY DEF OwnershipInv, Good
  <1>3. t \in RequestType
    <2>1. "done" \in Stages /\ RouteOf[Op(r)].ok \in Nat
      BY <1>2, RoutesAsNeeded, OwnershipAssumption DEF Stages, Asks, Op
    <2> QED
      BY <1>1, <1>2, <2>1, FieldsTyped
  <1>4. /\ t.user = req[r].user /\ t.op = req[r].op /\ t.id = req[r].id
        /\ t.name = req[r].name /\ t.loaded = req[r].loaded /\ t.list = req[r].list
        /\ t.feeds = req[r].feeds /\ t.pc = "done"
    BY <1>1, <1>2 DEF RequestType
  <1>5. Good(r, t)
    <2>1. Asks(t) /\ Staged(t) /\ Permitted(t) /\ Lists(t)
      BY <1>2, <1>4 DEF Good, Asks, Staged, Permitted, Lists
    <2>2. Held(t) /\ Remembers(r, t) /\ Granting(r, t)
      BY <1>2, <1>4 DEF Good, Held, Holding, Remembers, Granting, Op
    <2>3. Lasts(r, t)
      BY <1>4 DEF Lasts, Done
    <2> QED
      BY <1>4, <2>1, <2>2, <2>3 DEF Good
  <1>6. req' = [req EXCEPT ![r] = t] /\ UNCHANGED <<tables, undone>>
    BY <1>1 DEF Ok, Answer
  <1> QED
    BY <1>3, <1>5, <1>6, QuietStep

LEMMA VideoKeeps ==
  ASSUME OwnershipInv, NEW r \in Clients, Video(r)
  PROVE  OwnershipInv'
  <1>1. /\ req[r].pc = "video" /\ RouteOf[req[r].op].owns = "video"
        /\ req[r].op \in DOMAIN RouteOf
    BY OwnershipAssumption DEF OwnershipInv, Good, Asks, Staged, Video, Is
  <1>2. Done(r, req[r])
    BY <1>1, RoutesAsNeeded DEF Done, Writers
  <1>3. CASE get_owned_video(req[r].user, req[r].id) /\ Ok(r) /\ UNCHANGED <<tables, undone>>
    BY <1>1, <1>2, <1>3, OkKeeps DEF get_owned_video, Owned
  <1>4. CASE Refuse(r, 409) \/ Refuse(r, 404)
    BY <1>1, <1>4, RefusedKeeps
  <1> QED
    BY <1>3, <1>4 DEF Video

LEMMA AnswerOnlyKeeps ==
  ASSUME OwnershipInv, NEW r \in Clients, AnswerOnly(r)
  PROVE  OwnershipInv'
  <1>1. Good(r, req[r]) /\ req[r].pc \in {"nothing", "answer"} /\ req[r].op \in DOMAIN RouteOf
    BY OwnershipAssumption DEF OwnershipInv, Good, Asks, AnswerOnly, Is
  <1>2. req[r].op \notin Writers
    BY <1>1, RoutesAsNeeded DEF Good, Staged
  <1>3. RouteOf[Op(r)].owns \in {"channel", "video"} => channel[req[r].id].owner = req[r].user
    BY <1>1 DEF Good, Staged, Held, Holding, Op
  <1>4. Done(r, req[r])
    BY <1>2 DEF Done, Writers
  <1>5. CASE Ok(r) /\ UNCHANGED <<tables, undone>>
    BY <1>1, <1>3, <1>4, <1>5, OkKeeps
  <1>6. CASE Refuse(r, 409) \/ Refuse(r, 404)
    BY <1>1, <1>6, RefusedKeeps
  <1> QED
    BY <1>5, <1>6 DEF AnswerOnly

(* What a list may have: rows of channels of the user's.                   *)
LEMMA AnswerListKeeps ==
  ASSUME OwnershipInv, NEW r \in Clients, req[r].pc = "rows", NEW cs \in SUBSET ChannelIds,
         \A c \in cs : channel[c].owner = req[r].user, AnswerList(r, cs)
  PROVE  OwnershipInv'
  <1>1. req[r] \in RequestType /\ Good(r, req[r]) /\ Asks(req[r])
    BY DEF OwnershipInv, Good
  <1>2. PICK t : t = [req[r] EXCEPT !.pc = "done", !.answer = RouteOf[Op(r)].ok, !.list = cs]
    OBVIOUS
  <1>3. /\ RouteOf[req[r].op].ok \in Nat /\ req[r].op \notin Writers
        /\ RouteOf[req[r].op].owns \notin {"channel", "video"}
    BY <1>1, RoutesAsNeeded, OwnershipAssumption DEF Asks, Good, Staged
  <1>4. t \in RequestType
    <2>1. "done" \in Stages
      BY DEF Stages
    <2> QED
      BY <1>1, <1>2, <1>3, <2>1, FieldsTyped DEF Op
  <1>5. /\ t.user = req[r].user /\ t.op = req[r].op /\ t.id = req[r].id
        /\ t.name = req[r].name /\ t.loaded = req[r].loaded /\ t.feeds = req[r].feeds
        /\ t.list = cs /\ t.pc = "done"
    BY <1>1, <1>2 DEF RequestType
  <1>6. Good(r, t)
    <2>1. Asks(t) /\ Staged(t) /\ Permitted(t) /\ Lists(t)
      BY <1>1, <1>5 DEF Good, Asks, Staged, Permitted, Lists
    <2>2. Held(t) /\ Remembers(r, t) /\ Granting(r, t) /\ Lasts(r, t)
      BY <1>1, <1>3, <1>5 DEF Good, Held, Holding, Remembers, Granting, Lasts, Done, Writers
    <2> QED
      BY <1>5, <2>1, <2>2 DEF Good
  <1>7. req' = [req EXCEPT ![r] = t] /\ UNCHANGED <<tables, undone>>
    BY <1>2 DEF AnswerList
  <1> QED
    BY <1>4, <1>6, <1>7, QuietStep

LEMMA ListKeeps ==
  ASSUME OwnershipInv, NEW r \in Clients, List(r)
  PROVE  OwnershipInv'
  <1>1. req[r].pc = "rows" /\ Asks(req[r])
    BY DEF OwnershipInv, Good, List, Is
  <1>2. CASE Refuse(r, 404) \/ Refuse(r, 409)
    BY <1>1, <1>2, RefusedKeeps
  <1>3. CASE AnswerList(r, get_by_profile(req[r].user))
    BY <1>1, <1>3, AnswerListKeeps DEF get_by_profile, Owned
  <1>4. CASE get_owned_channel(req[r].user, req[r].id) /\ AnswerList(r, {req[r].id})
    BY <1>1, <1>4, AnswerListKeeps DEF get_owned_channel, Owned, Asks
  <1> QED
    BY <1>2, <1>3, <1>4 DEF List

LEMMA LookConfigKeeps ==
  ASSUME OwnershipInv, NEW r \in Clients, LookConfig(r)
  PROVE  OwnershipInv'
  <1>1. PICK p : p = IF config[req[r].id] = "none" THEN "insert" ELSE "write"
    OBVIOUS
  <1>2. PICK t : t = [req[r] EXCEPT !.pc = p]
    OBVIOUS
  <1>3. /\ req[r] \in RequestType /\ Good(r, req[r]) /\ req[r].pc = "look"
        /\ req[r].op = "connect_platform" /\ Asks(req[r])
    BY DEF OwnershipInv, Good, LookConfig, Is, Op
  <1>4. p \in {"insert", "write"}
    BY <1>1
  <1>5. t \in RequestType
    <2>1. p \in Stages
      BY <1>4 DEF Stages
    <2> QED
      BY <1>2, <1>3, <2>1, FieldsTyped
  <1>6. /\ t.user = req[r].user /\ t.op = req[r].op /\ t.id = req[r].id
        /\ t.name = req[r].name /\ t.loaded = req[r].loaded /\ t.list = req[r].list
        /\ t.pc = p
    BY <1>2, <1>3 DEF RequestType
  <1>7. RouteOf[t.op].owns = "channel"
    BY <1>3, <1>6, RoutesAsNeeded, OwnershipAssumption DEF Writers, Asks
  <1>8. Good(r, t)
    BY <1>3, <1>4, <1>6, <1>7
    DEF Good, Asks, Staged, Permitted, Answered, Held, Holding, Lists, Remembers, Granting, Lasts
  <1>9. req' = [req EXCEPT ![r] = t] /\ UNCHANGED <<tables, undone>>
    BY <1>1, <1>2 DEF LookConfig, Goes
  <1> QED
    BY <1>5, <1>8, <1>9, QuietStep

LEMMA LookGrantsKeeps ==
  ASSUME OwnershipInv, NEW r \in Clients, LookGrants(r)
  PROVE  OwnershipInv'
  <1>1. PICK new : new = {f \in req[r].feeds : <<req[r].id, f>> \notin grants}
    OBVIOUS
  <1>2. PICK t : t = [req[r] EXCEPT !.pc = "insert", !.todo = new]
    OBVIOUS
  <1>3. /\ req[r] \in RequestType /\ Good(r, req[r]) /\ req[r].pc = "look"
        /\ req[r].op = "grant_channel_feeds" /\ Asks(req[r])
    BY DEF OwnershipInv, Good, LookGrants, Is, Op
  <1>4. new \in SUBSET FeedIds
    BY <1>1, <1>3 DEF RequestType
  <1>5. t \in RequestType
    <2>1. "insert" \in Stages
      BY DEF Stages
    <2> QED
      BY <1>2, <1>3, <1>4, <2>1, FieldsTyped
  <1>6. /\ t.user = req[r].user /\ t.op = req[r].op /\ t.id = req[r].id
        /\ t.name = req[r].name /\ t.loaded = req[r].loaded /\ t.list = req[r].list
        /\ t.feeds = req[r].feeds /\ t.todo = new /\ t.pc = "insert"
    BY <1>2, <1>3 DEF RequestType
  <1>7. RouteOf[t.op].owns = "channel"
    BY <1>3, <1>6, RoutesAsNeeded, OwnershipAssumption DEF Writers, Asks
  <1>8. Granting(r, t)
    BY <1>1, <1>6 DEF Granting
  <1>9. Good(r, t)
    BY <1>3, <1>6, <1>7, <1>8
    DEF Good, Asks, Staged, Permitted, Answered, Held, Holding, Lists, Remembers, Lasts
  <1>10. CASE req' = [req EXCEPT ![r] = t] /\ UNCHANGED <<tables, undone>>
    BY <1>5, <1>9, <1>10, QuietStep
  <1>11. CASE Refuse(r, 404)
    BY <1>3, <1>11, RefusedKeeps
  <1> QED
    BY <1>1, <1>2, <1>10, <1>11 DEF LookGrants

LEMMA EndGrantsKeeps ==
  ASSUME OwnershipInv, NEW r \in Clients, EndGrants(r)
  PROVE  OwnershipInv'
  <1>1. /\ Good(r, req[r]) /\ req[r].pc = "insert" /\ req[r].op = "grant_channel_feeds"
        /\ req[r].todo = {}
    BY DEF OwnershipInv, EndGrants, Is, Op
  <1>2. CASE get_owned_channel(req[r].user, req[r].id)
    <2>1. channel[req[r].id].owner = req[r].user
      BY <1>2 DEF get_owned_channel, Owned
    <2>2. Done(r, req[r]) \/ r \in undone
      BY <1>1 DEF Good, Granting, Done
    <2>3. Ok(r) /\ UNCHANGED <<tables, undone>>
      BY <1>2 DEF EndGrants, Granted
    <2> QED
      BY <1>1, <2>1, <2>2, <2>3, OkKeeps
  <1>3. CASE ~get_owned_channel(req[r].user, req[r].id)
    <2>1. Refuse(r, 404)
      BY <1>3 DEF EndGrants, Granted
    <2> QED
      BY <1>1, <2>1, RefusedKeeps
  <1> QED
    BY <1>2, <1>3
-----------------------------------------------------------------------------
(* The steps that write.  The request that does has a channel of its user. *)
LEMMA WriterHolds ==
  ASSUME OwnershipInv, NEW r \in Clients, req[r].pc \in {"write", "look", "insert"},
         req[r].op # "create_channel"
  PROVE  /\ req[r] \in RequestType /\ Good(r, req[r]) /\ Asks(req[r])
         /\ RouteOf[req[r].op].owns = "channel"
         /\ channel[req[r].id].owner = req[r].user
         /\ channel[req[r].id] # NoChannel
  <1>1. req[r] \in RequestType /\ Good(r, req[r]) /\ Asks(req[r]) /\ req[r].op \in DOMAIN RouteOf
    BY OwnershipAssumption DEF OwnershipInv, Good, Asks
  <1>2. RouteOf[req[r].op].owns = "channel"
    BY <1>1, RoutesAsNeeded DEF Good, Staged, Writers
  <1>3. channel[req[r].id].owner = req[r].user
    BY <1>1, <1>2 DEF Good, Held, Holding
  <1>4. channel[req[r].id] # NoChannel
    BY <1>1, <1>3, OwnershipAssumption DEF Asks, NoChannel
  <1> QED
    BY <1>1, <1>2, <1>3, <1>4

(* Its last statement leaves what it promises.                             *)
LEMMA WriteKeeps ==
  ASSUME OwnershipInv, NEW r \in Clients, NEW s \in RequestType, s = req[r],
         s.pc \in {"write", "insert"}, s.op # "create_channel", Ok(r), TablesTyped',
         channel'[s.id].owner = channel[s.id].owner, Done(r, s)',
         \A q \in Clients \ {r} : Undisturbed(q, req[q])
  PROVE  OwnershipInv'
  <1>1. PICK t : t = [s EXCEPT !.pc = "done", !.answer = RouteOf[s.op].ok]
    OBVIOUS
  <1>2. Good(r, s) /\ Asks(s) /\ channel[s.id].owner = s.user
    BY WriterHolds
  <1>3. t \in RequestType
    <2>1. "done" \in Stages /\ RouteOf[s.op].ok \in Nat
      BY <1>2, RoutesAsNeeded, OwnershipAssumption DEF Stages, Asks
    <2> QED
      BY <1>1, <2>1, FieldsTyped
  <1>4. /\ t.user = s.user /\ t.op = s.op /\ t.id = s.id /\ t.name = s.name
        /\ t.list = s.list /\ t.feeds = s.feeds /\ t.pc = "done"
    BY <1>1 DEF RequestType
  <1>5. Good(r, t)'
    <2>1. Asks(t)' /\ Staged(t)' /\ Permitted(t)'
      BY <1>2, <1>4 DEF Good, Asks, Staged, Permitted
    <2>2. Held(t)' /\ Lists(t)' /\ Remembers(r, t)' /\ Granting(r, t)'
      BY <1>2, <1>4 DEF Good, Held, Lists, Remembers, Granting
    <2>3. Lasts(r, t)'
      BY <1>4 DEF Lasts, Done
    <2> QED
      BY <1>4, <2>1, <2>2, <2>3 DEF Good
  <1>6. req' = [req EXCEPT ![r] = t]
    BY <1>1 DEF Ok, Answer, Op
  <1> QED
    BY <1>3, <1>5, <1>6, RequestStep

LEMMA CreateChannelKeeps ==
  ASSUME OwnershipInv, NEW r \in Clients, CreateChannel(r)
  PROVE  OwnershipInv'
  <1>1. PICK c \in ChannelIds :
          /\ channel[c] = NoChannel
          /\ channel' = [channel EXCEPT ![c] = [NoChannel EXCEPT !.owner = req[r].user,
                                                                 !.name = req[r].name]]
          /\ req' = [req EXCEPT ![r] = [@ EXCEPT !.pc = "done", !.id = c,
                                                  !.answer = RouteOf[Op(r)].ok]]
    BY DEF CreateChannel
  <1>2. PICK s \in RequestType : s = req[r]
    BY DEF OwnershipInv
  <1>3. Good(r, s) /\ Asks(s) /\ s.pc = "write" /\ s.op = "create_channel"
    BY <1>2 DEF OwnershipInv, Good, CreateChannel, Is, Op
  <1>4. RouteOf[s.op].owns = "profile" /\ RouteOf[s.op].ok \in Nat
    BY <1>3, RoutesAsNeeded, OwnershipAssumption DEF Asks
  <1>5. PICK none \in ChannelType : none = NoChannel
    BY DEF NoChannel, ChannelType
  <1>6. PICK row : row = [none EXCEPT !.owner = s.user, !.name = s.name]
    OBVIOUS
  <1>7. row \in ChannelType /\ row.owner \in People /\ row # NoChannel
    BY <1>3, <1>5, <1>6, OwnershipAssumption DEF ChannelType, Asks, NoChannel
  <1>8. channel' = [channel EXCEPT ![c] = row]
    BY <1>1, <1>2, <1>5, <1>6
  <1>9. channel[c].owner \notin People
    BY <1>1, OwnershipAssumption DEF NoChannel
  <1>10. UNCHANGED <<grants, config, made, undone>>
    BY DEF CreateChannel
  <1>11. TablesTyped'
    BY <1>7, <1>8, <1>10 DEF OwnershipInv, TablesTyped
  <1>12. \A q \in Clients \ {r} : Undisturbed(q, req[q])
    BY <1>8, <1>9, <1>10 DEF Undisturbed, OwnershipInv, TablesTyped
  <1>13. PICK t : t = [s EXCEPT !.pc = "done", !.id = c, !.answer = RouteOf[s.op].ok]
    OBVIOUS
  <1>14. t \in RequestType
    <2>1. "done" \in Stages
      BY DEF Stages
    <2> QED
      BY <1>4, <1>13, <2>1, FieldsTyped
  <1>15. /\ t.user = s.user /\ t.op = s.op /\ t.id = c /\ t.name = s.name
         /\ t.list = s.list /\ t.feeds = s.feeds /\ t.pc = "done"
    BY <1>13 DEF RequestType
  <1>16. Good(r, t)'
    <2>1. Asks(t)' /\ Staged(t)' /\ Permitted(t)' /\ t.list = {}
      BY <1>3, <1>15 DEF Good, Asks, Staged, Permitted, Lists
    <2>2. Held(t)' /\ Lists(t)' /\ Remembers(r, t)' /\ Granting(r, t)' /\ Lasts(r, t)'
      BY <1>3, <1>4, <1>15, <2>1 DEF Held, Holding, Lists, Remembers, Granting, Lasts, Done
    <2> QED
      BY <1>15, <2>1, <2>2 DEF Good
  <1>17. req' = [req EXCEPT ![r] = t]
    BY <1>1, <1>2, <1>13 DEF Op
  <1> QED
    BY <1>11, <1>12, <1>14, <1>16, <1>17, RequestStep

LEMMA UpdateChannelKeeps ==
  ASSUME OwnershipInv, NEW r \in Clients, UpdateChannel(r)
  PROVE  OwnershipInv'
  <1>1. PICK s \in RequestType : s = req[r]
    BY DEF OwnershipInv
  <1>2. s.pc = "write" /\ s.op = "update_channel"
    BY <1>1 DEF UpdateChannel, Is, Op
  <1>3. Good(r, s) /\ Asks(s) /\ channel[s.id].owner = s.user /\ channel[s.id] # NoChannel
    BY <1>1, <1>2, WriterHolds
  <1>4. CASE s.name \in {"none", s.loaded}
    <2>1. Done(r, s) \/ r \in undone
      BY <1>2, <1>3, <1>4 DEF Done, Good, Remembers
    <2>2. Ok(r) /\ UNCHANGED <<tables, undone>>
      BY <1>1, <1>4 DEF UpdateChannel, tables
    <2> QED
      BY <1>1, <1>2, <1>3, <2>1, <2>2, OkKeeps
  <1>5. CASE s.name \notin {"none", s.loaded}
    <2>1. /\ channel' = [channel EXCEPT ![s.id].name = s.name] /\ Writes(r) /\ Ok(r)
          /\ UNCHANGED <<grants, config, made>>
      BY <1>1, <1>5 DEF UpdateChannel
    <2>2. PICK old \in ChannelType : old = channel[s.id]
      BY <1>3 DEF OwnershipInv, TablesTyped, Asks
    <2>3. PICK row : row = [old EXCEPT !.name = s.name]
      OBVIOUS
    <2>4. /\ row \in ChannelType /\ row.owner = old.owner /\ row.name = s.name
          /\ row.deleted = old.deleted
      BY <2>2, <2>3 DEF ChannelType, RequestType
    <2>5. channel' = [channel EXCEPT ![s.id] = row]
      BY <2>1, <2>2, <2>3
    <2>6. row # NoChannel
      BY <1>3, <2>2, <2>4, OwnershipAssumption DEF NoChannel, Asks
    <2>7. undone' \subseteq Clients /\ undone \subseteq undone'
      BY <2>1 DEF Writes, OwnershipInv, TablesTyped
    <2>8. TablesTyped'
      BY <2>1, <2>4, <2>5, <2>6, <2>7 DEF OwnershipInv, TablesTyped
    <2>9. channel'[s.id] = row /\ \A c \in ChannelIds : c # s.id => channel'[c] = channel[c]
      BY <1>3, <2>5 DEF OwnershipInv, TablesTyped, Asks
    <2>10. ASSUME NEW q \in Clients \ {r} PROVE Undisturbed(q, req[q])
      <3>1. req[q].pc # "new" /\ req[q].op = "update_channel" /\ q \notin undone' =>
              req[q].id # s.id
        BY <1>1, <1>2, <2>1 DEF Writes, Undoes, Is, Op
      <3>2. req[q].pc # "new" => req[q].id \in ChannelIds
        BY DEF OwnershipInv, Good, Asks
      <3> QED
        BY <2>1, <2>2, <2>4, <2>7, <2>9, <3>1, <3>2 DEF Undisturbed
    <2>11. Done(r, s)'
      BY <1>2, <2>4, <2>9 DEF Done
    <2> QED
      BY <1>1, <1>2, <2>1, <2>2, <2>4, <2>8, <2>9, <2>10, <2>11, WriteKeeps
  <1> QED
    BY <1>4, <1>5

LEMMA DeleteChannelKeeps ==
  ASSUME OwnershipInv, NEW r \in Clients, DeleteChannel(r)
  PROVE  OwnershipInv'
  <1>1. PICK s \in RequestType : s = req[r]
    BY DEF OwnershipInv
  <1>2. s.pc = "write" /\ s.op = "delete_channel"
    BY <1>1 DEF DeleteChannel, Is, Op
  <1>3. Good(r, s) /\ Asks(s) /\ channel[s.id].owner = s.user /\ channel[s.id] # NoChannel
    BY <1>1, <1>2, WriterHolds
  <1>4. /\ channel' = [channel EXCEPT ![s.id].deleted = TRUE] /\ Ok(r)
        /\ UNCHANGED <<grants, config, made, undone>>
    BY <1>1 DEF DeleteChannel
  <1>5. PICK old \in ChannelType : old = channel[s.id]
    BY <1>3 DEF OwnershipInv, TablesTyped, Asks
  <1>6. PICK row : row = [old EXCEPT !.deleted = TRUE]
    OBVIOUS
  <1>7. row \in ChannelType /\ row.owner = old.owner /\ row.name = old.name /\ row.deleted
    BY <1>5, <1>6 DEF ChannelType
  <1>8. channel' = [channel EXCEPT ![s.id] = row]
    BY <1>4, <1>5, <1>6
  <1>9. row # NoChannel
    BY <1>7 DEF NoChannel
  <1>10. TablesTyped'
    BY <1>4, <1>7, <1>8, <1>9 DEF OwnershipInv, TablesTyped
  <1>11. channel'[s.id] = row /\ \A c \in ChannelIds : c # s.id => channel'[c] = channel[c]
    BY <1>3, <1>8 DEF OwnershipInv, TablesTyped, Asks
  <1>12. ASSUME NEW q \in Clients \ {r} PROVE Undisturbed(q, req[q])
    <2>1. req[q].pc # "new" => req[q].id \in ChannelIds
      BY DEF OwnershipInv, Good, Asks
    <2> QED
      BY <1>4, <1>5, <1>7, <1>11, <2>1 DEF Undisturbed
  <1>13. Done(r, s)'
    BY <1>2, <1>7, <1>11 DEF Done
  <1> QED
    BY <1>1, <1>2, <1>4, <1>5, <1>7, <1>10, <1>11, <1>12, <1>13, WriteKeeps

LEMMA MakeRowKeeps ==
  ASSUME OwnershipInv, NEW r \in Clients, MakeRow(r)
  PROVE  OwnershipInv'
  <1>1. PICK s \in RequestType : s = req[r]
    BY DEF OwnershipInv
  <1>2. /\ s.pc = "write" /\ Ok(r) /\ UNCHANGED <<channel, grants, config, undone>>
        /\ s.op \in {"schedule_video", "trigger_pipeline", "schedule_channel_pipelines"}
        /\ \/ made' = made \cup {<<s.id, r>>}
           \/ s.op = "schedule_channel_pipelines" /\ made' = made
    BY <1>1 DEF MakeRow, Is, Op
  <1>3. Asks(s)
    BY <1>1, <1>2, WriterHolds
  <1>4. TablesTyped'
    BY <1>2, <1>3 DEF OwnershipInv, TablesTyped, Asks
  <1>5. \A q \in Clients \ {r} : Undisturbed(q, req[q])
    BY <1>2 DEF Undisturbed
  <1>6. Done(r, s)'
    BY <1>2 DEF Done
  <1> QED
    BY <1>1, <1>2, <1>4, <1>5, <1>6, WriteKeeps

LEMMA RevokeFeedKeeps ==
  ASSUME OwnershipInv, NEW r \in Clients, RevokeFeed(r)
  PROVE  OwnershipInv'
  <1>1. PICK s \in RequestType : s = req[r]
    BY DEF OwnershipInv
  <1>2. s.pc = "write" /\ s.op = "revoke_channel_feed"
    BY <1>1 DEF RevokeFeed, Is, Op
  <1>3. PICK gone : gone = {s.id} \X s.feeds
    OBVIOUS
  <1>4. CASE ~(gone \subseteq grants)
    <2>1. Refuse(r, 404)
      BY <1>1, <1>3, <1>4 DEF RevokeFeed
    <2> QED
      BY <1>1, <1>2, <2>1, RefusedKeeps
  <1>5. CASE gone \subseteq grants
    <2>1. grants' = grants \ gone /\ Writes(r) /\ Ok(r) /\ UNCHANGED <<channel, config, made>>
      BY <1>1, <1>3, <1>5 DEF RevokeFeed
    <2>2. undone' \subseteq Clients /\ undone \subseteq undone'
      BY <2>1 DEF Writes, OwnershipInv, TablesTyped
    <2>3. TablesTyped'
      BY <2>1, <2>2 DEF OwnershipInv, TablesTyped
    <2>4. ASSUME NEW q \in Clients \ {r} PROVE Undisturbed(q, req[q])
      <3>1. ASSUME req[q].pc # "new", req[q].op = "grant_channel_feeds", q \notin undone',
                   NEW f \in req[q].feeds
            PROVE  <<req[q].id, f>> \notin gone
        <4>1. req[q].id # s.id \/ req[q].feeds \cap s.feeds = {}
          BY <1>1, <1>2, <2>1, <3>1 DEF Writes, Undoes, Is, Op
        <4> QED
          BY <1>3, <4>1
      <3> QED
        BY <2>1, <2>2, <3>1 DEF Undisturbed
    <2>5. Done(r, s)'
      BY <1>2, <1>3, <2>1 DEF Done
    <2> QED
      BY <1>1, <1>2, <2>1, <2>3, <2>4, <2>5, WriteKeeps
  <1> QED
    BY <1>4, <1>5

(* Credentials, by the row that was found or by a new one.                 *)
LEMMA StoredConfigKeeps ==
  ASSUME OwnershipInv, NEW r \in Clients, req[r].pc \in {"write", "insert"},
         req[r].op = "connect_platform", config' = [config EXCEPT ![req[r].id] = r],
         Writes(r), Ok(r), UNCHANGED <<channel, grants, made>>
  PROVE  OwnershipInv'
  <1>1. PICK s \in RequestType : s = req[r]
    BY DEF OwnershipInv
  <1>2. Asks(s) /\ channel[s.id] # NoChannel
    BY <1>1, WriterHolds
  <1>3. undone' \subseteq Clients /\ undone \subseteq undone'
    BY DEF Writes, OwnershipInv, TablesTyped
  <1>4. config'[s.id] = r /\ \A c \in ChannelIds : c # s.id => config'[c] = config[c]
    BY <1>1, <1>2 DEF OwnershipInv, TablesTyped, Asks
  <1>5. config' \in [ChannelIds -> Clients \cup {"none"}]
    BY <1>1, <1>2 DEF OwnershipInv, TablesTyped, Asks
  <1>6. TablesTyped'
    BY <1>2, <1>3, <1>4, <1>5 DEF OwnershipInv, TablesTyped
  <1>7. ASSUME NEW q \in Clients \ {r} PROVE Undisturbed(q, req[q])
    <2>1. req[q].pc # "new" /\ req[q].op = "connect_platform" /\ q \notin undone' =>
            req[q].id # s.id
      BY <1>1 DEF Writes, Undoes, Is, Op
    <2>2. req[q].pc # "new" => req[q].id \in ChannelIds
      BY DEF OwnershipInv, Good, Asks
    <2> QED
      BY <1>3, <1>4, <2>1, <2>2 DEF Undisturbed
  <1>8. Done(r, s)'
    BY <1>1, <1>4 DEF Done
  <1> QED
    BY <1>1, <1>6, <1>7, <1>8, WriteKeeps

LEMMA UpdateConfigKeeps ==
  ASSUME OwnershipInv, NEW r \in Clients, UpdateConfig(r)
  PROVE  OwnershipInv'
  BY StoredConfigKeeps DEF UpdateConfig, Is, Op

LEMMA InsertConfigKeeps ==
  ASSUME OwnershipInv, NEW r \in Clients, InsertConfig(r)
  PROVE  OwnershipInv'
  <1>1. CASE config[req[r].id] # "none"
    BY <1>1, RefusedKeeps DEF InsertConfig, Is
  <1>2. CASE config[req[r].id] = "none"
    BY <1>2, StoredConfigKeeps DEF InsertConfig, Is, Op
  <1> QED
    BY <1>1, <1>2

(* A grant leaves the request with one feed less to do.                    *)
LEMMA InsertGrantKeeps ==
  ASSUME OwnershipInv, NEW r \in Clients, NEW f \in FeedIds, InsertGrant(r, f)
  PROVE  OwnershipInv'
  <1>1. PICK s \in RequestType : s = req[r]
    BY DEF OwnershipInv
  <1>2. s.pc = "insert" /\ s.op = "grant_channel_feeds" /\ f \in s.todo
    BY <1>1 DEF InsertGrant, Is, Op
  <1>3. Good(r, s) /\ Asks(s) /\ channel[s.id].owner = s.user /\ channel[s.id] # NoChannel
    BY <1>1, <1>2, WriterHolds
  <1>4. CASE <<s.id, f>> \in grants
    <2>1. Refuse(r, 500)
      BY <1>1, <1>4 DEF InsertGrant, StatusOf
    <2> QED
      BY <1>1, <1>2, <2>1, RefusedKeeps
  <1>5. CASE <<s.id, f>> \notin grants
    <2>a. PICK again \in SUBSET {f} :
            req' = [req EXCEPT ![r].todo = (s.todo \ {f}) \cup again]
      BY <1>1, <1>5 DEF InsertGrant, OwnershipInv
    <2>0. PICK rest : rest = (s.todo \ {f}) \cup again
      OBVIOUS
    <2>r. s.todo \ {f} \subseteq rest /\ rest \subseteq s.todo
      BY <1>2, <2>0
    <2>1. PICK t : t = [s EXCEPT !.todo = rest]
      OBVIOUS
    <2>2. /\ grants' = grants \cup {<<s.id, f>>} /\ req' = [req EXCEPT ![r] = t]
          /\ Writes(r) /\ UNCHANGED <<channel, config, made>>
      <3>1. req' = [req EXCEPT ![r] = t]
        BY <1>1, <2>a, <2>0, <2>1 DEF OwnershipInv
      <3> QED
        BY <1>1, <1>5, <3>1 DEF InsertGrant
    <2>3. t \in RequestType
      <3>1. rest \in SUBSET FeedIds
        BY <2>r DEF RequestType
      <3> QED
        BY <2>1, <3>1, FieldsTyped
    <2>4. /\ t.user = s.user /\ t.op = s.op /\ t.id = s.id /\ t.name = s.name /\ t.pc = s.pc
          /\ t.list = s.list /\ t.feeds = s.feeds
          /\ s.todo \ {f} \subseteq t.todo /\ t.todo \subseteq s.todo
      BY <2>1, <2>r DEF RequestType
    <2>5. undone' \subseteq Clients /\ undone \subseteq undone'
      BY <2>2 DEF Writes, OwnershipInv, TablesTyped
    <2>6. TablesTyped'
      BY <1>3, <2>2, <2>5 DEF OwnershipInv, TablesTyped, Asks
    <2>7. s.todo \subseteq s.feeds
      BY <1>2, <1>3 DEF Good, Granting
    <2>8. ASSUME NEW q \in Clients \ {r} PROVE Undisturbed(q, req[q])
      <3>1. req[q].pc # "new" /\ req[q].op = "revoke_channel_feed" /\ q \notin undone' =>
              req[q].id # s.id \/ f \notin req[q].feeds
        BY <1>1, <1>2, <2>2, <2>7 DEF Writes, Undoes, Is, Op
      <3> QED
        BY <2>2, <2>5, <3>1 DEF Undisturbed
    <2>9. Granting(r, t)'
      BY <1>2, <1>3, <2>2, <2>4, <2>5, <2>7 DEF Good, Granting
    <2>10. Good(r, t)'
      <3>1. Asks(t)' /\ Staged(t)' /\ Permitted(t)' /\ Lasts(r, t)' /\ Remembers(r, t)'
        BY <1>2, <1>3, <2>4 DEF Good, Asks, Staged, Permitted, Lasts, Answered, Remembers
      <3>2. Held(t)' /\ Lists(t)'
        BY <1>2, <1>3, <2>2, <2>4 DEF Good, Held, Lists
      <3> QED
        BY <1>2, <2>4, <2>9, <3>1, <3>2 DEF Good
    <2> QED
      BY <2>2, <2>3, <2>6, <2>8, <2>10, RequestStep
  <1> QED
    BY <1>4, <1>5
-----------------------------------------------------------------------------
LEMMA OwnershipStarts == OwnershipInit => OwnershipInv
  <1> SUFFICES ASSUME OwnershipInit PROVE OwnershipInv
    OBVIOUS
  <1>1. NoChannel \in ChannelType
    BY DEF NoChannel, ChannelType
  <1>2. [owner : People \cap HasProfile, name : Names, deleted : {FALSE}] \subseteq ChannelType
    BY DEF ChannelType
  <1>3. channel \in [ChannelIds -> ChannelType]
    BY <1>1, <1>2 DEF OwnershipInit
  <1>4. TablesTyped
    BY <1>3 DEF OwnershipInit, TablesTyped
  <1>5. NewReq \in RequestType
    BY DEF NewReq, RequestType, Stages
  <1>6. req \in [Clients -> RequestType] /\ \A r \in Clients : req[r] = NewReq
    BY <1>5 DEF OwnershipInit
  <1>7. ASSUME NEW r \in Clients PROVE Good(r, req[r])
    <2>1. req[r] = NewReq /\ req[r].pc = "new" /\ req[r].list = {}
      BY <1>6 DEF NewReq
    <2>2. req[r].op = "none"
      BY <2>1 DEF NewReq
    <2> QED
      BY <2>1, <2>2
      DEF Good, Staged, Permitted, Answered, Held, Holding, Lists, Remembers, Granting, Lasts
  <1> QED
    BY <1>4, <1>6, <1>7 DEF OwnershipInv

LEMMA OwnershipSteps == OwnershipInv /\ [OwnershipNext]_ownershipVars => OwnershipInv'
  <1> SUFFICES ASSUME OwnershipInv, [OwnershipNext]_ownershipVars PROVE OwnershipInv'
    OBVIOUS
  <1>1. CASE UNCHANGED ownershipVars
    BY <1>1 DEF ownershipVars, OwnershipInv, TablesTyped, Good, Asks, Staged, Permitted,
       Answered, Held, Holding, Lists, Remembers, Granting, Lasts, Done
  <1>2. ASSUME NEW r \in Clients, LoseRequest(r) PROVE OwnershipInv'
    BY <1>2, RefusedKeeps DEF LoseRequest
  <1> QED
    BY <1>1, <1>2, AuthorizeKeeps, ProfileKeeps, ChannelKeeps, VideoKeeps, AnswerOnlyKeeps,
       ListKeeps, CreateChannelKeeps, UpdateChannelKeeps, DeleteChannelKeeps, MakeRowKeeps,
       RevokeFeedKeeps, LookConfigKeeps, UpdateConfigKeeps, InsertConfigKeeps, LookGrantsKeeps,
       InsertGrantKeeps, EndGrantsKeeps
    DEF OwnershipNext

(* The rows have their types, and belong to channels that there are.       *)
THEOREM OwnershipTypesHold == OwnershipSpec => []OwnershipTypeOK
  <1>1. OwnershipInv => OwnershipTypeOK
    BY DEF OwnershipInv, TablesTyped, OwnershipTypeOK, ChannelType
  <1> QED
    BY <1>1, OwnershipStarts, OwnershipSteps, PTL DEF OwnershipSpec

(* A success is one of a user with the permission and, if it names a       *)
(* channel or a video, of its owner; what it has done to the rows stays    *)
(* until another request of the owner writes the same.                     *)
THEOREM AnswersAreKept == OwnershipSpec => []AnswersHold
  <1>1. ASSUME OwnershipInv PROVE AnswersHold
    <2>1. ASSUME NEW r \in Clients, Is(r, "done"), req[r].answer = RouteOf[Op(r)].ok
          PROVE  /\ RouteOf[Op(r)].needs \in Holds[req[r].user]
                 /\ RouteOf[Op(r)].owns \in {"channel", "video"} =>
                      channel[req[r].id].owner = req[r].user
                 /\ \A c \in req[r].list : channel[c].owner = req[r].user
                 /\ Effect(r) \/ r \in undone
      <3>1. Good(r, req[r]) /\ Answered(req[r])
        BY <1>1, <2>1 DEF OwnershipInv, Answered, Is, Op
      <3>2. Done(r, req[r]) => Effect(r)
        BY DEF Done, Effect, Op
      <3> QED
        BY <3>1, <3>2 DEF Good, Permitted, Held, Holding, Lists, Lasts, Op
    <2> QED
      BY <2>1 DEF AnswersHold
  <1> QED
    BY <1>1, OwnershipStarts, OwnershipSteps, PTL DEF OwnershipSpec

(***************************************************************************)
(*                          Schema and Accounts                            *)
(***************************************************************************)
(* What the objects of the revision are, and what a row of each may hold.  *)
Objects == InitialTables \cup RssTables \cup ChannelColumns \cup FeedColumns \cup RunTables
From(r, n, s) == IF r >= n THEN s ELSE {}
ObjectsAt(r) == From(r, 1, InitialTables) \cup From(r, 3, RssTables) \cup
                From(r, 5, ChannelColumns) \cup From(r, 6, FeedColumns) \cup From(r, 7, RunTables)

DatabaseType ==
  [revision : Revisions, objects : SUBSET Objects, permissions : SUBSET Permission,
   url : [Feeds -> Urls \cup {"none"}], active : SUBSET Feeds, used : SUBSET Feeds,
   users : SUBSET Users, profiles : SUBSET Users, held : [Users -> SUBSET Permission]]

(* The seeded feeds have the URLs that the revisions know of theirs.       *)
OnlyAt(d, f, url) == \A g \in Feeds : (d.url[g] = url) <=> (g = f)
FeedsMatch(d) ==
  LET r == d.revision
  IN /\ d.url["openai"] \in {"none", "openai/blog", "openai/news"}
     /\ d.url["phys"] \in {"none", "phys"} /\ d.url["eonline"] \in {"none", "eonline"}
     /\ r < 4      => d.url["openai"] = "none" /\ d.url["phys"] = "none"
     /\ r \in 4..5 => OnlyAt(d, "openai", "openai/blog")
     /\ r >= 6     => OnlyAt(d, "openai", "openai/news")
     /\ r >= 4     => OnlyAt(d, "phys", "phys") /\ (r < 6 <=> "phys" \in d.active)
     /\ r >= 8     => Taken(d, "eonline")
     /\ r < 8      => d.url["eonline"] = "none"
     /\ \A f \in d.used : d.url[f] # "none"

ObjectsMatch(d) ==
  /\ d.objects = ObjectsAt(d.revision)
  /\ \A o \in d.objects : RefersTo(o) \subseteq d.objects

PermissionsMatch(d) ==
  /\ d.revision >= 2 => Permission \ RssPermissions \subseteq d.permissions
  /\ d.revision >= 4 => RssPermissions \subseteq d.permissions
  /\ \A u \in Users : d.held[u] \subseteq d.permissions

UsersMatch(d) == /\ d.profiles \subseteq d.users
                 /\ \A u \in Users \ d.users : d.held[u] = {}
                 /\ d.revision = 0 => d.users = {}

Matches(d) == /\ d \in DatabaseType
              /\ ObjectsMatch(d) /\ FeedsMatch(d) /\ PermissionsMatch(d) /\ UsersMatch(d)

(* A migration finds nobody at work, and leaves the accounts alone or      *)
(* removes all of them.                                                    *)
SchemaInv ==
  /\ release \in Releases /\ target \in Revisions /\ failed \in BOOLEAN
  /\ Matches(db) /\ Matches(draft)
  /\ Migrating => /\ \A c \in Registrations : call[c].pc \in Ended
                  /\ sync.pc = "idle"
                  /\ \/ target = 0
                     \/ draft.users = db.users /\ draft.profiles = db.profiles
                        /\ draft.held = db.held

(* A registration that has got past the creation of its user.              *)
Passed == {"profile", "read", "assign", "created"}
CallType == [pc : Ended \cup {"user", "profile", "read", "assign"},
             email : Users \cup {"none"}, perms : SUBSET Permission]
CallSound(t, d) ==
  /\ t.pc \notin Ended => t.email \in Users /\ d.revision >= 1
  /\ t.pc \in Passed => t.email \in d.users
  /\ t.pc \in {"read", "assign", "created"} => t.email \in d.profiles
  /\ t.pc = "assign" => t.perms \subseteq d.permissions
  /\ t.pc = "created" => t.perms \subseteq d.held[t.email]

CallsInv ==
  /\ call \in [Registrations -> CallType]
  /\ \A c \in Registrations : CallSound(call[c], db)
  /\ \A c, d \in Registrations :
       call[c].pc \in Passed /\ call[d].pc \in Passed /\ call[c].email = call[d].email => c = d
  /\ \A u \in db.users : \E c \in Registrations :
       call[c].email = u /\ call[c].pc \in Passed \cup {"lost", "error"}

(* What the script has seen to, or leaves to a registration under way.     *)
SyncType == [pc : {"idle", "ensure", "users", "insert", "done"}, perms : Seq(Permission),
             email : Users \cup {"all"}, todo : SUBSET Users,
             user : Users \cup {"none"}, missing : SUBSET Permission]
Leaves(u) ==
  \E c \in Registrations :
    /\ call[c].email = u
    /\ \/ call[c].pc = "lost"
       \/ /\ db.held[u] = {}
          /\ \/ call[c].pc \in {"profile", "read"}
             \/ call[c].pc = "assign" /\ Range(sync.perms) \subseteq call[c].perms
Covered(u) ==
  \/ sync.email \notin {"all", u}
  \/ u \in sync.todo
  \/ sync.pc = "insert" /\ sync.user = u
  \/ Range(sync.perms) \subseteq db.held[u]
  \/ Leaves(u)

SyncInv ==
  /\ sync \in SyncType
  /\ sync.pc # "idle" => release = "current"
  /\ sync.pc = "insert" => /\ sync.user \in db.users
                           /\ sync.missing \subseteq Range(sync.perms)
                           /\ Range(sync.perms) \subseteq sync.missing \cup db.held[sync.user]
  /\ sync.todo \subseteq db.users
  /\ sync.pc \in {"idle", "done"} => sync.todo = {}
  /\ sync.pc \in {"users", "insert", "done"} =>
       /\ Range(sync.perms) \subseteq db.permissions
       /\ \A u \in db.users : Covered(u)

AccountsInv == SchemaInv /\ CallsInv /\ SyncInv
-----------------------------------------------------------------------------
(* What the statements of a revision make of the database, field by field. *)
SameFeeds(d, e)    == e.url = d.url /\ e.active = d.active /\ e.used = d.used
SameAccounts(d, e) == e.users = d.users /\ e.profiles = d.profiles /\ e.held = d.held
Marked(d, n)       == [d EXCEPT !.revision = n]

LEMMA SeededPermissions == RssPermissions \subseteq Permission
  BY DEF RssPermissions, Permission, DEFAULT_FREE_TIER_PERMISSIONS, Range

LEMMA KnownPermissions == Known \subseteq Permission /\ Permission \ RssPermissions \subseteq Known
  BY DEF Known

LEMMA MarkedFields ==
  ASSUME NEW d \in DatabaseType, NEW n \in Revisions, NEW e, e = Marked(d, n)
  PROVE  /\ e \in DatabaseType /\ e.revision = n /\ e.objects = d.objects
         /\ e.permissions = d.permissions /\ SameFeeds(d, e) /\ SameAccounts(d, e)
  BY DEF Marked, DatabaseType, SameFeeds, SameAccounts

LEMMA CreateFields ==
  ASSUME NEW d \in DatabaseType, NEW new \in SUBSET Objects, NEW e, e = CreateObjects(d, new)
  PROVE  /\ e \in DatabaseType /\ e.revision = d.revision /\ e.objects = d.objects \cup new
         /\ e.permissions = d.permissions /\ SameFeeds(d, e) /\ SameAccounts(d, e)
  BY DEF CreateObjects, DatabaseType, SameFeeds, SameAccounts

LEMMA DropFields ==
  ASSUME NEW d \in DatabaseType, NEW old, NEW e, e = DropObjects(d, old)
  PROVE  /\ e \in DatabaseType /\ e.revision = d.revision /\ e.objects = d.objects \ old
         /\ e.permissions = d.permissions /\ SameFeeds(d, e) /\ SameAccounts(d, e)
  BY DEF DropObjects, DatabaseType, SameFeeds, SameAccounts

LEMMA SeedFields ==
  ASSUME NEW d \in DatabaseType, NEW perms \in SUBSET Permission, NEW e, e = Seed(d, perms)
  PROVE  /\ e \in DatabaseType /\ e.revision = d.revision /\ e.objects = d.objects
         /\ e.permissions = d.permissions \cup perms /\ SameFeeds(d, e) /\ SameAccounts(d, e)
  BY DEF Seed, DatabaseType, SameFeeds, SameAccounts

LEMMA UnseedFields ==
  ASSUME NEW d \in DatabaseType, NEW perms, NEW e, e = Unseed(d, perms)
  PROVE  /\ e \in DatabaseType /\ e.revision = d.revision /\ e.objects = d.objects
         /\ e.permissions = d.permissions \ perms /\ SameFeeds(d, e) /\ SameAccounts(d, e)
  BY DEF Unseed, DatabaseType, SameFeeds, SameAccounts

LEMMA InsertFeedsFields ==
  ASSUME NEW d \in DatabaseType, NEW new, DOMAIN new \subseteq Feeds,
         \A f \in DOMAIN new : new[f] \in Urls, NEW e, e = InsertFeeds(d, new)
  PROVE  /\ e \in DatabaseType /\ e.revision = d.revision /\ e.objects = d.objects
         /\ e.permissions = d.permissions /\ SameAccounts(d, e)
         /\ \A f \in Feeds : e.url[f] = IF f \in DOMAIN new THEN new[f] ELSE d.url[f]
         /\ e.active = d.active \cup DOMAIN new /\ e.used = d.used
  <1>1. PICK url : url = [f \in Feeds |-> IF f \in DOMAIN new THEN new[f] ELSE d.url[f]]
    OBVIOUS
  <1>2. d.url \in [Feeds -> Urls \cup {"none"}]
    BY DEF DatabaseType
  <1>3. url \in [Feeds -> Urls \cup {"none"}]
        /\ \A f \in Feeds : url[f] = IF f \in DOMAIN new THEN new[f] ELSE d.url[f]
    BY <1>1, <1>2
  <1>4. PICK shown : shown = d.active \cup DOMAIN new
    OBVIOUS
  <1>5. shown \in SUBSET Feeds
    BY <1>4 DEF DatabaseType
  <1>6. e = [d EXCEPT !.url = url, !.active = shown]
    BY <1>1, <1>4 DEF InsertFeeds
  <1>7. e \in DatabaseType
    BY <1>3, <1>5, <1>6 DEF DatabaseType
  <1> QED
    BY <1>3, <1>4, <1>6, <1>7 DEF DatabaseType, SameAccounts

LEMMA MoveFeedFields ==
  ASSUME NEW d \in DatabaseType, NEW old, NEW new \in Urls, NEW e, e = MoveFeed(d, old, new)
  PROVE  /\ e \in DatabaseType /\ e.revision = d.revision /\ e.objects = d.objects
         /\ e.permissions = d.permissions /\ SameAccounts(d, e)
         /\ \A f \in Feeds : e.url[f] = IF d.url[f] = old THEN new ELSE d.url[f]
         /\ e.active = d.active /\ e.used = d.used
  <1>1. PICK url : url = [f \in Feeds |-> IF d.url[f] = old THEN new ELSE d.url[f]]
    OBVIOUS
  <1>2. d.url \in [Feeds -> Urls \cup {"none"}]
    BY DEF DatabaseType
  <1>3. url \in [Feeds -> Urls \cup {"none"}]
        /\ \A f \in Feeds : url[f] = IF d.url[f] = old THEN new ELSE d.url[f]
    BY <1>1, <1>2
  <1>4. e = [d EXCEPT !.url = url]
    BY <1>1 DEF MoveFeed
  <1> QED
    BY <1>3, <1>4 DEF DatabaseType, SameAccounts

LEMMA DeleteFeedsFields ==
  ASSUME NEW d \in DatabaseType, NEW urls, NEW e, e = DeleteFeeds(d, urls)
  PROVE  /\ e \in DatabaseType /\ e.revision = d.revision /\ e.objects = d.objects
         /\ e.permissions = d.permissions /\ SameAccounts(d, e)
         /\ \A f \in Feeds : e.url[f] = IF d.url[f] \in urls THEN "none" ELSE d.url[f]
         /\ e.active = d.active \ FeedsAt(d, urls) /\ e.used = d.used
  <1>1. PICK url : url = [f \in Feeds |-> IF f \in FeedsAt(d, urls) THEN "none" ELSE d.url[f]]
    OBVIOUS
  <1>2. d.url \in [Feeds -> Urls \cup {"none"}]
    BY DEF DatabaseType
  <1>3. url \in [Feeds -> Urls \cup {"none"}]
        /\ \A f \in Feeds : url[f] = IF d.url[f] \in urls THEN "none" ELSE d.url[f]
    BY <1>1, <1>2 DEF FeedsAt
  <1>4. PICK shown : shown = d.active \ FeedsAt(d, urls)
    OBVIOUS
  <1>5. shown \in SUBSET Feeds
    BY <1>4 DEF DatabaseType
  <1>6. e = [d EXCEPT !.url = url, !.active = shown]
    BY <1>1, <1>4 DEF DeleteFeeds
  <1>7. e \in DatabaseType
    BY <1>3, <1>5, <1>6 DEF DatabaseType
  <1> QED
    BY <1>3, <1>4, <1>6, <1>7 DEF DatabaseType, SameAccounts

LEMMA EmptyMatches == Matches(Empty)
  <1>1. Empty \in DatabaseType
    BY DEF Empty, DatabaseType, Revisions, Feeds
  <1>2. /\ Empty.revision = 0 /\ Empty.objects = {} /\ Empty.permissions = {} /\ Empty.users = {}
        /\ Empty.used = {} /\ Empty.profiles = {}
        /\ Empty.url = [f \in Feeds |-> "none"] /\ Empty.held = [u \in Users |-> {}]
    BY DEF Empty
  <1> HIDE DEF Empty
  <1>3. ObjectsMatch(Empty)
    BY <1>2 DEF ObjectsMatch, ObjectsAt, From
  <1>4. FeedsMatch(Empty)
    BY <1>2 DEF FeedsMatch, Feeds
  <1>5. PermissionsMatch(Empty) /\ UsersMatch(Empty)
    BY <1>2 DEF PermissionsMatch, UsersMatch
  <1> QED
    BY <1>1, <1>3, <1>4, <1>5 DEF Matches

(* The objects of the revisions are apart from each other.                 *)
LEMMA Apart ==
  /\ InitialTables \cap (RssTables \cup ChannelColumns \cup FeedColumns \cup RunTables) = {}
  /\ RssTables \cap (ChannelColumns \cup FeedColumns \cup RunTables) = {}
  /\ ChannelColumns \cap (FeedColumns \cup RunTables) = {}
  /\ FeedColumns \cap RunTables = {}
  /\ InitialTables # {} /\ FeedColumns # {}
  BY DEF InitialTables, RssTables, ChannelColumns, FeedColumns, RunTables

(* Creating and dropping objects goes from the objects of a revision to    *)
(* those of the next.                                                      *)
LEMMA Created ==
  ASSUME NEW d, ObjectsMatch(d), NEW new, CanCreate(d, new), NEW e,
         e.objects = d.objects \cup new, ObjectsAt(e.revision) = ObjectsAt(d.revision) \cup new
  PROVE  ObjectsMatch(e)
  BY DEF ObjectsMatch, CanCreate

LEMMA Dropped ==
  ASSUME NEW d, ObjectsMatch(d), NEW old, CanDrop(d, old), NEW e,
         e.objects = d.objects \ old, ObjectsAt(e.revision) = ObjectsAt(d.revision) \ old
  PROVE  ObjectsMatch(e)
  BY DEF ObjectsMatch, CanDrop

LEMMA SameObjects ==
  ASSUME NEW d, ObjectsMatch(d), NEW e,
         e.objects = d.objects, ObjectsAt(e.revision) = ObjectsAt(d.revision)
  PROVE  ObjectsMatch(e)
  BY DEF ObjectsMatch

LEMMA ObjectsOfRevisions ==
  /\ ObjectsAt(1) = ObjectsAt(0) \cup InitialTables /\ ObjectsAt(2) = ObjectsAt(1)
  /\ ObjectsAt(3) = ObjectsAt(2) \cup RssTables /\ ObjectsAt(4) = ObjectsAt(3)
  /\ ObjectsAt(5) = ObjectsAt(4) \cup ChannelColumns
  /\ ObjectsAt(6) = ObjectsAt(5) \cup FeedColumns
  /\ ObjectsAt(7) = ObjectsAt(6) \cup RunTables /\ ObjectsAt(8) = ObjectsAt(7)
  /\ ObjectsAt(0) = ObjectsAt(1) \ InitialTables /\ ObjectsAt(2) = ObjectsAt(3) \ RssTables
  /\ ObjectsAt(4) = ObjectsAt(5) \ ChannelColumns /\ ObjectsAt(5) = ObjectsAt(6) \ FeedColumns
  /\ ObjectsAt(6) = ObjectsAt(7) \ RunTables
  BY Apart DEF ObjectsAt, From
-----------------------------------------------------------------------------
(* Each revision takes a database that matches the revision before it to   *)
(* one that matches it, and leaves the accounts alone.                     *)
Follows(d, e, n) == Matches(e) /\ e.revision = n /\ SameAccounts(d, e)

LEMMA TablesCreated ==
  ASSUME NEW d, Matches(d), NEW n \in {1, 3, 5, 7}, d.revision = n - 1,
         NEW new \in SUBSET Objects, CanCreate(d, new),
         ObjectsAt(n) = ObjectsAt(n - 1) \cup new, NEW e, e = Marked(CreateObjects(d, new), n)
  PROVE  Follows(d, e, n)
  <1>1. PICK c : c = CreateObjects(d, new)
    OBVIOUS
  <1>2. d \in DatabaseType /\ n \in Revisions
    BY DEF Matches, Revisions
  <1>3. /\ e \in DatabaseType /\ e.revision = n /\ e.objects = d.objects \cup new
        /\ e.permissions = d.permissions /\ SameFeeds(d, e) /\ SameAccounts(d, e)
    <2>1. /\ c \in DatabaseType /\ c.objects = d.objects \cup new
          /\ c.permissions = d.permissions /\ SameFeeds(d, c) /\ SameAccounts(d, c)
      BY <1>1, <1>2, CreateFields
    <2>2. /\ e \in DatabaseType /\ e.revision = n /\ e.objects = c.objects
          /\ e.permissions = c.permissions /\ SameFeeds(c, e) /\ SameAccounts(c, e)
      BY <1>1, <1>2, <2>1, MarkedFields
    <2> QED
      BY <2>1, <2>2 DEF SameFeeds, SameAccounts
  <1>4. ObjectsMatch(e)
    BY <1>3, Created DEF Matches
  <1>5. FeedsMatch(e)
    BY <1>3 DEF Matches, FeedsMatch, SameFeeds, OnlyAt, Taken
  <1>6. PermissionsMatch(e) /\ UsersMatch(e)
    BY <1>3 DEF Matches, PermissionsMatch, UsersMatch, SameAccounts
  <1> QED
    BY <1>3, <1>4, <1>5, <1>6 DEF Follows, Matches

LEMMA TablesDropped ==
  ASSUME NEW d, Matches(d), NEW n \in {4, 6}, d.revision = n + 1,
         NEW old, CanDrop(d, old),
         ObjectsAt(n) = ObjectsAt(n + 1) \ old, NEW e, e = Marked(DropObjects(d, old), n)
  PROVE  Follows(d, e, n)
  <1>1. PICK c : c = DropObjects(d, old)
    OBVIOUS
  <1>2. d \in DatabaseType /\ n \in Revisions
    BY DEF Matches, Revisions
  <1>3. /\ e \in DatabaseType /\ e.revision = n /\ e.objects = d.objects \ old
        /\ e.permissions = d.permissions /\ SameFeeds(d, e) /\ SameAccounts(d, e)
    <2>1. /\ c \in DatabaseType /\ c.objects = d.objects \ old
          /\ c.permissions = d.permissions /\ SameFeeds(d, c) /\ SameAccounts(d, c)
      BY <1>1, <1>2, DropFields
    <2>2. /\ e \in DatabaseType /\ e.revision = n /\ e.objects = c.objects
          /\ e.permissions = c.permissions /\ SameFeeds(c, e) /\ SameAccounts(c, e)
      BY <1>1, <1>2, <2>1, MarkedFields
    <2> QED
      BY <2>1, <2>2 DEF SameFeeds, SameAccounts
  <1>4. ObjectsMatch(e)
    BY <1>3, Dropped DEF Matches
  <1>5. FeedsMatch(e)
    BY <1>3 DEF Matches, FeedsMatch, SameFeeds, OnlyAt, Taken
  <1>6. PermissionsMatch(e) /\ UsersMatch(e)
    BY <1>3 DEF Matches, PermissionsMatch, UsersMatch, SameAccounts
  <1> QED
    BY <1>3, <1>4, <1>5, <1>6 DEF Follows, Matches

(* 002: the permissions of the release.                                    *)
LEMMA PermissionsSeeded ==
  ASSUME NEW d, Matches(d), d.revision = 1, CanSeedPermissions(d), NEW e,
         e = Marked(SeedPermissions(d), 2)
  PROVE  Follows(d, e, 2)
  <1>1. PICK c : c = Seed(d, Known)
    OBVIOUS
  <1>2. d \in DatabaseType /\ 2 \in Revisions
    BY DEF Matches, Revisions
  <1>3. /\ e \in DatabaseType /\ e.revision = 2 /\ e.objects = d.objects
        /\ e.permissions = d.permissions \cup Known /\ SameFeeds(d, e) /\ SameAccounts(d, e)
    <2>1. /\ c \in DatabaseType /\ c.objects = d.objects
          /\ c.permissions = d.permissions \cup Known /\ SameFeeds(d, c) /\ SameAccounts(d, c)
      BY <1>1, <1>2, SeedFields, KnownPermissions
    <2>2. /\ e \in DatabaseType /\ e.revision = 2 /\ e.objects = c.objects
          /\ e.permissions = c.permissions /\ SameFeeds(c, e) /\ SameAccounts(c, e)
      BY <1>1, <1>2, <2>1, MarkedFields DEF SeedPermissions
    <2> QED
      BY <2>1, <2>2 DEF SameFeeds, SameAccounts
  <1>4. ObjectsMatch(e)
    BY <1>3, SameObjects, ObjectsOfRevisions DEF Matches
  <1>5. FeedsMatch(e)
    BY <1>3 DEF Matches, FeedsMatch, SameFeeds
  <1>6. PermissionsMatch(e) /\ UsersMatch(e)
    BY <1>3, KnownPermissions DEF Matches, PermissionsMatch, UsersMatch, SameAccounts
  <1> QED
    BY <1>3, <1>4, <1>5, <1>6 DEF Follows, Matches

LEMMA PermissionsUnseeded ==
  ASSUME NEW d, Matches(d), d.revision = 2, CanUnseedPermissions(d), NEW e,
         e = Marked(UnseedPermissions(d), 1)
  PROVE  Follows(d, e, 1)
  <1>1. PICK c : c = Unseed(d, Known)
    OBVIOUS
  <1>2. d \in DatabaseType /\ 1 \in Revisions
    BY DEF Matches, Revisions
  <1>3. /\ e \in DatabaseType /\ e.revision = 1 /\ e.objects = d.objects
        /\ e.permissions = d.permissions \ Known /\ SameFeeds(d, e) /\ SameAccounts(d, e)
    <2>1. /\ c \in DatabaseType /\ c.objects = d.objects
          /\ c.permissions = d.permissions \ Known /\ SameFeeds(d, c) /\ SameAccounts(d, c)
      BY <1>1, <1>2, UnseedFields
    <2>2. /\ e \in DatabaseType /\ e.revision = 1 /\ e.objects = c.objects
          /\ e.permissions = c.permissions /\ SameFeeds(c, e) /\ SameAccounts(c, e)
      BY <1>1, <1>2, <2>1, MarkedFields DEF UnseedPermissions
    <2> QED
      BY <2>1, <2>2 DEF SameFeeds, SameAccounts
  <1>4. ObjectsMatch(e)
    BY <1>3, SameObjects, ObjectsOfRevisions DEF Matches
  <1>5. FeedsMatch(e)
    BY <1>3 DEF Matches, FeedsMatch, SameFeeds
  <1>6. PermissionsMatch(e) /\ UsersMatch(e)
    <2>1. \A u \in Users : e.held[u] \subseteq d.permissions \ Known
      BY <1>3 DEF CanUnseedPermissions, CanUnseed, Matches, PermissionsMatch, SameAccounts
    <2> QED
      BY <1>3, <2>1 DEF Matches, PermissionsMatch, UsersMatch, SameAccounts
  <1> QED
    BY <1>3, <1>4, <1>5, <1>6 DEF Follows, Matches

(* 004: two feeds and their permissions.                                   *)
LEMMA RssSeeded ==
  ASSUME NEW d, Matches(d), d.revision = 3, CanSeedRss(d), NEW e, e = Marked(SeedRss(d), 4)
  PROVE  Follows(d, e, 4)
  <1>1. PICK b, c : b = Seed(d, RssPermissions) /\ c = InsertFeeds(b, RSS_FEEDS)
    OBVIOUS
  <1>2. d \in DatabaseType /\ 4 \in Revisions
    BY DEF Matches, Revisions
  <1>3. /\ DOMAIN RSS_FEEDS = {"openai", "phys"}
        /\ RSS_FEEDS["openai"] = "openai/blog" /\ RSS_FEEDS["phys"] = "phys"
    BY DEF RSS_FEEDS
  <1>4. /\ e \in DatabaseType /\ e.revision = 4 /\ e.objects = d.objects
        /\ e.permissions = d.permissions \cup RssPermissions /\ SameAccounts(d, e)
        /\ e.url["openai"] = "openai/blog" /\ e.url["phys"] = "phys"
        /\ \A f \in Feeds \ {"openai", "phys"} : e.url[f] = d.url[f]
        /\ "phys" \in e.active /\ e.used = d.used
    <2>1. /\ b \in DatabaseType /\ b.objects = d.objects
          /\ b.permissions = d.permissions \cup RssPermissions
          /\ SameFeeds(d, b) /\ SameAccounts(d, b)
      BY <1>1, <1>2, SeedFields, SeededPermissions
    <2>2. /\ c \in DatabaseType /\ c.objects = b.objects
          /\ c.permissions = b.permissions /\ SameAccounts(b, c)
          /\ \A f \in Feeds : c.url[f] = IF f \in {"openai", "phys"} THEN RSS_FEEDS[f]
                                                                     ELSE b.url[f]
          /\ c.active = b.active \cup {"openai", "phys"} /\ c.used = b.used
      <3>1. DOMAIN RSS_FEEDS \subseteq Feeds /\ \A f \in DOMAIN RSS_FEEDS : RSS_FEEDS[f] \in Urls
        BY <1>3 DEF Feeds, Urls
      <3> QED
        BY <1>1, <1>3, <2>1, <3>1, InsertFeedsFields
    <2>3. /\ e \in DatabaseType /\ e.revision = 4 /\ e.objects = c.objects
          /\ e.permissions = c.permissions /\ SameFeeds(c, e) /\ SameAccounts(c, e)
      BY <1>1, <1>2, <2>2, MarkedFields DEF SeedRss
    <2>4. {"openai", "phys"} \subseteq Feeds
      BY DEF Feeds
    <2> QED
      BY <1>3, <2>1, <2>2, <2>3, <2>4 DEF SameFeeds, SameAccounts
  <1>5. ObjectsMatch(e)
    BY <1>4, SameObjects, ObjectsOfRevisions DEF Matches
  <1>6. FeedsMatch(e)
    <2>1. \A f \in Feeds : d.url[f] # "openai/blog" /\ d.url[f] # "phys"
      BY <1>3 DEF CanSeedRss, CanInsert, Taken
    <2>2. {"openai", "phys", "eonline"} \subseteq Feeds
      BY DEF Feeds
    <2>3. OnlyAt(e, "openai", "openai/blog") /\ OnlyAt(e, "phys", "phys")
      BY <1>4, <2>1, <2>2 DEF OnlyAt
    <2>4. e.url["eonline"] = "none" /\ \A f \in e.used : e.url[f] # "none"
      BY <1>4, <2>2 DEF Matches, FeedsMatch, DatabaseType
    <2> QED
      BY <1>4, <2>3, <2>4 DEF FeedsMatch
  <1>7. PermissionsMatch(e) /\ UsersMatch(e)
    BY <1>4 DEF Matches, PermissionsMatch, UsersMatch, SameAccounts
  <1> QED
    BY <1>4, <1>5, <1>6, <1>7 DEF Follows, Matches

LEMMA RssUnseeded ==
  ASSUME NEW d, Matches(d), d.revision = 4, CanUnseedRss(d), NEW e, e = Marked(UnseedRss(d), 3)
  PROVE  Follows(d, e, 3)
  <1>1. PICK b, c : b = DeleteFeeds(d, RssUrls) /\ c = Unseed(b, RssPermissions)
    OBVIOUS
  <1>2. d \in DatabaseType /\ 3 \in Revisions
    BY DEF Matches, Revisions
  <1>3. RssUrls = {"openai/blog", "phys"}
    BY DEF RssUrls, RSS_FEEDS
  <1>4. /\ e \in DatabaseType /\ e.revision = 3 /\ e.objects = d.objects
        /\ e.permissions = d.permissions \ RssPermissions /\ SameAccounts(d, e)
        /\ \A f \in Feeds : e.url[f] = IF d.url[f] \in {"openai/blog", "phys"} THEN "none"
                                                                               ELSE d.url[f]
        /\ e.used = d.used
    <2>1. /\ b \in DatabaseType /\ b.objects = d.objects
          /\ b.permissions = d.permissions /\ SameAccounts(d, b)
          /\ \A f \in Feeds : b.url[f] = IF d.url[f] \in {"openai/blog", "phys"} THEN "none"
                                                                                 ELSE d.url[f]
          /\ b.used = d.used
      BY <1>1, <1>2, <1>3, DeleteFeedsFields
    <2>2. /\ c \in DatabaseType /\ c.objects = b.objects
          /\ c.permissions = b.permissions \ RssPermissions
          /\ SameFeeds(b, c) /\ SameAccounts(b, c)
      BY <1>1, <2>1, UnseedFields
    <2>3. /\ e \in DatabaseType /\ e.revision = 3 /\ e.objects = c.objects
          /\ e.permissions = c.permissions /\ SameFeeds(c, e) /\ SameAccounts(c, e)
      BY <1>1, <1>2, <2>2, MarkedFields DEF UnseedRss
    <2> QED
      BY <2>1, <2>2, <2>3 DEF SameFeeds, SameAccounts
  <1>5. ObjectsMatch(e)
    BY <1>4, SameObjects, ObjectsOfRevisions DEF Matches
  <1>6. FeedsMatch(e)
    <2>1. {"openai", "phys", "eonline"} \subseteq Feeds /\ d.used \subseteq Feeds
      BY <1>2 DEF Feeds, DatabaseType
    <2>2. /\ d.url["openai"] = "openai/blog" /\ d.url["phys"] = "phys" /\ d.url["eonline"] = "none"
          /\ \A f \in d.used : d.url[f] # "none"
      BY <2>1 DEF Matches, FeedsMatch, OnlyAt
    <2>3. e.url["openai"] = "none" /\ e.url["phys"] = "none" /\ e.url["eonline"] = "none"
      BY <1>4, <2>1, <2>2
    <2>4. \A f \in e.used : d.url[f] \notin {"openai/blog", "phys"}
      BY <1>3, <1>4, <2>1 DEF CanUnseedRss, CanDelete, FeedsAt
    <2>5. \A f \in e.used : e.url[f] # "none"
      BY <1>4, <2>1, <2>2, <2>4
    <2> QED
      BY <1>4, <2>3, <2>5 DEF FeedsMatch
  <1>7. PermissionsMatch(e) /\ UsersMatch(e)
    <2>1. \A u \in Users : e.held[u] \subseteq d.permissions \ RssPermissions
      BY <1>4 DEF CanUnseedRss, CanUnseed, Matches, PermissionsMatch, SameAccounts
    <2> QED
      BY <1>4, <2>1 DEF Matches, PermissionsMatch, UsersMatch, SameAccounts
  <1> QED
    BY <1>4, <1>5, <1>6, <1>7 DEF Follows, Matches

(* 003, downwards: the rows go with the tables.                            *)
LEMMA RssDropped ==
  ASSUME NEW d, Matches(d), d.revision = 3, CanDrop(d, RssTables), NEW e,
         e = Marked(DropRssFeeds(d), 2)
  PROVE  Follows(d, e, 2)
  <1>1. PICK b : b = DropObjects(d, RssTables)
    OBVIOUS
  <1>2. d \in DatabaseType /\ 2 \in Revisions
    BY DEF Matches, Revisions
  <1>3. Empty.url = [f \in Feeds |-> "none"]
    BY DEF Empty
  <1>4. PICK url : url = [f \in Feeds |-> "none"]
    OBVIOUS
  <1>5. url \in [Feeds -> Urls \cup {"none"}] /\ \A f \in Feeds : url[f] = "none"
    BY <1>4
  <1>6. PICK c : c = [b EXCEPT !.url = url, !.active = {}, !.used = {}]
    OBVIOUS
  <1>7. e = Marked(c, 2)
    BY <1>1, <1>3, <1>4, <1>6 DEF DropRssFeeds
  <1>8. /\ e \in DatabaseType /\ e.revision = 2 /\ e.objects = d.objects \ RssTables
        /\ e.permissions = d.permissions /\ SameAccounts(d, e)
        /\ e.url = url /\ e.used = {}
    <2>1. /\ b \in DatabaseType /\ b.objects = d.objects \ RssTables
          /\ b.permissions = d.permissions /\ SameAccounts(d, b)
      BY <1>1, <1>2, DropFields
    <2>2. /\ c \in DatabaseType /\ c.objects = b.objects
          /\ c.permissions = b.permissions /\ SameAccounts(b, c) /\ c.url = url /\ c.used = {}
      BY <1>5, <1>6, <2>1 DEF DatabaseType, SameAccounts
    <2>3. /\ e \in DatabaseType /\ e.revision = 2 /\ e.objects = c.objects
          /\ e.permissions = c.permissions /\ SameFeeds(c, e) /\ SameAccounts(c, e)
      BY <1>2, <1>7, <2>2, MarkedFields
    <2> QED
      BY <2>1, <2>2, <2>3 DEF SameFeeds, SameAccounts
  <1>9. ObjectsMatch(e)
    BY <1>8, Dropped, ObjectsOfRevisions DEF Matches
  <1>10. FeedsMatch(e)
    BY <1>5, <1>8 DEF FeedsMatch, Feeds
  <1>11. PermissionsMatch(e) /\ UsersMatch(e)
    BY <1>8 DEF Matches, PermissionsMatch, UsersMatch, SameAccounts
  <1> QED
    BY <1>8, <1>9, <1>10, <1>11 DEF Follows, Matches

(* 001, downwards: nothing is left.                                        *)
LEMMA InitialDropped ==
  ASSUME NEW d, Matches(d), d.revision = 1, NEW e, e = Marked(DropInitialSchema(d), 0)
  PROVE  Matches(e) /\ e.revision = 0
  <1>1. PICK b : b = Empty
    OBVIOUS
  <1>2. PICK old : old = d.objects \ InitialTables
    OBVIOUS
  <1>3. d \in DatabaseType /\ d.revision \in Revisions /\ 0 \in Revisions
    BY DEF Matches, Revisions
  <1>4. old = {}
    BY <1>2, ObjectsOfRevisions DEF Matches, ObjectsMatch, ObjectsAt, From
  <1>5. PICK c : c = [b EXCEPT !.revision = d.revision, !.objects = old]
    OBVIOUS
  <1>6. e = Marked(c, 0)
    BY <1>1, <1>2, <1>5 DEF DropInitialSchema
  <1>7. Matches(b)
    BY <1>1, EmptyMatches
  <1>8. /\ b \in DatabaseType /\ b.revision = 0 /\ b.objects = {}
    BY <1>1, EmptyMatches DEF Empty, Matches
  <1>9. /\ c \in DatabaseType /\ c.objects = {} /\ c.permissions = b.permissions
        /\ SameFeeds(b, c) /\ SameAccounts(b, c)
    BY <1>3, <1>4, <1>5, <1>8 DEF DatabaseType, SameFeeds, SameAccounts
  <1>10. /\ e \in DatabaseType /\ e.revision = 0 /\ e.objects = {}
         /\ e.permissions = b.permissions /\ SameFeeds(b, e) /\ SameAccounts(b, e)
    BY <1>3, <1>6, <1>9, MarkedFields DEF SameFeeds, SameAccounts
  <1>11. ObjectsMatch(e)
    BY <1>10 DEF ObjectsMatch, ObjectsAt, From
  <1>12. FeedsMatch(e)
    BY <1>7, <1>8, <1>10 DEF Matches, FeedsMatch, SameFeeds
  <1>13. PermissionsMatch(e) /\ UsersMatch(e)
    BY <1>7, <1>8, <1>10 DEF Matches, PermissionsMatch, UsersMatch, SameAccounts
  <1> QED
    BY <1>10, <1>11, <1>12, <1>13 DEF Matches

(* 006: a feed moves and another goes to rest.                             *)
LEMMA UrlsFixed ==
  ASSUME NEW d, Matches(d), d.revision = 5, CanFixRssFeedUrls(d), NEW e,
         e = Marked(FixRssFeedUrls(d), 6)
  PROVE  Follows(d, e, 6)
  <1>1. PICK a, b : a = CreateObjects(d, FeedColumns)
                    /\ b = MoveFeed(a, "openai/blog", "openai/news")
    OBVIOUS
  <1>2. PICK shown : shown = b.active \ FeedsAt(d, {"phys"})
    OBVIOUS
  <1>3. PICK c : c = [b EXCEPT !.active = shown]
    OBVIOUS
  <1>4. e = Marked(c, 6)
    BY <1>1, <1>2, <1>3 DEF FixRssFeedUrls
  <1>5. d \in DatabaseType /\ 6 \in Revisions /\ FeedColumns \in SUBSET Objects
        /\ "openai/news" \in Urls
    BY DEF Matches, Revisions, Objects, Urls
  <1>6. /\ e \in DatabaseType /\ e.revision = 6 /\ e.objects = d.objects \cup FeedColumns
        /\ e.permissions = d.permissions /\ SameAccounts(d, e)
        /\ \A f \in Feeds : e.url[f] = IF d.url[f] = "openai/blog" THEN "openai/news"
                                                                   ELSE d.url[f]
        /\ e.active = d.active \ FeedsAt(d, {"phys"}) /\ e.used = d.used
    <2>1. /\ a \in DatabaseType /\ a.objects = d.objects \cup FeedColumns
          /\ a.permissions = d.permissions /\ SameFeeds(d, a) /\ SameAccounts(d, a)
      BY <1>1, <1>5, CreateFields
    <2>2. /\ b \in DatabaseType /\ b.objects = a.objects
          /\ b.permissions = a.permissions /\ SameAccounts(a, b)
          /\ \A f \in Feeds : b.url[f] = IF a.url[f] = "openai/blog" THEN "openai/news"
                                                                     ELSE a.url[f]
          /\ b.active = a.active /\ b.used = a.used
      BY <1>1, <1>5, <2>1, MoveFeedFields
    <2>3. /\ c \in DatabaseType /\ c.objects = b.objects /\ c.permissions = b.permissions
          /\ SameAccounts(b, c) /\ c.url = b.url /\ c.active = shown /\ c.used = b.used
      <3>1. shown \in SUBSET Feeds
        BY <1>2, <2>2 DEF DatabaseType
      <3> QED
        BY <1>3, <2>2, <3>1 DEF DatabaseType, SameAccounts
    <2>4. /\ e \in DatabaseType /\ e.revision = 6 /\ e.objects = c.objects
          /\ e.permissions = c.permissions /\ SameFeeds(c, e) /\ SameAccounts(c, e)
      BY <1>4, <1>5, <2>3, MarkedFields
    <2> QED
      BY <1>2, <2>1, <2>2, <2>3, <2>4 DEF SameFeeds, SameAccounts
  <1>7. ObjectsMatch(e)
    BY <1>6, Created, ObjectsOfRevisions DEF Matches, CanFixRssFeedUrls
  <1>8. FeedsMatch(e)
    <2>1. {"openai", "phys", "eonline"} \subseteq Feeds /\ d.used \subseteq Feeds
      BY <1>5 DEF Feeds, DatabaseType
    <2>2. /\ OnlyAt(d, "openai", "openai/blog") /\ OnlyAt(d, "phys", "phys")
          /\ d.url["eonline"] = "none" /\ \A f \in d.used : d.url[f] # "none"
      BY DEF Matches, FeedsMatch
    <2>3. \A f \in Feeds : d.url[f] # "openai/news"
      BY <2>1, <2>2 DEF CanFixRssFeedUrls, CanMove, Taken, OnlyAt
    <2>4. OnlyAt(e, "openai", "openai/news") /\ OnlyAt(e, "phys", "phys")
      BY <1>6, <2>1, <2>2, <2>3 DEF OnlyAt
    <2>5. "phys" \notin e.active
      BY <1>6, <2>1, <2>2 DEF FeedsAt, OnlyAt
    <2>6. e.url["eonline"] = "none" /\ \A f \in e.used : e.url[f] # "none"
      BY <1>6, <2>1, <2>2
    <2>7. e.url["openai"] = "openai/news" /\ e.url["phys"] = "phys"
      BY <2>1, <2>4 DEF OnlyAt
    <2> QED
      BY <1>6, <2>4, <2>5, <2>6, <2>7 DEF FeedsMatch
  <1>9. PermissionsMatch(e) /\ UsersMatch(e)
    BY <1>6 DEF Matches, PermissionsMatch, UsersMatch, SameAccounts
  <1> QED
    BY <1>6, <1>7, <1>8, <1>9 DEF Follows, Matches

LEMMA UrlsUnfixed ==
  ASSUME NEW d, Matches(d), d.revision = 6, CanUnfixRssFeedUrls(d), NEW e,
         e = Marked(UnfixRssFeedUrls(d), 5)
  PROVE  Follows(d, e, 5)
  <1>1. PICK a, b : a = MoveFeed(d, "openai/news", "openai/blog")
                    /\ b = DropObjects(a, FeedColumns)
    OBVIOUS
  <1>2. PICK shown : shown = b.active \cup FeedsAt(d, {"phys"})
    OBVIOUS
  <1>3. PICK c : c = [b EXCEPT !.active = shown]
    OBVIOUS
  <1>4. e = Marked(c, 5)
    BY <1>1, <1>2, <1>3 DEF UnfixRssFeedUrls
  <1>5. d \in DatabaseType /\ 5 \in Revisions /\ "openai/blog" \in Urls
    BY DEF Matches, Revisions, Urls
  <1>6. /\ e \in DatabaseType /\ e.revision = 5 /\ e.objects = d.objects \ FeedColumns
        /\ e.permissions = d.permissions /\ SameAccounts(d, e)
        /\ \A f \in Feeds : e.url[f] = IF d.url[f] = "openai/news" THEN "openai/blog"
                                                                   ELSE d.url[f]
        /\ e.active = d.active \cup FeedsAt(d, {"phys"}) /\ e.used = d.used
    <2>1. /\ a \in DatabaseType /\ a.objects = d.objects
          /\ a.permissions = d.permissions /\ SameAccounts(d, a)
          /\ \A f \in Feeds : a.url[f] = IF d.url[f] = "openai/news" THEN "openai/blog"
                                                                     ELSE d.url[f]
          /\ a.active = d.active /\ a.used = d.used
      BY <1>1, <1>5, MoveFeedFields
    <2>2. /\ b \in DatabaseType /\ b.objects = a.objects \ FeedColumns
          /\ b.permissions = a.permissions /\ SameFeeds(a, b) /\ SameAccounts(a, b)
      BY <1>1, <2>1, DropFields
    <2>3. /\ c \in DatabaseType /\ c.objects = b.objects /\ c.permissions = b.permissions
          /\ SameAccounts(b, c) /\ c.url = b.url /\ c.active = shown /\ c.used = b.used
      <3>1. shown \in SUBSET Feeds
        BY <1>2, <2>2 DEF DatabaseType, FeedsAt
      <3> QED
        BY <1>3, <2>2, <3>1 DEF DatabaseType, SameAccounts
    <2>4. /\ e \in DatabaseType /\ e.revision = 5 /\ e.objects = c.objects
          /\ e.permissions = c.permissions /\ SameFeeds(c, e) /\ SameAccounts(c, e)
      BY <1>4, <1>5, <2>3, MarkedFields
    <2> QED
      BY <1>2, <2>1, <2>2, <2>3, <2>4 DEF SameFeeds, SameAccounts
  <1>7. ObjectsMatch(e)
    BY <1>6, Dropped, ObjectsOfRevisions DEF Matches, CanUnfixRssFeedUrls
  <1>8. FeedsMatch(e)
    <2>1. {"openai", "phys", "eonline"} \subseteq Feeds /\ d.used \subseteq Feeds
      BY <1>5 DEF Feeds, DatabaseType
    <2>2. /\ OnlyAt(d, "openai", "openai/news") /\ OnlyAt(d, "phys", "phys")
          /\ d.url["eonline"] = "none" /\ \A f \in d.used : d.url[f] # "none"
      BY DEF Matches, FeedsMatch
    <2>3. \A f \in Feeds : d.url[f] # "openai/blog"
      BY <2>1, <2>2 DEF CanUnfixRssFeedUrls, CanMove, Taken, OnlyAt
    <2>4. OnlyAt(e, "openai", "openai/blog") /\ OnlyAt(e, "phys", "phys")
      BY <1>6, <2>1, <2>2, <2>3 DEF OnlyAt
    <2>5. "phys" \in e.active
      BY <1>6, <2>1, <2>2 DEF FeedsAt, OnlyAt
    <2>6. e.url["eonline"] = "none" /\ \A f \in e.used : e.url[f] # "none"
      BY <1>6, <2>1, <2>2
    <2>7. e.url["openai"] = "openai/blog" /\ e.url["phys"] = "phys"
      BY <2>1, <2>4 DEF OnlyAt
    <2> QED
      BY <1>6, <2>4, <2>5, <2>6, <2>7 DEF FeedsMatch
  <1>9. PermissionsMatch(e) /\ UsersMatch(e)
    BY <1>6 DEF Matches, PermissionsMatch, UsersMatch, SameAccounts
  <1> QED
    BY <1>6, <1>7, <1>8, <1>9 DEF Follows, Matches

(* 008: a feed that may be there already.                                  *)
LEMMA EonlineSeeded ==
  ASSUME NEW d, Matches(d), d.revision = 7, NEW e, e = Marked(SeedEonline(d), 8)
  PROVE  Follows(d, e, 8)
  <1>1. PICK c : c = SeedEonline(d)
    OBVIOUS
  <1>2. d \in DatabaseType /\ 8 \in Revisions
    BY DEF Matches, Revisions
  <1>3. {"openai", "phys", "eonline"} \subseteq Feeds /\ d.used \subseteq Feeds
    BY <1>2 DEF Feeds, DatabaseType
  <1>4. /\ c \in DatabaseType /\ c.objects = d.objects /\ c.permissions = d.permissions
        /\ SameAccounts(d, c) /\ c.used = d.used
        /\ \A f \in Feeds : c.url[f] = d.url[f] \/ (f = "eonline" /\ c.url[f] = "eonline")
        /\ Taken(c, "eonline") /\ ("phys" \in c.active <=> "phys" \in d.active)
    <2>1. CASE Taken(d, "eonline")
      <3>1. c = d
        BY <1>1, <2>1 DEF SeedEonline
      <3> QED
        BY <1>2, <2>1, <3>1 DEF SameAccounts
    <2>2. CASE ~Taken(d, "eonline")
      <3>1. PICK new : new = [eonline |-> "eonline"]
        OBVIOUS
      <3>2. DOMAIN new = {"eonline"} /\ new["eonline"] = "eonline"
        BY <3>1
      <3>3. DOMAIN new \subseteq Feeds /\ \A f \in DOMAIN new : new[f] \in Urls
        BY <3>2 DEF Feeds, Urls
      <3>4. c = InsertFeeds(d, new)
        BY <1>1, <2>2, <3>1 DEF SeedEonline
      <3>5. /\ c \in DatabaseType /\ c.objects = d.objects /\ c.permissions = d.permissions
            /\ SameAccounts(d, c) /\ c.used = d.used
            /\ \A f \in Feeds : c.url[f] = IF f \in DOMAIN new THEN new[f] ELSE d.url[f]
            /\ c.active = d.active \cup DOMAIN new
        BY <1>2, <3>3, <3>4, InsertFeedsFields
      <3>6. Taken(c, "eonline")
        BY <1>3, <3>2, <3>5 DEF Taken
      <3>7. \A f \in Feeds : c.url[f] = d.url[f] \/ (f = "eonline" /\ c.url[f] = "eonline")
        BY <3>2, <3>5
      <3>8. "phys" \in c.active <=> "phys" \in d.active
        BY <3>2, <3>5
      <3> QED
        BY <3>5, <3>6, <3>7, <3>8
    <2> QED
      BY <2>1, <2>2
  <1>5. /\ e \in DatabaseType /\ e.revision = 8 /\ e.objects = c.objects
        /\ e.permissions = c.permissions /\ SameFeeds(c, e) /\ SameAccounts(c, e)
    BY <1>1, <1>2, <1>4, MarkedFields
  <1>6. ObjectsMatch(e)
    BY <1>4, <1>5, SameObjects, ObjectsOfRevisions DEF Matches
  <1>7. FeedsMatch(e)
    <2>1. /\ OnlyAt(d, "openai", "openai/news") /\ OnlyAt(d, "phys", "phys")
          /\ d.url["eonline"] = "none" /\ "phys" \notin d.active
          /\ \A f \in d.used : d.url[f] # "none"
      BY DEF Matches, FeedsMatch
    <2>2. \A f \in Feeds : e.url[f] = d.url[f] \/ (f = "eonline" /\ e.url[f] = "eonline")
      BY <1>4, <1>5 DEF SameFeeds
    <2>3. OnlyAt(e, "openai", "openai/news") /\ OnlyAt(e, "phys", "phys")
      BY <1>3, <2>1, <2>2 DEF OnlyAt
    <2>4. e.url["eonline"] \in {"none", "eonline"} /\ \A f \in e.used : e.url[f] # "none"
      BY <1>3, <1>4, <1>5, <2>1, <2>2 DEF SameFeeds
    <2>5. e.url["openai"] = "openai/news" /\ e.url["phys"] = "phys"
      BY <1>3, <2>3 DEF OnlyAt
    <2>6. Taken(e, "eonline") /\ "phys" \notin e.active
      BY <1>4, <1>5, <2>1 DEF SameFeeds, Taken
    <2> QED
      BY <1>5, <2>3, <2>4, <2>5, <2>6 DEF FeedsMatch
  <1>8. PermissionsMatch(e) /\ UsersMatch(e) /\ SameAccounts(d, e)
    BY <1>4, <1>5 DEF Matches, PermissionsMatch, UsersMatch, SameAccounts
  <1> QED
    BY <1>5, <1>6, <1>7, <1>8 DEF Follows, Matches

LEMMA EonlineUnseeded ==
  ASSUME NEW d, Matches(d), d.revision = 8, CanUnseedEonline(d), NEW e,
         e = Marked(UnseedEonline(d), 7)
  PROVE  Follows(d, e, 7)
  <1>1. PICK c : c = DeleteFeeds(d, {"eonline"})
    OBVIOUS
  <1>2. d \in DatabaseType /\ 7 \in Revisions
    BY DEF Matches, Revisions
  <1>3. /\ c \in DatabaseType /\ c.objects = d.objects
        /\ c.permissions = d.permissions /\ SameAccounts(d, c)
        /\ \A f \in Feeds : c.url[f] = IF d.url[f] \in {"eonline"} THEN "none" ELSE d.url[f]
        /\ c.active = d.active \ FeedsAt(d, {"eonline"}) /\ c.used = d.used
    BY <1>1, <1>2, DeleteFeedsFields
  <1>4. /\ e \in DatabaseType /\ e.revision = 7 /\ e.objects = c.objects
        /\ e.permissions = c.permissions /\ SameFeeds(c, e) /\ SameAccounts(c, e)
    BY <1>1, <1>2, <1>3, MarkedFields DEF UnseedEonline
  <1>5. ObjectsMatch(e)
    BY <1>3, <1>4, SameObjects, ObjectsOfRevisions DEF Matches
  <1>6. FeedsMatch(e)
    <2>1. {"openai", "phys", "eonline"} \subseteq Feeds /\ d.used \subseteq Feeds
      BY <1>2 DEF Feeds, DatabaseType
    <2>2. /\ OnlyAt(d, "openai", "openai/news") /\ OnlyAt(d, "phys", "phys")
          /\ d.url["eonline"] \in {"none", "eonline"} /\ "phys" \notin d.active
          /\ \A f \in d.used : d.url[f] # "none"
      BY DEF Matches, FeedsMatch
    <2>3. \A f \in Feeds : e.url[f] = IF d.url[f] = "eonline" THEN "none" ELSE d.url[f]
      BY <1>3, <1>4 DEF SameFeeds
    <2>4. OnlyAt(e, "openai", "openai/news") /\ OnlyAt(e, "phys", "phys")
      BY <2>1, <2>2, <2>3 DEF OnlyAt
    <2>5. e.url["openai"] = "openai/news" /\ e.url["phys"] = "phys"
      BY <2>1, <2>4 DEF OnlyAt
    <2>6. e.url["eonline"] = "none" /\ "phys" \notin e.active
      BY <1>3, <1>4, <2>1, <2>2, <2>3 DEF SameFeeds
    <2>7. \A f \in e.used : d.url[f] # "eonline"
      BY <1>3, <1>4, <2>1 DEF CanUnseedEonline, CanDelete, FeedsAt, SameFeeds
    <2>8. \A f \in e.used : e.url[f] # "none"
      BY <1>3, <1>4, <2>1, <2>2, <2>3, <2>7 DEF SameFeeds
    <2> QED
      BY <1>4, <2>4, <2>5, <2>6, <2>8 DEF FeedsMatch
  <1>7. PermissionsMatch(e) /\ UsersMatch(e) /\ SameAccounts(d, e)
    BY <1>3, <1>4 DEF Matches, PermissionsMatch, UsersMatch, SameAccounts
  <1> QED
    BY <1>4, <1>5, <1>6, <1>7 DEF Follows, Matches


(* The two directions.                                                     *)
LEMMA UpgradedFollows ==
  ASSUME NEW d, Matches(d), d.revision < 8, CanUpgrade(d), NEW e, e = Upgraded(d)
  PROVE  Follows(d, e, d.revision + 1)
  <1>1. d.revision \in {0, 1, 2, 3, 4, 5, 6, 7}
    BY DEF Matches, DatabaseType, Revisions
  <1>2. /\ InitialTables \in SUBSET Objects /\ RssTables \in SUBSET Objects
        /\ ChannelColumns \in SUBSET Objects /\ RunTables \in SUBSET Objects
    BY DEF Objects
  <1>3. CASE d.revision = 0
    <2>1. CanCreate(d, InitialTables) /\ e = Marked(CreateObjects(d, InitialTables), 1)
      BY <1>3 DEF CanUpgrade, Upgraded, InitialSchema, Marked
    <2> QED
      BY <1>2, <1>3, <2>1, TablesCreated, ObjectsOfRevisions
  <1>4. CASE d.revision = 1
    <2>1. CanSeedPermissions(d) /\ e = Marked(SeedPermissions(d), 2)
      BY <1>4 DEF CanUpgrade, Upgraded, Marked
    <2> QED
      BY <1>4, <2>1, PermissionsSeeded
  <1>5. CASE d.revision = 2
    <2>1. CanCreate(d, RssTables) /\ e = Marked(CreateObjects(d, RssTables), 3)
      BY <1>5 DEF CanUpgrade, Upgraded, AddRssFeeds, Marked
    <2> QED
      BY <1>2, <1>5, <2>1, TablesCreated, ObjectsOfRevisions
  <1>6. CASE d.revision = 3
    <2>1. CanSeedRss(d) /\ e = Marked(SeedRss(d), 4)
      BY <1>6 DEF CanUpgrade, Upgraded, Marked
    <2> QED
      BY <1>6, <2>1, RssSeeded
  <1>7. CASE d.revision = 4
    <2>1. CanCreate(d, ChannelColumns) /\ e = Marked(CreateObjects(d, ChannelColumns), 5)
      BY <1>7 DEF CanUpgrade, Upgraded, AddChannelRssScheduling, Marked
    <2> QED
      BY <1>2, <1>7, <2>1, TablesCreated, ObjectsOfRevisions
  <1>8. CASE d.revision = 5
    <2>1. CanFixRssFeedUrls(d) /\ e = Marked(FixRssFeedUrls(d), 6)
      BY <1>8 DEF CanUpgrade, Upgraded, Marked
    <2> QED
      BY <1>8, <2>1, UrlsFixed
  <1>9. CASE d.revision = 6
    <2>1. CanCreate(d, RunTables) /\ e = Marked(CreateObjects(d, RunTables), 7)
      BY <1>9 DEF CanUpgrade, Upgraded, AddPipelineRuns, Marked
    <2> QED
      BY <1>2, <1>9, <2>1, TablesCreated, ObjectsOfRevisions
  <1>10. CASE d.revision = 7
    <2>1. e = Marked(SeedEonline(d), 8)
      BY <1>10 DEF Upgraded, Marked
    <2> QED
      BY <1>10, <2>1, EonlineSeeded
  <1> QED
    BY <1>1, <1>3, <1>4, <1>5, <1>6, <1>7, <1>8, <1>9, <1>10

LEMMA DowngradedMatches ==
  ASSUME NEW d, Matches(d), d.revision > 0, CanDowngrade(d), NEW e, e = Downgraded(d)
  PROVE  /\ Matches(e) /\ e.revision = d.revision - 1
         /\ d.revision > 1 => SameAccounts(d, e)
  <1>1. d.revision \in {1, 2, 3, 4, 5, 6, 7, 8}
    BY DEF Matches, DatabaseType, Revisions
  <1>2. CASE d.revision = 1
    <2>1. e = Marked(DropInitialSchema(d), 0)
      BY <1>2 DEF Downgraded, Marked
    <2> QED
      BY <1>2, <2>1, InitialDropped
  <1>3. CASE d.revision = 2
    <2>1. CanUnseedPermissions(d) /\ e = Marked(UnseedPermissions(d), 1)
      BY <1>3 DEF CanDowngrade, Downgraded, Marked
    <2> QED
      BY <1>3, <2>1, PermissionsUnseeded DEF Follows
  <1>4. CASE d.revision = 3
    <2>1. CanDrop(d, RssTables) /\ e = Marked(DropRssFeeds(d), 2)
      BY <1>4 DEF CanDowngrade, Downgraded, Marked
    <2> QED
      BY <1>4, <2>1, RssDropped DEF Follows
  <1>5. CASE d.revision = 4
    <2>1. CanUnseedRss(d) /\ e = Marked(UnseedRss(d), 3)
      BY <1>5 DEF CanDowngrade, Downgraded, Marked
    <2> QED
      BY <1>5, <2>1, RssUnseeded DEF Follows
  <1>6. CASE d.revision = 5
    <2>1. CanDrop(d, ChannelColumns) /\ e = Marked(DropObjects(d, ChannelColumns), 4)
      BY <1>6 DEF CanDowngrade, Downgraded, DropChannelRssScheduling, Marked
    <2> QED
      BY <1>6, <2>1, TablesDropped, ObjectsOfRevisions DEF Follows
  <1>7. CASE d.revision = 6
    <2>1. CanUnfixRssFeedUrls(d) /\ e = Marked(UnfixRssFeedUrls(d), 5)
      BY <1>7 DEF CanDowngrade, Downgraded, Marked
    <2> QED
      BY <1>7, <2>1, UrlsUnfixed DEF Follows
  <1>8. CASE d.revision = 7
    <2>1. CanDrop(d, RunTables) /\ e = Marked(DropObjects(d, RunTables), 6)
      BY <1>8 DEF CanDowngrade, Downgraded, DropPipelineRuns, Marked
    <2> QED
      BY <1>8, <2>1, TablesDropped, ObjectsOfRevisions DEF Follows
  <1>9. CASE d.revision = 8
    <2>1. CanUnseedEonline(d) /\ e = Marked(UnseedEonline(d), 7)
      BY <1>9 DEF CanDowngrade, Downgraded, Marked
    <2> QED
      BY <1>9, <2>1, EonlineUnseeded DEF Follows
  <1> QED
    BY <1>1, <1>2, <1>3, <1>4, <1>5, <1>6, <1>7, <1>8, <1>9
-----------------------------------------------------------------------------
(* The migrations.  Outside of one, what is written only grows.            *)
Grows(d, e) ==
  /\ e.revision = d.revision /\ d.permissions \subseteq e.permissions
  /\ d.users \subseteq e.users /\ d.profiles \subseteq e.profiles
  /\ \A u \in Users : d.held[u] \subseteq e.held[u]

LEMMA NobodyMigrates ==
  ASSUME AccountsInv, sync.pc # "idle" \/ \E c \in Registrations : call[c].pc \notin Ended
  PROVE  ~Migrating
  BY DEF AccountsInv, SchemaInv

LEMMA BeginKeeps ==
  ASSUME AccountsInv, NEW to \in Revisions, BeginMigration(to)
  PROVE  AccountsInv'
  <1>1. /\ \A c \in Registrations : call[c].pc \in Ended
        /\ draft' = db /\ target' = to /\ failed' = FALSE
        /\ UNCHANGED <<release, db, call>> /\ sync' = IdleSync
    BY DEF BeginMigration, Begin
  <1>2. SchemaInv'
    <2>1. sync'.pc = "idle"
      BY <1>1 DEF IdleSync
    <2> QED
      BY <1>1, <2>1 DEF AccountsInv, SchemaInv
  <1>3. CallsInv'
    BY <1>1 DEF AccountsInv, CallsInv, CallSound
  <1>4. SyncInv'
    <2>1. IdleSync \in SyncType
      BY DEF IdleSync, SyncType
    <2>2. IdleSync.pc = "idle" /\ IdleSync.todo = {}
      BY DEF IdleSync
    <2> QED
      BY <1>1, <2>1, <2>2 DEF SyncInv
  <1> QED
    BY <1>2, <1>3, <1>4 DEF AccountsInv

(* A step of a migration that is not its last.                             *)
LEMMA DraftKeeps ==
  ASSUME AccountsInv, Migrating, UNCHANGED <<release, db, call, sync>>,
         target' \in Revisions, failed' \in BOOLEAN, Matches(draft'),
         \/ target' = db.revision
         \/ target' = 0
         \/ draft'.users = db.users /\ draft'.profiles = db.profiles /\ draft'.held = db.held
  PROVE  AccountsInv'
  <1>1. SchemaInv'
    BY DEF AccountsInv, SchemaInv, Migrating
  <1>2. CallsInv' /\ SyncInv'
    BY DEF AccountsInv, CallsInv, CallSound, SyncInv, Covered, Leaves
  <1> QED
    BY <1>1, <1>2 DEF AccountsInv

LEMMA RollbackKeeps ==
  ASSUME AccountsInv, Migrating, NEW f \in BOOLEAN, Rollback(f), UNCHANGED <<call, sync>>
  PROVE  AccountsInv'
  <1>1. db.revision \in Revisions
    BY DEF AccountsInv, SchemaInv, Matches, DatabaseType
  <1>2. Matches(draft')
    BY EmptyMatches DEF Rollback
  <1> QED
    BY <1>1, <1>2, DraftKeeps DEF Rollback

LEMMA UpgradeKeeps ==
  ASSUME AccountsInv, Upgrade, UNCHANGED <<call, sync>>
  PROVE  AccountsInv'
  <1>1. Migrating /\ draft.revision < target /\ target \in Revisions /\ Matches(draft)
    BY DEF Upgrade, AccountsInv, SchemaInv
  <1>2. CASE Rollback(TRUE)
    BY <1>1, <1>2, RollbackKeeps
  <1>3. CASE ~Rollback(TRUE)
    <2>1. CanUpgrade(draft) /\ draft' = Upgraded(draft) /\ UNCHANGED <<release, db, target, failed>>
      BY <1>3 DEF Upgrade
    <2>2. draft.revision < 8 /\ target # 0
      BY <1>1 DEF Revisions, Matches, DatabaseType
    <2>3. PICK d, e : d = draft /\ e = draft'
      OBVIOUS
    <2>4. Follows(d, e, d.revision + 1)
      BY <1>1, <2>1, <2>2, <2>3, UpgradedFollows
    <2>5. Matches(draft') /\ draft'.users = draft.users /\ draft'.profiles = draft.profiles
          /\ draft'.held = draft.held
      BY <2>3, <2>4 DEF Follows, SameAccounts
    <2> QED
      BY <1>1, <2>1, <2>2, <2>5, DraftKeeps DEF AccountsInv, SchemaInv
  <1> QED
    BY <1>2, <1>3

LEMMA DowngradeKeeps ==
  ASSUME AccountsInv, Downgrade, UNCHANGED <<call, sync>>
  PROVE  AccountsInv'
  <1>1. Migrating /\ draft.revision > target /\ target \in Revisions /\ Matches(draft)
    BY DEF Downgrade, AccountsInv, SchemaInv
  <1>2. CASE Rollback(TRUE)
    BY <1>1, <1>2, RollbackKeeps
  <1>3. CASE ~Rollback(TRUE)
    <2>1. CanDowngrade(draft) /\ draft' = Downgraded(draft)
          /\ UNCHANGED <<release, db, target, failed>>
      BY <1>3 DEF Downgrade
    <2>2. draft.revision > 0 /\ (draft.revision > 1 \/ target = 0)
      BY <1>1 DEF Revisions, Matches, DatabaseType
    <2>3. PICK d, e : d = draft /\ e = draft'
      OBVIOUS
    <2>4. Matches(e) /\ (d.revision > 1 => SameAccounts(d, e))
      BY <1>1, <2>1, <2>2, <2>3, DowngradedMatches
    <2>5. Matches(draft')
      BY <2>3, <2>4
    <2>6. target = 0 \/ /\ draft'.users = draft.users /\ draft'.profiles = draft.profiles
                        /\ draft'.held = draft.held
      BY <2>2, <2>3, <2>4 DEF SameAccounts
    <2> QED
      BY <1>1, <2>1, <2>5, <2>6, DraftKeeps DEF AccountsInv, SchemaInv
  <1> QED
    BY <1>2, <1>3

LEMMA StopKeeps ==
  ASSUME AccountsInv, StopMigration, UNCHANGED <<call, sync>>
  PROVE  AccountsInv'
  BY RollbackKeeps DEF StopMigration

LEMMA DeployKeeps ==
  ASSUME AccountsInv, DeployCurrent, UNCHANGED <<call, sync>>
  PROVE  AccountsInv'
  <1>1. release' = "current" /\ UNCHANGED <<db, draft, target, failed>>
    BY DEF DeployCurrent, migration
  <1>2. SchemaInv'
    BY <1>1 DEF AccountsInv, SchemaInv, Migrating, Releases
  <1>3. CallsInv'
    BY <1>1 DEF AccountsInv, CallsInv, CallSound
  <1>4. SyncInv'
    BY <1>1 DEF AccountsInv, SyncInv, Covered, Leaves
  <1> QED
    BY <1>2, <1>3, <1>4 DEF AccountsInv

LEMMA CommitMigrationKeeps ==
  ASSUME AccountsInv, CommitMigration
  PROVE  AccountsInv'
  <1>1. /\ Migrating /\ draft.revision = target /\ db' = draft /\ draft' = Empty
        /\ UNCHANGED <<release, target, failed, sync>>
        /\ call' = IF target = 0 THEN [c \in Registrations |-> IdleCall] ELSE call
    BY DEF CommitMigration, EndMigration
  <1>2. Matches(db') /\ Matches(draft')
    BY <1>1, EmptyMatches DEF AccountsInv, SchemaInv
  <1>3. SchemaInv'
    BY <1>1, <1>2 DEF AccountsInv, SchemaInv, Migrating
  <1>4. CallsInv'
    <2>1. CASE target = 0
      <3>1. IdleCall \in CallType /\ IdleCall.pc = "idle"
        BY DEF IdleCall, CallType, Ended
      <3>2. call' \in [Registrations -> CallType] /\ \A c \in Registrations : call'[c] = IdleCall
        BY <1>1, <2>1, <3>1
      <3>3. db'.users = {}
        BY <1>1, <1>2, <2>1 DEF Matches, UsersMatch
      <3> QED
        BY <3>1, <3>2, <3>3 DEF CallsInv, CallSound, Passed, Ended
    <2>2. CASE target # 0
      <3>1. call' = call /\ db'.users = db.users /\ db'.profiles = db.profiles /\ db'.held = db.held
            /\ \A c \in Registrations : call[c].pc \in Ended
        BY <1>1, <2>2 DEF AccountsInv, SchemaInv
      <3>2. \A c \in Registrations : CallSound(call[c], db')
        BY <3>1 DEF AccountsInv, CallsInv, CallSound, Ended
      <3> QED
        BY <3>1, <3>2 DEF AccountsInv, CallsInv
    <2> QED
      BY <2>1, <2>2
  <1>5. SyncInv'
    BY <1>1 DEF AccountsInv, SchemaInv, SyncInv
  <1> QED
    BY <1>3, <1>4, <1>5 DEF AccountsInv
-----------------------------------------------------------------------------
(* What the API and the script write.                                      *)
LEMMA WriteKeepsSchema ==
  ASSUME AccountsInv, ~Migrating, UNCHANGED <<release, migration>>, Matches(db'), Grows(db, db')
  PROVE  SchemaInv'
  BY DEF AccountsInv, SchemaInv, Migrating, migration, Grows

LEMMA GrowsItself == ASSUME NEW d PROVE Grows(d, d)
  BY DEF Grows

LEMMA SoundStays ==
  ASSUME NEW t \in CallType, NEW d, NEW e, CallSound(t, d), d.users \subseteq Users, Grows(d, e)
  PROVE  CallSound(t, e)
  BY DEF CallSound, Grows, Passed

(* A step of a registration.                                               *)
LEMMA CallStep ==
  ASSUME AccountsInv, NEW c \in Registrations, NEW t \in CallType,
         call' = [call EXCEPT ![c] = t], Grows(db, db'), CallSound(t, db'),
         call[c].pc \in Passed \cup {"lost", "error"} =>
           t.email = call[c].email /\ t.pc \in Passed \cup {"lost", "error"},
         t.pc \in Passed /\ call[c].pc \notin Passed =>
           \A q \in Registrations \ {c} : call[q].pc \in Passed => call[q].email # t.email,
         \A u \in db'.users : u \in db.users \/ (u = t.email /\ t.pc \in Passed)
  PROVE  CallsInv'
  <1>1. call' \in [Registrations -> CallType] /\ call'[c] = t
        /\ \A q \in Registrations \ {c} : call'[q] = call[q]
    BY DEF AccountsInv, CallsInv
  <1>2. ASSUME NEW q \in Registrations PROVE CallSound(call'[q], db')
    <2>1. CASE q = c
      BY <1>1, <2>1
    <2>2. CASE q # c
      <3>1. PICK s \in CallType : s = call[q]
        BY DEF AccountsInv, CallsInv
      <3>2. CallSound(s, db) /\ db.users \subseteq Users
        BY <3>1 DEF AccountsInv, CallsInv, SchemaInv, Matches, DatabaseType
      <3> QED
        BY <1>1, <2>2, <3>1, <3>2, SoundStays
    <2> QED
      BY <2>1, <2>2
  <1>3. ASSUME NEW q \in Registrations, NEW s \in Registrations,
               call'[q].pc \in Passed, call'[s].pc \in Passed, call'[q].email = call'[s].email
        PROVE  q = s
    BY <1>1, <1>3 DEF AccountsInv, CallsInv
  <1>4. ASSUME NEW u \in db'.users
        PROVE  \E q \in Registrations :
                 call'[q].email = u /\ call'[q].pc \in Passed \cup {"lost", "error"}
    <2>1. CASE u \in db.users
      <3>1. PICK q \in Registrations :
              call[q].email = u /\ call[q].pc \in Passed \cup {"lost", "error"}
        BY <2>1 DEF AccountsInv, CallsInv
      <3> QED
        BY <1>1, <3>1
    <2>2. CASE u = t.email /\ t.pc \in Passed
      BY <1>1, <2>2
    <2> QED
      BY <2>1, <2>2
  <1> QED
    BY <1>1, <1>2, <1>3, <1>4 DEF CallsInv

(* No step of a registration.                                              *)
LEMMA CallsUnmoved ==
  ASSUME AccountsInv, UNCHANGED call, Grows(db, db'), db'.users = db.users
  PROVE  CallsInv'
  <1>1. ASSUME NEW q \in Registrations PROVE CallSound(call[q], db')
    <2>1. PICK s \in CallType : s = call[q]
      BY DEF AccountsInv, CallsInv
    <2>2. CallSound(s, db) /\ db.users \subseteq Users
      BY <2>1 DEF AccountsInv, CallsInv, SchemaInv, Matches, DatabaseType
    <2> QED
      BY <2>1, <2>2, SoundStays
  <1> QED
    BY <1>1 DEF AccountsInv, CallsInv

(* No step of the script: a user whom it leaves to a registration is still *)
(* left to it, or has got what he lacked.                                  *)
LEMMA SyncUnmoved ==
  ASSUME AccountsInv, UNCHANGED <<sync, release>>, Grows(db, db'),
         sync.pc \in {"users", "insert", "done"} =>
           \A u \in db'.users : \/ u \in db.users /\ ~Leaves(u)
                                \/ Leaves(u)'
                                \/ Range(sync.perms) \subseteq db'.held[u]
  PROVE  SyncInv'
  <1>1. db.users \subseteq Users /\ sync \in SyncType
    BY DEF AccountsInv, SchemaInv, SyncInv, Matches, DatabaseType
  <1>2. ASSUME sync.pc \in {"users", "insert", "done"}, NEW u \in db'.users PROVE Covered(u)'
    <2>1. CASE u \in db.users /\ ~Leaves(u)
      <3>1. Covered(u) /\ db.held[u] \subseteq db'.held[u]
        BY <1>1, <1>2, <2>1 DEF AccountsInv, SyncInv, Grows
      <3> QED
        BY <2>1, <3>1 DEF Covered
    <2>2. CASE Leaves(u)' \/ Range(sync.perms) \subseteq db'.held[u]
      BY <2>2 DEF Covered
    <2> QED
      BY <1>2, <2>1, <2>2
  <1> QED
    BY <1>1, <1>2 DEF AccountsInv, SyncInv, Grows

(* A write that leaves the accounts alone.                                 *)
LEMMA OtherWriteKeeps ==
  ASSUME AccountsInv, ~Migrating, UNCHANGED <<release, migration, call, sync>>, Matches(db'),
         db'.revision = db.revision, db.permissions \subseteq db'.permissions,
         db'.users = db.users, db'.profiles = db.profiles, db'.held = db.held
  PROVE  AccountsInv'
  <1>1. Grows(db, db')
    BY DEF Grows
  <1>2. \A u : Leaves(u)' <=> Leaves(u)
    BY DEF Leaves
  <1> QED
    BY <1>1, <1>2, WriteKeepsSchema, CallsUnmoved, SyncUnmoved DEF AccountsInv
-----------------------------------------------------------------------------
(* register_user.                                                          *)
LEMMA CallFieldsTyped ==
  ASSUME NEW t \in CallType
  PROVE  /\ \A x \in Ended \cup {"user", "profile", "read", "assign"} :
              [t EXCEPT !.pc = x] \in CallType
         /\ \A x \in Users : [t EXCEPT !.email = x] \in CallType
         /\ \A x \in SUBSET Permission : [t EXCEPT !.perms = x] \in CallType
  BY DEF CallType

(* The database and the script stay as they are.                           *)
LEMMA OnlyCallKeeps ==
  ASSUME AccountsInv, UNCHANGED <<schemaVars, sync>>, CallsInv',
         Migrating => \A c \in Registrations : call'[c].pc \in Ended,
         sync.pc \in {"users", "insert", "done"} =>
           \A u \in db.users : Leaves(u) => Leaves(u)'
  PROVE  AccountsInv'
  <1>1. UNCHANGED <<release, db, draft, target, failed>>
    BY DEF schemaVars, migration
  <1>2. SchemaInv'
    BY <1>1 DEF AccountsInv, SchemaInv, Migrating
  <1>3. SyncInv'
    BY <1>1, SyncUnmoved, GrowsItself
  <1> QED
    BY <1>2, <1>3 DEF AccountsInv

LEMMA ServedIsInstalled ==
  ASSUME AccountsInv, Served
  PROVE  ~Migrating /\ db.revision >= 1
  <1>1. ~Migrating /\ InitialTables \subseteq db.objects
    BY DEF Served
  <1>2. db.objects = ObjectsAt(db.revision) /\ db.revision \in Revisions
    BY DEF AccountsInv, SchemaInv, Matches, ObjectsMatch, DatabaseType
  <1>3. db.revision # 0
    BY <1>1, <1>2, Apart DEF ObjectsAt, From
  <1> QED
    BY <1>1, <1>2, <1>3 DEF Revisions

(* A request that ends without an account, or without its last step.       *)
LEMMA AnsweredKeeps ==
  ASSUME AccountsInv, NEW c \in Registrations, NEW place \in {"conflict", "error", "lost"},
         Answers(c, place), call[c].pc \notin Ended,
         place = "conflict" => call[c].pc = "user",
         place = "error" => call[c].pc = "assign" /\ db.held[call[c].email] # {}
  PROVE  AccountsInv'
  <1>1. PICK t : t = [call[c] EXCEPT !.pc = place, !.perms = {}]
    OBVIOUS
  <1>2. call[c] \in CallType /\ place \in Ended
    BY DEF AccountsInv, CallsInv, Ended
  <1>3. t \in CallType /\ t.pc = place /\ t.email = call[c].email
    BY <1>1, <1>2 DEF CallType
  <1>4. call' = [call EXCEPT ![c] = t] /\ UNCHANGED <<schemaVars, sync>> /\ db' = db
    BY <1>1 DEF Answers, schemaVars
  <1>5. CallSound(t, db')
    BY <1>2, <1>3 DEF CallSound, Passed
  <1>6. CallsInv'
    <2>1. call[c].pc \in Passed \cup {"lost", "error"} => t.pc \in {"lost", "error"}
      BY <1>3 DEF Passed
    <2>2. t.pc \notin Passed
      BY <1>3 DEF Passed
    <2> QED
      BY <1>3, <1>4, <1>5, <2>1, <2>2, CallStep, GrowsItself
  <1>7. call' \in [Registrations -> CallType] /\ call'[c] = t
        /\ \A q \in Registrations \ {c} : call'[q] = call[q]
    BY <1>4, <1>6 DEF CallsInv, AccountsInv
  <1>8. ASSUME NEW u \in db.users, Leaves(u) PROVE Leaves(u)'
    <2>1. PICK q \in Registrations :
            /\ call[q].email = u
            /\ \/ call[q].pc = "lost"
               \/ /\ db.held[u] = {}
                  /\ \/ call[q].pc \in {"profile", "read"}
                     \/ call[q].pc = "assign" /\ Range(sync.perms) \subseteq call[q].perms
      BY <1>8 DEF Leaves
    <2>2. CASE q # c
      BY <1>4, <1>7, <2>1, <2>2 DEF Leaves
    <2>3. CASE q = c
      <3>1. place = "lost"
        BY <1>2, <2>1, <2>3 DEF Ended
      <3> QED
        BY <1>3, <1>7, <2>1, <2>3, <3>1 DEF Leaves
    <2> QED
      BY <2>2, <2>3
  <1>9. \A q \in Registrations : call[q].pc \in Ended => call'[q].pc \in Ended
    BY <1>2, <1>3, <1>7
  <1> QED
    BY <1>4, <1>6, <1>8, <1>9, OnlyCallKeeps DEF AccountsInv, SchemaInv

LEMMA LoseCallKeeps ==
  ASSUME AccountsInv, NEW c \in Registrations, LoseCall(c)
  PROVE  AccountsInv'
  BY AnsweredKeeps DEF LoseCall

LEMMA CheckEmailKeeps ==
  ASSUME AccountsInv, NEW c \in Registrations, NEW u \in Users, CheckEmail(c, u)
  PROVE  AccountsInv'
  <1>1. PICK place : place = IF u \in db.users THEN "conflict" ELSE "user"
    OBVIOUS
  <1>2. PICK t : t = [call[c] EXCEPT !.email = u, !.pc = place]
    OBVIOUS
  <1>3. /\ ~Migrating /\ db.revision >= 1 /\ call[c].pc = "idle" /\ call[c] \in CallType
        /\ place \in {"conflict", "user"}
    BY <1>1, ServedIsInstalled DEF CheckEmail, AccountsInv, CallsInv
  <1>4. t \in CallType /\ t.pc = place /\ t.email = u
    BY <1>2, <1>3 DEF CallType, Ended
  <1>5. call' = [call EXCEPT ![c] = t] /\ UNCHANGED <<schemaVars, sync>> /\ db' = db
    BY <1>1, <1>2 DEF CheckEmail, schemaVars
  <1>6. CallSound(t, db')
    BY <1>3, <1>4, <1>5 DEF CallSound, Passed, Ended
  <1>7. CallsInv'
    <2>1. call[c].pc \notin Passed \cup {"lost", "error"} /\ t.pc \notin Passed
      BY <1>3, <1>4 DEF Passed
    <2> QED
      BY <1>4, <1>5, <1>6, <2>1, CallStep, GrowsItself
  <1>8. \A q \in Registrations \ {c} : call'[q] = call[q]
    BY <1>5
  <1>9. ASSUME NEW v \in db.users, Leaves(v) PROVE Leaves(v)'
    BY <1>3, <1>5, <1>8, <1>9 DEF Leaves
  <1> QED
    BY <1>3, <1>5, <1>7, <1>9, OnlyCallKeeps

LEMMA ReadDefaultsKeeps ==
  ASSUME AccountsInv, NEW c \in Registrations, ReadDefaults(c)
  PROVE  AccountsInv'
  <1>1. PICK new : new = Known \cap db.permissions
    OBVIOUS
  <1>2. PICK t : t = [call[c] EXCEPT !.perms = new, !.pc = "assign"]
    OBVIOUS
  <1>3. /\ call[c].pc = "read" /\ call[c] \in CallType /\ CallSound(call[c], db)
        /\ new \in SUBSET Permission
    BY <1>1, KnownPermissions DEF ReadDefaults, AccountsInv, CallsInv
  <1>4. ~Migrating
    <2>1. call[c].pc \notin Ended
      BY <1>3 DEF Ended
    <2> QED
      BY <2>1, NobodyMigrates
  <1>5. t \in CallType /\ t.pc = "assign" /\ t.email = call[c].email /\ t.perms = new
    BY <1>2, <1>3 DEF CallType
  <1>6. call' = [call EXCEPT ![c] = t] /\ UNCHANGED <<schemaVars, sync>> /\ db' = db
    BY <1>1, <1>2 DEF ReadDefaults, DefaultPermissions, schemaVars
  <1>7. CallSound(t, db')
    BY <1>1, <1>3, <1>5, <1>6 DEF CallSound, Passed, Ended
  <1>8. CallsInv'
    <2>1. call[c].pc \in Passed /\ t.pc \in Passed
      BY <1>3, <1>5 DEF Passed
    <2> QED
      BY <1>5, <1>6, <1>7, <2>1, CallStep, GrowsItself
  <1>9. call'[c] = t /\ \A q \in Registrations \ {c} : call'[q] = call[q]
    BY <1>6 DEF AccountsInv, CallsInv
  <1>10. ASSUME sync.pc \in {"users", "insert", "done"}, NEW u \in db.users, Leaves(u)
         PROVE  Leaves(u)'
    <2>1. PICK q \in Registrations :
            /\ call[q].email = u
            /\ \/ call[q].pc = "lost"
               \/ /\ db.held[u] = {}
                  /\ \/ call[q].pc \in {"profile", "read"}
                     \/ call[q].pc = "assign" /\ Range(sync.perms) \subseteq call[q].perms
      BY <1>10 DEF Leaves
    <2>2. CASE q # c
      BY <1>6, <1>9, <2>1, <2>2 DEF Leaves
    <2>3. CASE q = c
      <3>1. db.held[u] = {}
        BY <1>3, <2>1, <2>3
      <3>2. Range(sync.perms) \subseteq db.permissions /\ db.permissions \subseteq Permission
            /\ release = "current"
        BY <1>10 DEF AccountsInv, SyncInv, SchemaInv, Matches, DatabaseType
      <3>3. Known = Permission
        BY <3>2 DEF Known
      <3>4. Range(sync.perms) \subseteq t.perms
        BY <1>1, <1>5, <3>2, <3>3
      <3> QED
        BY <1>5, <1>6, <1>9, <2>1, <2>3, <3>1, <3>4 DEF Leaves
    <2> QED
      BY <2>2, <2>3
  <1> QED
    BY <1>4, <1>6, <1>8, <1>10, OnlyCallKeeps

(* The row of the user, which no other request has made.                   *)
LEMMA CreateUserKeeps ==
  ASSUME AccountsInv, NEW c \in Registrations, CreateUser(c)
  PROVE  AccountsInv'
  <1>1. /\ call[c].pc = "user" /\ call[c] \in CallType /\ call[c].pc \notin Ended
        /\ call[c].email \in Users /\ db.revision >= 1
    <2>1. call[c].pc = "user" /\ call[c].pc \notin Ended
      BY DEF CreateUser, Ended
    <2> QED
      BY <2>1 DEF AccountsInv, CallsInv, CallSound
  <1>2. CASE call[c].email \in db.users
    BY <1>1, <1>2, AnsweredKeeps DEF CreateUser
  <1>3. CASE call[c].email \notin db.users
    <2>1. PICK u : u = call[c].email
      OBVIOUS
    <2>2. PICK d \in DatabaseType : d = db
      BY DEF AccountsInv, SchemaInv, Matches
    <2>3. PICK e : e = [d EXCEPT !.users = d.users \cup {u}]
      OBVIOUS
    <2>4. /\ db' = e /\ UNCHANGED <<release, migration, sync>>
          /\ call' = [call EXCEPT ![c].pc = "profile"]
      BY <1>3, <2>1, <2>2, <2>3 DEF CreateUser, Write, CallGoes
    <2>5. u \in Users /\ u \notin d.users /\ d.revision >= 1
      BY <1>1, <1>3, <2>1, <2>2
    <2>6. /\ e \in DatabaseType /\ e.users = d.users \cup {u} /\ e.revision = d.revision
          /\ e.objects = d.objects /\ e.permissions = d.permissions /\ SameFeeds(d, e)
          /\ e.profiles = d.profiles /\ e.held = d.held
      BY <2>3, <2>5 DEF DatabaseType, SameFeeds
    <2>7. Matches(d) /\ ~Migrating
      BY <1>1, <2>2, NobodyMigrates DEF AccountsInv, SchemaInv
    <2>8. Matches(e)
      BY <2>5, <2>6, <2>7 DEF Matches, ObjectsMatch, FeedsMatch, OnlyAt, Taken, SameFeeds,
                              PermissionsMatch, UsersMatch
    <2>9. Grows(db, db')
      BY <2>2, <2>4, <2>6 DEF Grows
    <2>10. SchemaInv'
      BY <2>4, <2>7, <2>8, <2>9, WriteKeepsSchema
    <2>11. PICK t : t = [call[c] EXCEPT !.pc = "profile"]
      OBVIOUS
    <2>12. t \in CallType /\ t.pc = "profile" /\ t.email = u
      BY <1>1, <2>1, <2>11 DEF CallType
    <2>13. call' = [call EXCEPT ![c] = t]
      BY <2>4, <2>11 DEF AccountsInv, CallsInv
    <2>14. CallSound(t, db')
      BY <2>4, <2>5, <2>6, <2>12 DEF CallSound, Passed, Ended
    <2>15. CallsInv'
      <3>1. call[c].pc \notin Passed \cup {"lost", "error"} /\ t.pc \in Passed
        BY <1>1, <2>12 DEF Passed
      <3>2. \A q \in Registrations : call[q].pc \in Passed => call[q].email # u
        BY <1>3, <2>1 DEF AccountsInv, CallsInv, CallSound
      <3>3. \A v \in db'.users : v \in db.users \/ v = u
        BY <2>2, <2>4, <2>6
      <3> QED
        BY <2>9, <2>12, <2>13, <2>14, <3>1, <3>2, <3>3, CallStep
    <2>16. call'[c] = t /\ \A q \in Registrations \ {c} : call'[q] = call[q]
      BY <2>13 DEF AccountsInv, CallsInv
    <2>17. ASSUME NEW v \in db'.users PROVE (v \in db.users /\ ~Leaves(v)) \/ Leaves(v)'
      <3>1. CASE v = u
        <4>1. db'.held[u] = {}
          BY <2>4, <2>5, <2>6, <2>7 DEF Matches, UsersMatch
        <4> QED
          BY <2>12, <2>16, <3>1, <4>1 DEF Leaves
      <3>2. CASE v # u
        <4>1. Leaves(v) => Leaves(v)'
          BY <1>1, <2>2, <2>4, <2>6, <2>16 DEF Leaves
        <4> QED
          BY <2>2, <2>4, <2>6, <2>17, <3>2, <4>1
      <3> QED
        BY <3>1, <3>2
    <2>18. SyncInv'
      BY <2>4, <2>9, <2>17, SyncUnmoved
    <2> QED
      BY <2>10, <2>15, <2>18 DEF AccountsInv
  <1> QED
    BY <1>2, <1>3

LEMMA CreateProfileKeeps ==
  ASSUME AccountsInv, NEW c \in Registrations, CreateProfile(c)
  PROVE  AccountsInv'
  <1>1. /\ call[c].pc = "profile" /\ call[c] \in CallType /\ call[c].pc \notin Ended
        /\ call[c].email \in db.users /\ db.revision >= 1
    <2>1. call[c].pc = "profile" /\ call[c].pc \notin Ended /\ call[c].pc \in Passed
      BY DEF CreateProfile, Ended, Passed
    <2> QED
      BY <2>1 DEF AccountsInv, CallsInv, CallSound
  <1>2. PICK u : u = call[c].email
    OBVIOUS
  <1>3. PICK d \in DatabaseType : d = db
    BY DEF AccountsInv, SchemaInv, Matches
  <1>4. PICK e : e = [d EXCEPT !.profiles = d.profiles \cup {u}]
    OBVIOUS
  <1>5. /\ db' = e /\ UNCHANGED <<release, migration, sync>>
        /\ call' = [call EXCEPT ![c].pc = "read"]
    BY <1>2, <1>3, <1>4 DEF CreateProfile, Write, CallGoes
  <1>6. /\ e \in DatabaseType /\ e.profiles = d.profiles \cup {u} /\ e.revision = d.revision
        /\ e.objects = d.objects /\ e.permissions = d.permissions /\ SameFeeds(d, e)
        /\ e.users = d.users /\ e.held = d.held
    <2>1. u \in Users
      BY <1>1, <1>2, <1>3 DEF DatabaseType
    <2> QED
      BY <1>4, <2>1 DEF DatabaseType, SameFeeds
  <1>7. Matches(d) /\ ~Migrating
    BY <1>1, <1>3, NobodyMigrates DEF AccountsInv, SchemaInv
  <1>8. Matches(e)
    BY <1>1, <1>2, <1>3, <1>6, <1>7 DEF Matches, ObjectsMatch, FeedsMatch, OnlyAt, Taken, SameFeeds,
                                        PermissionsMatch, UsersMatch
  <1>9. Grows(db, db')
    BY <1>3, <1>5, <1>6 DEF Grows
  <1>10. SchemaInv'
    BY <1>5, <1>7, <1>8, <1>9, WriteKeepsSchema
  <1>11. PICK t : t = [call[c] EXCEPT !.pc = "read"]
    OBVIOUS
  <1>12. t \in CallType /\ t.pc = "read" /\ t.email = u
    BY <1>1, <1>2, <1>11 DEF CallType
  <1>13. call' = [call EXCEPT ![c] = t]
    BY <1>5, <1>11 DEF AccountsInv, CallsInv
  <1>14. CallSound(t, db')
    <2>1. u \in Users
      BY <1>1, <1>2, <1>3 DEF DatabaseType
    <2> QED
      BY <1>1, <1>2, <1>3, <1>5, <1>6, <1>12, <2>1 DEF CallSound, Passed
  <1>15. CallsInv'
    <2>1. call[c].pc \in Passed /\ t.pc \in Passed
      BY <1>1, <1>12 DEF Passed
    <2> QED
      BY <1>2, <1>3, <1>5, <1>6, <1>9, <1>12, <1>13, <1>14, <2>1, CallStep
  <1>16. call'[c] = t /\ \A q \in Registrations \ {c} : call'[q] = call[q]
    BY <1>13 DEF AccountsInv, CallsInv
  <1>17. ASSUME NEW v, Leaves(v) PROVE Leaves(v)'
    BY <1>1, <1>2, <1>3, <1>5, <1>6, <1>12, <1>16, <1>17 DEF Leaves
  <1>18. SyncInv'
    BY <1>3, <1>5, <1>6, <1>9, <1>17, SyncUnmoved
  <1> QED
    BY <1>10, <1>15, <1>18 DEF AccountsInv

(* Permissions granted to a user: by a registration or by the script.      *)
GrantedTo(d, u, perms) == [d EXCEPT !.held[u] = d.held[u] \cup perms]
LEMMA GrantedFields ==
  ASSUME NEW d, Matches(d), NEW u \in d.users, NEW perms, perms \subseteq d.permissions,
         NEW e, e = GrantedTo(d, u, perms)
  PROVE  /\ Matches(e) /\ Grows(d, e) /\ e.users = d.users /\ e.profiles = d.profiles
         /\ e.held[u] = d.held[u] \cup perms
         /\ \A v \in Users \ {u} : e.held[v] = d.held[v]
  <1>1. d \in DatabaseType /\ u \in Users
    BY DEF Matches, DatabaseType
  <1>2. PICK held : held = [d.held EXCEPT ![u] = d.held[u] \cup perms]
    OBVIOUS
  <1>3. /\ held \in [Users -> SUBSET Permission] /\ held[u] = d.held[u] \cup perms
        /\ \A v \in Users \ {u} : held[v] = d.held[v]
    <2>1. perms \subseteq Permission /\ d.held \in [Users -> SUBSET Permission]
      BY <1>1 DEF DatabaseType
    <2> QED
      BY <1>1, <1>2, <2>1
  <1>4. e = [d EXCEPT !.held = held]
    BY <1>1, <1>2 DEF DatabaseType, GrantedTo
  <1>5. /\ e \in DatabaseType /\ e.revision = d.revision /\ e.objects = d.objects
        /\ e.permissions = d.permissions /\ SameFeeds(d, e) /\ e.users = d.users
        /\ e.profiles = d.profiles /\ e.held = held
    BY <1>1, <1>3, <1>4 DEF DatabaseType, SameFeeds
  <1>6. ObjectsMatch(e) /\ FeedsMatch(e)
    BY <1>5 DEF Matches, ObjectsMatch, FeedsMatch, OnlyAt, Taken, SameFeeds
  <1>7. PermissionsMatch(e) /\ UsersMatch(e)
    <2>1. \A v \in Users : e.held[v] \subseteq e.permissions
      BY <1>3, <1>5 DEF Matches, PermissionsMatch
    <2>2. \A v \in Users \ e.users : e.held[v] = {}
      BY <1>3, <1>5 DEF Matches, UsersMatch
    <2> QED
      BY <1>5, <2>1, <2>2 DEF Matches, PermissionsMatch, UsersMatch
  <1>8. Grows(d, e)
    BY <1>3, <1>5 DEF Grows
  <1> QED
    BY <1>3, <1>5, <1>6, <1>7, <1>8 DEF Matches

LEMMA AssignPermissionsKeeps ==
  ASSUME AccountsInv, NEW c \in Registrations, AssignPermissions(c)
  PROVE  AccountsInv'
  <1>1. /\ call[c].pc = "assign" /\ call[c] \in CallType /\ call[c].pc \notin Ended
        /\ call[c].email \in db.users /\ call[c].email \in db.profiles
        /\ call[c].perms \subseteq db.permissions
    <2>1. call[c].pc = "assign" /\ call[c].pc \notin Ended /\ call[c].pc \in Passed
      BY DEF AssignPermissions, Ended, Passed
    <2> QED
      BY <2>1 DEF AccountsInv, CallsInv, CallSound
  <1>2. PICK u, perms : u = call[c].email /\ perms = call[c].perms
    OBVIOUS
  <1>3. CASE db.held[u] \cap perms # {}
    <2>1. Answers(c, "error") /\ db.held[u] # {}
      BY <1>2, <1>3 DEF AssignPermissions
    <2> QED
      BY <1>1, <1>2, <2>1, AnsweredKeeps
  <1>4. CASE db.held[u] \cap perms = {}
    <2>1. PICK d \in DatabaseType : d = db
      BY DEF AccountsInv, SchemaInv, Matches
    <2>2. PICK e : e = GrantedTo(d, u, perms)
      OBVIOUS
    <2>3. /\ db' = e /\ UNCHANGED <<release, migration, sync>>
          /\ call' = [call EXCEPT ![c].pc = "created"]
      BY <1>2, <1>4, <2>1, <2>2 DEF AssignPermissions, Write, CallGoes, GrantedTo
    <2>4. Matches(d) /\ ~Migrating
      BY <1>1, <2>1, NobodyMigrates DEF AccountsInv, SchemaInv
    <2>5. /\ Matches(e) /\ Grows(d, e) /\ e.users = d.users /\ e.profiles = d.profiles
          /\ e.held[u] = d.held[u] \cup perms
          /\ \A v \in Users \ {u} : e.held[v] = d.held[v]
      <3>1. u \in d.users /\ perms \subseteq d.permissions
        BY <1>1, <1>2, <2>1
      <3> QED
        BY <2>2, <2>4, <3>1, GrantedFields
    <2>6. SchemaInv' /\ Grows(db, db')
      BY <2>1, <2>3, <2>4, <2>5, WriteKeepsSchema
    <2>7. PICK t : t = [call[c] EXCEPT !.pc = "created"]
      OBVIOUS
    <2>8. t \in CallType /\ t.pc = "created" /\ t.email = u /\ t.perms = perms
      BY <1>1, <1>2, <2>7 DEF CallType, Ended
    <2>9. call' = [call EXCEPT ![c] = t]
      BY <2>3, <2>7 DEF AccountsInv, CallsInv
    <2>10. CallSound(t, db')
      BY <1>1, <1>2, <2>1, <2>3, <2>5, <2>8 DEF CallSound, Passed, Ended
    <2>11. CallsInv'
      <3>1. call[c].pc \in Passed /\ t.pc \in Passed
        BY <1>1, <2>8 DEF Passed
      <3>2. db'.users = db.users
        BY <2>1, <2>3, <2>5
      <3> QED
        BY <1>2, <2>6, <2>8, <2>9, <2>10, <3>1, <3>2, CallStep
    <2>12. call'[c] = t /\ \A q \in Registrations \ {c} : call'[q] = call[q]
      BY <2>9 DEF AccountsInv, CallsInv
    <2>13. ASSUME NEW v \in db.users, Leaves(v)
           PROVE  Leaves(v)' \/ Range(sync.perms) \subseteq db'.held[v]
      <3>1. PICK q \in Registrations :
              /\ call[q].email = v
              /\ \/ call[q].pc = "lost"
                 \/ /\ db.held[v] = {}
                    /\ \/ call[q].pc \in {"profile", "read"}
                       \/ call[q].pc = "assign" /\ Range(sync.perms) \subseteq call[q].perms
        BY <2>13 DEF Leaves
      <3>2. CASE q = c
        BY <1>1, <1>2, <2>1, <2>3, <2>5, <3>1, <3>2
      <3>3. CASE q # c /\ call[q].pc = "lost"
        BY <2>12, <3>1, <3>3 DEF Leaves
      <3>4. CASE q # c /\ call[q].pc # "lost"
        <4>1. v # u
          <5>1. call[q].pc \in Passed /\ call[c].pc \in Passed
            BY <1>1, <3>1, <3>4 DEF Passed
          <5> QED
            BY <1>2, <3>1, <3>4, <5>1 DEF AccountsInv, CallsInv
        <4>2. v \in Users
          BY <2>1, <2>13 DEF DatabaseType
        <4>3. db'.held[v] = db.held[v]
          BY <2>1, <2>3, <2>5, <4>1, <4>2
        <4> QED
          BY <2>3, <2>12, <3>1, <3>4, <4>3 DEF Leaves
      <3> QED
        BY <3>2, <3>3, <3>4
    <2>14. SyncInv'
      <3>1. db'.users = db.users
        BY <2>1, <2>3, <2>5
      <3> QED
        BY <2>3, <2>6, <2>13, <3>1, SyncUnmoved
    <2> QED
      BY <2>6, <2>11, <2>14 DEF AccountsInv
  <1> QED
    BY <1>3, <1>4
-----------------------------------------------------------------------------
(* A feed of a user, and one that is used.                                 *)
LEMMA AddFeedKeeps ==
  ASSUME AccountsInv, NEW u \in Users, NEW url \in Urls, AddFeed(u, url)
  PROVE  AccountsInv'
  <1>1. PICK d \in DatabaseType : d = db
    BY DEF AccountsInv, SchemaInv, Matches
  <1>2. PICK new : new = [own |-> url]
    OBVIOUS
  <1>3. DOMAIN new = {"own"} /\ new["own"] = url
    BY <1>2
  <1>4. PICK e : e = InsertFeeds(d, new)
    OBVIOUS
  <1>5. /\ Served /\ FeedColumns \subseteq d.objects /\ ~Taken(d, url) /\ db' = e
        /\ UNCHANGED <<release, migration, call, sync>>
    BY <1>1, <1>2, <1>4 DEF AddFeed, Write
  <1>6. /\ e \in DatabaseType /\ e.revision = d.revision /\ e.objects = d.objects
        /\ e.permissions = d.permissions /\ SameAccounts(d, e)
        /\ \A f \in Feeds : e.url[f] = IF f \in DOMAIN new THEN new[f] ELSE d.url[f]
        /\ e.active = d.active \cup DOMAIN new /\ e.used = d.used
    <2>1. DOMAIN new \subseteq Feeds /\ \A f \in DOMAIN new : new[f] \in Urls
      BY <1>3 DEF Feeds
    <2> QED
      BY <1>4, <2>1, InsertFeedsFields
  <1>7. Matches(d) /\ ~Migrating
    BY <1>1, <1>5, ServedIsInstalled DEF AccountsInv, SchemaInv
  <1>8. d.revision \in {6, 7, 8}
    <2>1. d.objects = ObjectsAt(d.revision) /\ d.revision \in Revisions
      BY <1>7 DEF Matches, ObjectsMatch, DatabaseType
    <2>2. ~(d.revision < 6)
      BY <1>5, <2>1, Apart DEF ObjectsAt, From, Revisions
    <2> QED
      BY <2>1, <2>2 DEF Revisions
  <1>9. FeedsMatch(e)
    <2>1. {"openai", "phys", "eonline", "own"} \subseteq Feeds /\ d.used \subseteq Feeds
      BY <1>1 DEF Feeds, DatabaseType
    <2>2. /\ OnlyAt(d, "openai", "openai/news") /\ OnlyAt(d, "phys", "phys")
          /\ d.url["eonline"] \in {"none", "eonline"} /\ "phys" \notin d.active
          /\ \A f \in d.used : d.url[f] # "none"
          /\ d.revision >= 8 => Taken(d, "eonline")
          /\ d.revision < 8 => d.url["eonline"] = "none"
      BY <1>7, <1>8 DEF Matches, FeedsMatch
    <2>3. \A f \in Feeds : d.url[f] # url
      BY <1>5 DEF Taken
    <2>4. url # "openai/news" /\ url # "phys" /\ url # "none"
      BY <2>1, <2>2, <2>3 DEF OnlyAt, Urls
    <2>5. e.url["own"] = url /\ \A f \in Feeds \ {"own"} : e.url[f] = d.url[f]
      BY <1>3, <1>6, <2>1
    <2>6. d.url["own"] # "openai/news" /\ d.url["own"] # "phys"
      BY <2>1, <2>2 DEF OnlyAt
    <2>7. OnlyAt(e, "openai", "openai/news") /\ OnlyAt(e, "phys", "phys")
      BY <2>2, <2>4, <2>5 DEF OnlyAt
    <2>8. e.url["eonline"] = d.url["eonline"] /\ "phys" \notin e.active
          /\ \A f \in e.used : e.url[f] # "none"
      BY <1>3, <1>6, <2>1, <2>2, <2>4, <2>5
    <2>9. e.url["openai"] = "openai/news" /\ e.url["phys"] = "phys"
      BY <2>1, <2>7 DEF OnlyAt
    <2>10. d.revision >= 8 => Taken(e, "eonline")
      <3>1. d.url["own"] = "none"
        BY <1>1 DEF AddFeed
      <3> QED
        BY <2>2, <2>5, <3>1 DEF Taken
    <2> QED
      BY <1>6, <1>8, <2>2, <2>7, <2>8, <2>9, <2>10 DEF FeedsMatch
  <1>10. Matches(e)
    BY <1>6, <1>7, <1>9 DEF Matches, ObjectsMatch, PermissionsMatch, UsersMatch, SameAccounts
  <1> QED
    BY <1>1, <1>5, <1>6, <1>7, <1>10, OtherWriteKeeps DEF SameAccounts

LEMMA UseFeedKeeps ==
  ASSUME AccountsInv, NEW f \in Feeds, UseFeed(f)
  PROVE  AccountsInv'
  <1>1. PICK d \in DatabaseType : d = db
    BY DEF AccountsInv, SchemaInv, Matches
  <1>2. PICK e : e = [d EXCEPT !.used = d.used \cup {f}]
    OBVIOUS
  <1>3. /\ Served /\ d.url[f] # "none" /\ db' = e
        /\ UNCHANGED <<release, migration, call, sync>>
    BY <1>1, <1>2 DEF UseFeed, Write
  <1>4. /\ e \in DatabaseType /\ e.revision = d.revision /\ e.objects = d.objects
        /\ e.permissions = d.permissions /\ SameAccounts(d, e) /\ e.url = d.url
        /\ e.active = d.active /\ e.used = d.used \cup {f}
    BY <1>2 DEF DatabaseType, SameAccounts
  <1>5. Matches(d) /\ ~Migrating
    BY <1>1, <1>3, ServedIsInstalled DEF AccountsInv, SchemaInv
  <1>6. FeedsMatch(e)
    BY <1>3, <1>4, <1>5 DEF Matches, FeedsMatch, OnlyAt, Taken
  <1>7. Matches(e)
    BY <1>4, <1>5, <1>6 DEF Matches, ObjectsMatch, PermissionsMatch, UsersMatch, SameAccounts
  <1> QED
    BY <1>1, <1>3, <1>4, <1>5, <1>7, OtherWriteKeeps DEF SameAccounts
-----------------------------------------------------------------------------
(* The script.                                                             *)
LEMMA SyncFieldsTyped ==
  ASSUME NEW t \in SyncType
  PROVE  /\ \A x \in {"idle", "ensure", "users", "insert", "done"} : [t EXCEPT !.pc = x] \in SyncType
         /\ \A x \in Seq(Permission) : [t EXCEPT !.perms = x] \in SyncType
         /\ \A x \in Users \cup {"all"} : [t EXCEPT !.email = x] \in SyncType
         /\ \A x \in SUBSET Users : [t EXCEPT !.todo = x] \in SyncType
         /\ \A x \in Users \cup {"none"} : [t EXCEPT !.user = x] \in SyncType
         /\ \A x \in SUBSET Permission : [t EXCEPT !.missing = x] \in SyncType
  BY DEF SyncType

LEMMA SelectedPermissions ==
  ASSUME NEW perms \in Seq(Permission)
  PROVE  Range(perms) \subseteq Permission
  BY DEF Range

(* Only the script moves.                                                  *)
LEMMA OnlySyncKeeps ==
  ASSUME AccountsInv, UNCHANGED <<schemaVars, call>>, SyncInv', ~Migrating
  PROVE  AccountsInv'
  <1>1. UNCHANGED <<release, db, draft, target, failed>>
    BY DEF schemaVars, migration
  <1>2. SchemaInv'
    BY <1>1 DEF AccountsInv, SchemaInv, Migrating
  <1>3. CallsInv'
    BY <1>1, CallsUnmoved, GrowsItself
  <1> QED
    BY <1>2, <1>3 DEF AccountsInv

LEMMA IdleScript ==
  ASSUME AccountsInv, sync' = IdleSync
  PROVE  SyncInv'
  <1>1. IdleSync \in SyncType /\ IdleSync.pc = "idle" /\ IdleSync.todo = {}
    BY DEF IdleSync, SyncType
  <1> QED
    BY <1>1 DEF SyncInv

LEMMA IdleKeeps ==
  ASSUME AccountsInv, sync.pc # "idle", SyncGoes(IdleSync)
  PROVE  AccountsInv'
  BY IdleScript, NobodyMigrates, OnlySyncKeeps DEF SyncGoes

LEMMA StartSyncKeeps ==
  ASSUME AccountsInv, NEW perms \in Selections, NEW email \in Users \cup {"all"},
         StartSync(perms, email)
  PROVE  AccountsInv'
  <1>1. PICK idle : idle = IdleSync
    OBVIOUS
  <1>2. idle \in SyncType /\ idle.todo = {}
    BY <1>1 DEF IdleSync, SyncType
  <1>3. PICK t : t = [idle EXCEPT !.pc = "ensure", !.perms = perms, !.email = email]
    OBVIOUS
  <1>4. perms \in Seq(Permission)
    BY AccountsAssumption
  <1>5. t \in SyncType /\ t.pc = "ensure" /\ t.todo = {}
    BY <1>2, <1>3, <1>4 DEF SyncType
  <1>6. sync' = t /\ UNCHANGED <<schemaVars, call>> /\ ~Migrating /\ release' = "current"
    BY <1>1, <1>3 DEF StartSync, SyncGoes, schemaVars
  <1>7. SyncInv'
    BY <1>5, <1>6 DEF SyncInv
  <1> QED
    BY <1>6, <1>7, OnlySyncKeeps

LEMMA EnsurePermissionKeeps ==
  ASSUME AccountsInv, EnsurePermission
  PROVE  AccountsInv'
  <1>1. PICK d \in DatabaseType : d = db
    BY DEF AccountsInv, SchemaInv, Matches
  <1>2. PICK i \in DOMAIN sync.perms : Write(Seed(db, {sync.perms[i]}))
    BY DEF EnsurePermission
  <1>3. PICK p : p = sync.perms[i]
    OBVIOUS
  <1>4. sync.perms \in Seq(Permission) /\ sync.pc # "idle"
    BY DEF AccountsInv, SyncInv, SyncType, EnsurePermission, SyncIs
  <1>5. p \in Permission
    BY <1>3, <1>4
  <1>6. PICK e : e = Seed(d, {p})
    OBVIOUS
  <1>7. db' = e /\ UNCHANGED <<release, migration, call, sync>>
    BY <1>1, <1>2, <1>3, <1>6 DEF EnsurePermission, Write
  <1>8. /\ e \in DatabaseType /\ e.revision = d.revision /\ e.objects = d.objects
        /\ e.permissions = d.permissions \cup {p} /\ SameFeeds(d, e) /\ SameAccounts(d, e)
    BY <1>5, <1>6, SeedFields
  <1>9. Matches(d) /\ ~Migrating
    BY <1>1, <1>4, NobodyMigrates DEF AccountsInv, SchemaInv
  <1>10. ObjectsMatch(e) /\ FeedsMatch(e)
    BY <1>8, <1>9 DEF Matches, ObjectsMatch, FeedsMatch, OnlyAt, Taken, SameFeeds
  <1>11. PermissionsMatch(e) /\ UsersMatch(e)
    BY <1>8, <1>9 DEF Matches, PermissionsMatch, UsersMatch, SameAccounts
  <1>12. Matches(e)
    BY <1>8, <1>10, <1>11 DEF Matches
  <1> QED
    BY <1>1, <1>7, <1>8, <1>9, <1>12, OtherWriteKeeps DEF SameAccounts

LEMMA LoadUsersKeeps ==
  ASSUME AccountsInv, LoadUsers
  PROVE  AccountsInv'
  <1>1. sync.pc = "ensure" /\ sync \in SyncType /\ db.users \subseteq Users
    BY DEF LoadUsers, SyncIs, AccountsInv, SyncInv, SchemaInv, Matches, DatabaseType
  <1>2. CASE UsersToLoad = {}
    BY <1>1, <1>2, IdleKeeps DEF LoadUsers
  <1>3. CASE UsersToLoad # {}
    <2>1. PICK todo : todo = UsersToLoad
      OBVIOUS
    <2>2. todo \subseteq db.users /\ \A u \in db.users : sync.email \in {"all", u} => u \in todo
      BY <2>1 DEF UsersToLoad
    <2>3. PICK t : t = [sync EXCEPT !.pc = "users", !.todo = todo]
      OBVIOUS
    <2>4. /\ t \in SyncType /\ t.pc = "users" /\ t.todo = todo /\ t.perms = sync.perms
          /\ t.email = sync.email
      BY <1>1, <2>2, <2>3 DEF SyncType
    <2>5. sync' = t /\ UNCHANGED <<schemaVars, call>> /\ UNCHANGED <<db, release>>
      BY <1>3, <2>1, <2>3 DEF LoadUsers, SyncGoes, schemaVars
    <2>6. Range(sync.perms) \subseteq db.permissions
      BY DEF LoadUsers, Absent
    <2>7. \A u \in db.users : Covered(u)'
      BY <2>2, <2>4, <2>5 DEF Covered
    <2>8. SyncInv'
      BY <1>1, <2>2, <2>4, <2>5, <2>6, <2>7 DEF AccountsInv, SyncInv
    <2> QED
      BY <1>1, <2>5, <2>8, NobodyMigrates, OnlySyncKeeps
  <1> QED
    BY <1>2, <1>3

LEMMA ReadMissingKeeps ==
  ASSUME AccountsInv, NEW u \in Users, ReadMissing(u)
  PROVE  AccountsInv'
  <1>1. PICK missing : missing = Range(sync.perms) \ db.held[u]
    OBVIOUS
  <1>2. /\ sync.pc = "users" /\ sync \in SyncType /\ u \in sync.todo /\ u \in db.users
        /\ u # "none"
    BY AccountsAssumption DEF ReadMissing, SyncIs, AccountsInv, SyncInv
  <1>3. PICK place, user : place = (IF missing = {} THEN "users" ELSE "insert")
                        /\ user = IF missing = {} THEN "none" ELSE u
    OBVIOUS
  <1>4. PICK todo : todo = sync.todo \ {u}
    OBVIOUS
  <1>5. PICK t : t = [sync EXCEPT !.pc = place, !.todo = todo, !.user = user, !.missing = missing]
    OBVIOUS
  <1>6. \/ missing = {} /\ place = "users" /\ user = "none"
        \/ missing # {} /\ place = "insert" /\ user = u
    BY <1>3
  <1>7. missing \subseteq Permission /\ todo \subseteq Users
    BY <1>1, <1>2, <1>4, SelectedPermissions DEF SyncType
  <1>8. t \in SyncType
    <2>1. place \in {"idle", "ensure", "users", "insert", "done"} /\ user \in Users \cup {"none"}
      BY <1>6
    <2> QED
      BY <1>2, <1>5, <1>7, <2>1, SyncFieldsTyped
  <1>9. /\ t.pc = place /\ t.todo = todo /\ t.user = user /\ t.missing = missing
        /\ t.perms = sync.perms /\ t.email = sync.email
    BY <1>2, <1>5 DEF SyncType
  <1>10. sync' = t /\ UNCHANGED <<schemaVars, call>> /\ UNCHANGED <<db, release>>
    BY <1>1, <1>3, <1>4, <1>5 DEF ReadMissing, Missing, SyncGoes, schemaVars
  <1>11. ASSUME NEW v \in db.users PROVE Covered(v)'
    <2>1. CASE v = u
      BY <1>1, <1>6, <1>9, <1>10, <2>1 DEF Covered
    <2>2. CASE v # u
      <3>1. Covered(v)
        BY <1>2 DEF AccountsInv, SyncInv
      <3>2. Leaves(v) => Leaves(v)'
        BY <1>9, <1>10 DEF Leaves
      <3> QED
        BY <1>2, <1>4, <1>9, <1>10, <2>2, <3>1, <3>2 DEF Covered
    <2> QED
      BY <2>1, <2>2
  <1>12. SyncInv'
    <2>1. t.pc # "idle" /\ t.pc # "done" /\ release = "current"
      BY <1>2, <1>6, <1>9 DEF AccountsInv, SyncInv
    <2>2. t.pc = "insert" => t.user = u /\ t.missing \subseteq Range(t.perms)
                             /\ Range(t.perms) \subseteq t.missing \cup db.held[u]
      BY <1>1, <1>6, <1>9
    <2>3. t.todo \subseteq db.users /\ Range(t.perms) \subseteq db.permissions
      BY <1>2, <1>4, <1>9 DEF AccountsInv, SyncInv
    <2> QED
      BY <1>2, <1>8, <1>10, <1>11, <2>1, <2>2, <2>3 DEF SyncInv
  <1> QED
    BY <1>2, <1>10, <1>12, NobodyMigrates, OnlySyncKeeps

LEMMA InsertMissingKeeps ==
  ASSUME AccountsInv, InsertMissing
  PROVE  AccountsInv'
  <1>1. PICK u, missing : u = sync.user /\ missing = sync.missing
    OBVIOUS
  <1>2. /\ sync.pc = "insert" /\ sync \in SyncType /\ u \in db.users
        /\ missing \subseteq Range(sync.perms) /\ Range(sync.perms) \subseteq db.permissions
        /\ Range(sync.perms) \subseteq missing \cup db.held[u]
    BY <1>1 DEF InsertMissing, SyncIs, AccountsInv, SyncInv
  <1>3. CASE missing \cap db.held[u] # {}
    BY <1>1, <1>2, <1>3, IdleKeeps DEF InsertMissing
  <1>4. CASE missing \cap db.held[u] = {}
    <2>1. PICK d \in DatabaseType : d = db
      BY DEF AccountsInv, SchemaInv, Matches
    <2>2. PICK e : e = GrantedTo(d, u, missing)
      OBVIOUS
    <2>3. PICK t : t = [sync EXCEPT !.pc = "users", !.user = "none", !.missing = {}]
      OBVIOUS
    <2>4. db' = e /\ UNCHANGED <<release, migration, call>> /\ sync' = t
      BY <1>1, <1>4, <2>1, <2>2, <2>3 DEF InsertMissing, Write, GrantedTo
    <2>5. Matches(d) /\ ~Migrating
      BY <1>2, <2>1, NobodyMigrates DEF AccountsInv, SchemaInv
    <2>6. /\ Matches(e) /\ Grows(d, e) /\ e.users = d.users /\ e.profiles = d.profiles
          /\ e.held[u] = d.held[u] \cup missing
          /\ \A v \in Users \ {u} : e.held[v] = d.held[v]
      <3>1. u \in d.users /\ missing \subseteq d.permissions
        BY <1>2, <2>1
      <3> QED
        BY <2>2, <2>5, <3>1, GrantedFields
    <2>7. SchemaInv' /\ CallsInv' /\ Grows(db, db') /\ db'.users = db.users
      <3>1. Matches(db') /\ Grows(db, db') /\ db'.users = db.users
        BY <2>1, <2>4, <2>6
      <3>2. SchemaInv'
        BY <2>4, <2>5, <3>1, WriteKeepsSchema
      <3>3. CallsInv'
        BY <2>4, <3>1, CallsUnmoved
      <3> QED
        BY <3>1, <3>2, <3>3
    <2>8. /\ t \in SyncType /\ t.pc = "users" /\ t.todo = sync.todo /\ t.perms = sync.perms
          /\ t.email = sync.email
      BY <1>2, <2>3 DEF SyncType
    <2>9. ASSUME NEW v \in db'.users PROVE Covered(v)'
      <3>1. CASE v = u
        BY <1>2, <2>1, <2>4, <2>6, <2>8, <3>1 DEF Covered
      <3>2. CASE v # u
        <4>1. v \in Users /\ v \in db.users
          BY <2>1, <2>7, <2>9 DEF DatabaseType
        <4>2. Covered(v) /\ db'.held[v] = db.held[v]
          BY <1>2, <2>1, <2>4, <2>6, <3>2, <4>1 DEF AccountsInv, SyncInv
        <4>3. Leaves(v) => Leaves(v)'
          BY <2>4, <2>8, <4>2 DEF Leaves
        <4> QED
          BY <1>1, <2>4, <2>8, <3>2, <4>2, <4>3 DEF Covered
      <3> QED
        BY <3>1, <3>2
    <2>10. SyncInv'
      <3>1. release = "current" /\ sync.todo \subseteq db.users
        BY <1>2 DEF AccountsInv, SyncInv
      <3> QED
        BY <1>2, <2>4, <2>7, <2>8, <2>9, <3>1 DEF SyncInv, Grows
    <2> QED
      BY <2>7, <2>10 DEF AccountsInv
  <1> QED
    BY <1>3, <1>4

LEMMA EndSyncKeeps ==
  ASSUME AccountsInv, EndSync
  PROVE  AccountsInv'
  <1>1. PICK t : t = [sync EXCEPT !.pc = "done"]
    OBVIOUS
  <1>2. sync.pc = "users" /\ sync.todo = {} /\ sync \in SyncType
    BY DEF EndSync, SyncIs, AccountsInv, SyncInv
  <1>3. /\ t \in SyncType /\ t.pc = "done" /\ t.todo = {} /\ t.perms = sync.perms
        /\ t.email = sync.email
    BY <1>1, <1>2 DEF SyncType
  <1>4. sync' = t /\ UNCHANGED <<schemaVars, call>> /\ UNCHANGED <<db, release>>
    BY <1>1 DEF EndSync, SyncGoes, schemaVars
  <1>5. ASSUME NEW u \in db.users PROVE Covered(u)'
    <2>1. Covered(u)
      BY <1>2 DEF AccountsInv, SyncInv
    <2>2. Leaves(u) => Leaves(u)'
      BY <1>3, <1>4 DEF Leaves
    <2> QED
      BY <1>2, <1>3, <1>4, <2>1, <2>2 DEF Covered
  <1>6. SyncInv'
    BY <1>2, <1>3, <1>4, <1>5 DEF AccountsInv, SyncInv
  <1> QED
    BY <1>2, <1>4, <1>6, NobodyMigrates, OnlySyncKeeps

LEMMA KillSyncKeeps ==
  ASSUME AccountsInv, KillSync
  PROVE  AccountsInv'
  BY IdleKeeps DEF KillSync
-----------------------------------------------------------------------------
LEMMA AccountsStarts == AccountsInit => AccountsInv
  <1> SUFFICES ASSUME AccountsInit PROVE AccountsInv
    OBVIOUS
  <1>1. /\ release \in Releases /\ db = Empty /\ draft = Empty /\ target = 0 /\ failed = FALSE
        /\ call = [c \in Registrations |-> IdleCall] /\ sync = IdleSync
    BY DEF AccountsInit, SchemaInit
  <1>2. Empty.revision = 0 /\ Empty.users = {}
    BY DEF Empty
  <1>3. SchemaInv
    <2>1. Matches(db) /\ Matches(draft) /\ ~Migrating
      BY <1>1, <1>2, EmptyMatches DEF Migrating
    <2>2. target \in Revisions
      BY <1>1 DEF Revisions
    <2>3. failed \in BOOLEAN
      BY <1>1
    <2> QED
      BY <1>1, <2>1, <2>2, <2>3 DEF SchemaInv
  <1>4. CallsInv
    <2>1. IdleCall \in CallType /\ IdleCall.pc = "idle"
      BY DEF IdleCall, CallType, Ended
    <2> QED
      BY <1>1, <1>2, <2>1 DEF CallsInv, CallSound, Passed, Ended
  <1>5. SyncInv
    <2>1. IdleSync \in SyncType /\ IdleSync.pc = "idle" /\ IdleSync.todo = {}
      BY DEF IdleSync, SyncType
    <2> QED
      BY <1>1, <2>1 DEF SyncInv
  <1> QED
    BY <1>3, <1>4, <1>5 DEF AccountsInv

LEMMA AccountsSteps == AccountsInv /\ [AccountsNext]_accountVars => AccountsInv'
  <1> SUFFICES ASSUME AccountsInv, [AccountsNext]_accountVars PROVE AccountsInv'
    OBVIOUS
  <1>1. CASE UNCHANGED accountVars
    <2>1. UNCHANGED <<schemaVars, call, sync>> /\ UNCHANGED <<release, db, draft, target, failed>>
      BY <1>1 DEF accountVars, schemaVars, migration
    <2>2. SchemaInv'
      BY <2>1 DEF AccountsInv, SchemaInv, Migrating
    <2>3. CallsInv' /\ SyncInv'
      BY <2>1 DEF AccountsInv, CallsInv, CallSound, SyncInv, Covered, Leaves
    <2> QED
      BY <2>2, <2>3 DEF AccountsInv
  <1>2. CASE AccountsNext
    <2>1. CASE \E to \in Revisions : BeginMigration(to)
      BY <2>1, BeginKeeps
    <2>2. CASE (Upgrade \/ Downgrade \/ StopMigration \/ DeployCurrent) /\ UNCHANGED <<call, sync>>
      BY <2>2, UpgradeKeeps, DowngradeKeeps, StopKeeps, DeployKeeps
    <2>3. CASE CommitMigration
      BY <2>3, CommitMigrationKeeps
    <2>4. ASSUME NEW c \in Registrations,
                 \/ \E u \in Users : CheckEmail(c, u)
                 \/ CreateUser(c) \/ CreateProfile(c) \/ ReadDefaults(c) \/ AssignPermissions(c)
                 \/ LoseCall(c)
          PROVE  AccountsInv'
      BY <2>4, CheckEmailKeeps, CreateUserKeeps, CreateProfileKeeps, ReadDefaultsKeeps,
         AssignPermissionsKeeps, LoseCallKeeps
    <2>5. CASE \E u \in Users : (\E url \in Urls : AddFeed(u, url)) \/ ReadMissing(u)
      BY <2>5, AddFeedKeeps, ReadMissingKeeps
    <2>6. CASE \E f \in Feeds : UseFeed(f)
      BY <2>6, UseFeedKeeps
    <2>7. CASE \E perms \in Selections, email \in Users \cup {"all"} : StartSync(perms, email)
      BY <2>7, StartSyncKeeps
    <2>8. CASE EnsurePermission \/ LoadUsers \/ InsertMissing \/ EndSync \/ KillSync
      BY <2>8, EnsurePermissionKeeps, LoadUsersKeeps, InsertMissingKeeps, EndSyncKeeps,
         KillSyncKeeps
    <2> QED
      BY <1>2, <2>1, <2>2, <2>3, <2>4, <2>5, <2>6, <2>7, <2>8 DEF AccountsNext
  <1> QED
    BY <1>1, <1>2

(* The database and the calls have their types.                            *)
THEOREM AccountsTypesHold == AccountsSpec => []AccountsTypeOK
  <1>1. ASSUME AccountsInv PROVE AccountsTypeOK
    <2>1. ASSUME NEW d, Matches(d)
          PROVE  /\ d.revision \in Revisions
                 /\ d.permissions \subseteq Permission /\ d.url \in [Feeds -> Urls \cup {"none"}]
                 /\ d.active \subseteq Feeds /\ d.used \subseteq Feeds
                 /\ d.profiles \subseteq d.users /\ d.users \subseteq Users
                 /\ d.held \in [Users -> SUBSET d.permissions]
      BY <2>1 DEF Matches, DatabaseType, PermissionsMatch, UsersMatch
    <2>2. \A d \in {db, draft} : Matches(d)
      BY <1>1 DEF AccountsInv, SchemaInv
    <2>3. \A c \in Registrations : call[c] \in CallType
      BY <1>1 DEF AccountsInv, CallsInv
    <2>4. sync \in SyncType /\ sync.todo \subseteq db.users
      BY <1>1 DEF AccountsInv, SyncInv
    <2> QED
      BY <1>1, <2>1, <2>2, <2>3, <2>4 DEF AccountsTypeOK, AccountsInv, SchemaInv, CallType, SyncType
  <1> QED
    BY <1>1, AccountsStarts, AccountsSteps, PTL DEF AccountsSpec

(* Whatever was upgraded, downgraded, stopped or failed, and whatever the  *)
(* API and the script wrote in between, what is committed is what its      *)
(* revision says.                                                          *)
THEOREM CommittedMatches == AccountsSpec => []SchemaMatchesRevision
  <1>1. ASSUME AccountsInv PROVE SchemaMatchesRevision
    <2>1. Matches(db) /\ db.used \subseteq Feeds /\ db.revision \in Revisions
      BY <1>1 DEF AccountsInv, SchemaInv, Matches, DatabaseType
    <2> QED
      BY <2>1 DEF SchemaMatchesRevision, Matches, ObjectsMatch, ObjectsAt, From, FeedsMatch, OnlyAt,
                  PermissionsMatch, Revisions
  <1> QED
    BY <1>1, AccountsStarts, AccountsSteps, PTL DEF AccountsSpec

(* However the requests overlap, one at most gets past the creation of a   *)
(* user, and who got 201 can do what was read for him.                     *)
THEOREM RegisteredAreUsable == AccountsSpec => []RegisteredIsUsable
  <1>1. ASSUME AccountsInv PROVE RegisteredIsUsable
    <2>1. ASSUME NEW u \in Users, NEW c \in Registrations, call[c].email = u, call[c].pc = "created"
          PROVE  u \in db.profiles /\ u \in db.users /\ call[c].perms \subseteq db.held[u]
      <3>1. CallSound(call[c], db) /\ call[c].pc \in Passed
        BY <1>1, <2>1 DEF AccountsInv, CallsInv, Passed
      <3> QED
        BY <2>1, <3>1 DEF CallSound
    <2> QED
      BY <1>1, <2>1 DEF RegisteredIsUsable, AccountsInv, CallsInv, Passed, Allowed
  <1> QED
    BY <1>1, AccountsStarts, AccountsSteps, PTL DEF AccountsSpec

(* When the script has ended with 0, whom it was for has what it was for,  *)
(* those who registered while it ran included.                             *)
THEOREM SyncHasReachedEveryone == AccountsSpec => []SyncReachesEveryone
  <1>1. ASSUME AccountsInv PROVE SyncReachesEveryone
    <2>1. ASSUME sync.pc = "done", NEW u \in db.users
          PROVE  \/ sync.email \notin {"all", u}
                 \/ Range(sync.perms) \subseteq db.held[u]
                 \/ Leaves(u)
      BY <1>1, <2>1 DEF AccountsInv, SyncInv, Covered
    <2> QED
      BY <2>1 DEF SyncReachesEveryone, Leaves
  <1> QED
    BY <1>1, AccountsStarts, AccountsSteps, PTL DEF AccountsSpec

(***************************************************************************)
(*                                Platform                                 *)
(***************************************************************************)
(* Beside the others each component does what its own specification says:  *)
(* a step of theirs leaves its variables alone.  What is proved of it      *)
(* alone therefore holds of it on the platform.                            *)
THEOREM ComponentsRunAlone ==
  PlatformSpec => Spec /\ CatalogueSpec /\ LimiterSpec /\ AccountsSpec /\ OwnershipSpec
  <1>1. PlatformInit =>
          Init /\ CatalogueInit /\ LimiterInit /\ AccountsInit /\ OwnershipInit
    BY DEF PlatformInit
  <1>2. ASSUME [PlatformNext]_platformVars
        PROVE  /\ [Next]_vars
               /\ [CatalogueNext]_catalogueVars
               /\ [LimiterNext]_limiterVars
               /\ [AccountsNext]_accountVars
               /\ [OwnershipNext]_ownershipVars
    <2>1. CASE PlanningStep
      BY <2>1 DEF PlanningStep
    <2>2. CASE ScrapeStep
      BY <2>2 DEF ScrapeStep
    <2>3. CASE LimiterStep
      BY <2>3 DEF LimiterStep
    <2>4. CASE AccountsStep
      BY <2>4 DEF AccountsStep
    <2>5. CASE ChannelsStep
      BY <2>5 DEF ChannelsStep
    <2>6. CASE UNCHANGED platformVars
      BY <2>6 DEF platformVars
    <2> QED
      BY <1>2, <2>1, <2>2, <2>3, <2>4, <2>5, <2>6 DEF PlatformNext
  <1> QED
    BY <1>1, <1>2, PTL
       DEF PlatformSpec, Spec, CatalogueSpec, LimiterSpec, AccountsSpec, OwnershipSpec

(* All that is stored and at work around the pipeline has its type,        *)
(* whatever the components do beside each other.                           *)
THEOREM PlatformTypesHold == PlatformSpec => []PlatformTypes
  <1>1. /\ TypeOK /\ CatalogueTypeOK /\ LimiterTypeOK /\ AccountsTypeOK /\ OwnershipTypeOK
        => PlatformTypes
    BY DEF PlatformTypes
  <1> QED
    BY <1>1, ComponentsRunAlone, TypeCorrect, CatalogueTypesHold, LimiterTypesHold,
       AccountsTypesHold, OwnershipTypesHold, PTL
=============================================================================
