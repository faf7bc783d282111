------------------------------- MODULE Schema -------------------------------
(***************************************************************************)
(* The Alembic revisions of the database: the tables and columns each one  *)
(* creates, the permissions and feeds it seeds, and the way back.  One     *)
(* `alembic upgrade` or `alembic downgrade` applies its revisions in one   *)
(* transaction.  The API does not run while one does: scripts/start.sh     *)
(* starts it after `alembic upgrade head`.                                 *)
(*                                                                         *)
(* Revision 002 seeds the enum Permission of the release that executes it. *)
(* A first release, before the feeds, had no permissions for them.         *)
(***************************************************************************)
EXTENDS Naturals, Functions, Sequences

CONSTANTS
  Users,   \* the people who may register, named by their email
  Targets  \* bound: revisions, besides the head, that alembic is told to go to

RssPermissions == {"rss:feed:read", "rss:feed:manage"}

\* In the order of the enum, which lists the same.
DEFAULT_FREE_TIER_PERMISSIONS ==
  <<"user:read", "channel:create", "channel:read", "channel:update", "channel:delete",
    "platform:connect", "platform:read", "video:schedule", "video:read", "video:update",
    "video:delete", "rss:feed:read", "rss:feed:manage">>
Permission == Range(DEFAULT_FREE_TIER_PERMISSIONS)

\* The seeded feeds whose row a later revision changes, and one of a user.
Feeds == {"openai", "phys", "eonline", "own"}
Urls  == {"openai/blog", "openai/news", "phys", "eonline"}

Releases == {"first", "current"}
HeadOf(r) == IF r = "first" THEN 2 ELSE 8
Revisions == 0..8

VARIABLES
  release,    \* of the code that is deployed
  db,         \* the committed database
  draft,      \* the database as an open migration sees it
  target,     \* the revision which that migration goes to, or db's own
  failed      \* the last migration failed

migration  == <<draft, target, failed>>
schemaVars == <<release, db, migration>>

\* The tables and columns, their rows as far as another row or revision
\* depends on them.
Empty == [revision    |-> 0,
          objects     |-> {},
          permissions |-> {},                        \* names in permissions
          url         |-> [f \in Feeds |-> "none"],  \* rss_feeds; none: no row
          active      |-> {},
          used        |-> {},                        \* feeds with items or grants
          users       |-> {},
          profiles    |-> {},
          held        |-> [u \in Users |-> {}]]      \* user_permissions

SchemaInit ==
  /\ release \in Releases
  /\ db = Empty /\ draft = Empty /\ target = 0 /\ failed = FALSE
-----------------------------------------------------------------------------
(* What the revisions create, and what these refer to.                     *)

InitialTables == {"permissions", "users", "profiles", "user_permissions", "channels",
                  "platform_configs", "video_metadata", "video_publish_statuses"}
RssTables == {"rss_feeds", "rss_news_items", "channel_rss_feeds", "channel_news_consumption"}
RunTables == {"pipeline_runs"}
ChannelColumns == {"channels.scheduling_mode", "channels.rss_interval_minutes",
                   "channels.rss_max_videos_per_day", "channels.rss_last_scheduled_date"}
FeedColumns == {"rss_feeds.last_scrape_at", "rss_feeds.last_scrape_error",
                "rss_feeds.last_item_count"}

\* Foreign keys, and the tables of columns.
RefersTo(o) ==
  CASE o = "profiles"                 -> {"users"}
    [] o = "user_permissions"         -> {"users", "permissions"}
    [] o = "channels"                 -> {"profiles"}
    [] o \in {"platform_configs", "video_metadata"} -> {"channels"}
    [] o = "video_publish_statuses"   -> {"video_metadata"}
    [] o = "rss_news_items"           -> {"rss_feeds"}
    [] o = "channel_rss_feeds"        -> {"channels", "rss_feeds"}
    [] o = "channel_news_consumption" -> {"channels", "rss_news_items", "video_metadata"}
    [] o = "pipeline_runs" -> {"channels", "video_metadata", "channel_news_consumption"}
    [] o \in ChannelColumns           -> {"channels"}
    [] o \in FeedColumns              -> {"rss_feeds"}
    [] OTHER                          -> {}

CanCreate(d, new) == /\ new \cap d.objects = {}
                     /\ \A o \in new : RefersTo(o) \subseteq d.objects \cup new
CanDrop(d, old)   == /\ old \subseteq d.objects
                     /\ \A o \in d.objects \ old : RefersTo(o) \cap old = {}

CreateObjects(d, new) == [d EXCEPT !.objects = @ \cup new]
DropObjects(d, old)   == [d EXCEPT !.objects = @ \ old]

\* rss_feeds.url is unique.
Taken(d, u) == \E f \in Feeds : d.url[f] = u

\* INSERT of feeds, with their URLs.
CanInsert(d, new) == \A f \in DOMAIN new : ~Taken(d, new[f])
InsertFeeds(d, new) ==
  [d EXCEPT !.url = [f \in Feeds |-> IF f \in DOMAIN new THEN new[f] ELSE d.url[f]],
            !.active = @ \cup DOMAIN new]

\* UPDATE rss_feeds SET url = new WHERE url = old.
CanMove(d, old, new) == Taken(d, old) => ~Taken(d, new)
MoveFeed(d, old, new) ==
  [d EXCEPT !.url = [f \in Feeds |-> IF d.url[f] = old THEN new ELSE d.url[f]]]

\* DELETE FROM rss_feeds WHERE url IN urls: items and grants refer to feeds.
FeedsAt(d, urls)   == {f \in Feeds : d.url[f] \in urls}
CanDelete(d, urls) == FeedsAt(d, urls) \cap d.used = {}
DeleteFeeds(d, urls) ==
  [d EXCEPT !.url = [f \in Feeds |-> IF f \in FeedsAt(d, urls) THEN "none" ELSE d.url[f]],
            !.active = @ \ FeedsAt(d, urls)]

\* permissions.name is unique, and user_permissions refers to its rows.
CanSeed(d, perms)   == perms \cap d.permissions = {}
Seed(d, perms)      == [d EXCEPT !.permissions = @ \cup perms]
CanUnseed(d, perms) == \A u \in Users : d.held[u] \cap perms = {}
Unseed(d, perms)    == [d EXCEPT !.permissions = @ \ perms]
-----------------------------------------------------------------------------
(* The revisions: upgrade() and downgrade() of each.                       *)

InitialSchema(d)     == CreateObjects(d, InitialTables)
DropInitialSchema(d) == [Empty EXCEPT !.revision = d.revision,
                                      !.objects = d.objects \ InitialTables]

\* The enum of the release that executes the revision.
Known == IF release = "first" THEN Permission \ RssPermissions ELSE Permission
CanSeedPermissions(d)   == CanSeed(d, Known)
SeedPermissions(d)      == Seed(d, Known)
CanUnseedPermissions(d) == CanUnseed(d, Known)
UnseedPermissions(d)    == Unseed(d, Known)

AddRssFeeds(d)  == CreateObjects(d, RssTables)
DropRssFeeds(d) == [DropObjects(d, RssTables) EXCEPT !.url = Empty.url, !.active = {},
                                                      !.used = {}]

RSS_FEEDS == [openai |-> "openai/blog", phys |-> "phys"]
RssUrls   == {RSS_FEEDS[f] : f \in DOMAIN RSS_FEEDS}
CanSeedRss(d)   == CanSeed(d, RssPermissions) /\ CanInsert(d, RSS_FEEDS)
SeedRss(d)      == InsertFeeds(Seed(d, RssPermissions), RSS_FEEDS)
CanUnseedRss(d) == CanDelete(d, RssUrls) /\ CanUnseed(d, RssPermissions)
UnseedRss(d)    == Unseed(DeleteFeeds(d, RssUrls), RssPermissions)

AddChannelRssScheduling(d)  == CreateObjects(d, ChannelColumns)
DropChannelRssScheduling(d) == DropObjects(d, ChannelColumns)

CanFixRssFeedUrls(d) ==
  CanCreate(d, FeedColumns) /\ CanMove(d, "openai/blog", "openai/news")
\* Mutant: the feed that went away stays active.
FixKeepsActive(d) == MoveFeed(CreateObjects(d, FeedColumns), "openai/blog", "openai/news")

FixRssFeedUrls(d) ==
  [MoveFeed(CreateObjects(d, FeedColumns), "openai/blog", "openai/news")
     EXCEPT !.active = @ \ FeedsAt(d, {"phys"})]
CanUnfixRssFeedUrls(d) ==
  CanDrop(d, FeedColumns) /\ CanMove(d, "openai/news", "openai/blog")
UnfixRssFeedUrls(d) ==
  [DropObjects(MoveFeed(d, "openai/news", "openai/blog"), FeedColumns)
     EXCEPT !.active = @ \cup FeedsAt(d, {"phys"})]

AddPipelineRuns(d)  == CreateObjects(d, RunTables)
DropPipelineRuns(d) == DropObjects(d, RunTables)

SeedEonline(d) == IF Taken(d, "eonline") THEN d ELSE InsertFeeds(d, [eonline |-> "eonline"])
CanUnseedEonline(d) == CanDelete(d, {"eonline"})
UnseedEonline(d)    == DeleteFeeds(d, {"eonline"})

CanUpgrade(d) ==
  LET n == d.revision + 1
  IN CASE n = 1 -> CanCreate(d, InitialTables)
       [] n = 2 -> CanSeedPermissions(d)
       [] n = 3 -> CanCreate(d, RssTables)
       [] n = 4 -> CanSeedRss(d)
       [] n = 5 -> CanCreate(d, ChannelColumns)
       [] n = 6 -> CanFixRssFeedUrls(d)
       [] n = 7 -> CanCreate(d, RunTables)
       [] n = 8 -> TRUE
Upgraded(d) ==
  LET n == d.revision + 1
      up == CASE n = 1 -> InitialSchema(d)
              [] n = 2 -> SeedPermissions(d)
              [] n = 3 -> AddRssFeeds(d)
              [] n = 4 -> SeedRss(d)
              [] n = 5 -> AddChannelRssScheduling(d)
              [] n = 6 -> FixRssFeedUrls(d)
              [] n = 7 -> AddPipelineRuns(d)
              [] n = 8 -> SeedEonline(d)
  IN [up EXCEPT !.revision = n]

CanDowngrade(d) ==
  LET n == d.revision
  IN CASE n = 1 -> CanDrop(d, InitialTables)
       [] n = 2 -> CanUnseedPermissions(d)
       [] n = 3 -> CanDrop(d, RssTables)
       [] n = 4 -> CanUnseedRss(d)
       [] n = 5 -> CanDrop(d, ChannelColumns)
       [] n = 6 -> CanUnfixRssFeedUrls(d)
       [] n = 7 -> CanDrop(d, RunTables)
       [] n = 8 -> CanUnseedEonline(d)
Downgraded(d) ==
  LET n == d.revision
      down == CASE n = 1 -> DropInitialSchema(d)
                [] n = 2 -> UnseedPermissions(d)
                [] n = 3 -> DropRssFeeds(d)
                [] n = 4 -> UnseedRss(d)
                [] n = 5 -> DropChannelRssScheduling(d)
                [] n = 6 -> UnfixRssFeedUrls(d)
                [] n = 7 -> DropPipelineRuns(d)
                [] n = 8 -> UnseedEonline(d)
  IN [down EXCEPT !.revision = n - 1]
-----------------------------------------------------------------------------
(* One run of alembic.                                                     *)

Migrating == target # db.revision

\* alembic upgrade or downgrade, to a revision of the release.
Begin(to) ==
  /\ ~Migrating /\ to \in Targets \cup {HeadOf(release)}
  /\ to <= HeadOf(release) /\ to # db.revision
  /\ draft' = db /\ target' = to /\ failed' = FALSE
  /\ UNCHANGED <<release, db>>

Rollback(f) ==
  /\ draft' = Empty /\ target' = db.revision /\ failed' = f
  /\ UNCHANGED <<release, db>>

Upgrade ==
  /\ Migrating /\ draft.revision < target
  /\ \/ /\ CanUpgrade(draft)
        /\ draft' = Upgraded(draft)
        /\ UNCHANGED <<release, db, target, failed>>
     \/ ~CanUpgrade(draft) /\ Rollback(TRUE)

Downgrade ==
  /\ Migrating /\ draft.revision > target
  /\ \/ /\ CanDowngrade(draft)
        /\ draft' = Downgraded(draft)
        /\ UNCHANGED <<release, db, target, failed>>
     \/ ~CanDowngrade(draft) /\ Rollback(TRUE)

EndMigration ==
  /\ Migrating /\ draft.revision = target
  /\ db' = draft /\ draft' = Empty
  /\ UNCHANGED <<release, target, failed>>

\* The container stops; Postgres ends the transaction.
StopMigration == Migrating /\ Rollback(FALSE)

DeployCurrent ==
  /\ ~Migrating /\ release = "first"
  /\ release' = "current"
  /\ UNCHANGED <<db, migration>>
=============================================================================
