------------------------------ MODULE Accounts ------------------------------
(***************************************************************************)
(* Users and their permissions: registration through the API, the script   *)
(* add_permissions.py, and the feeds that a user with the permission adds, *)
(* on a database that alembic migrates in between.                         *)
(*                                                                         *)
(* The API and the script are on AUTOCOMMIT: each statement is a step of   *)
(* its own, and one that breaks a unique or primary key fails alone.       *)
(***************************************************************************)
EXTENDS Schema, FiniteSets

CONSTANTS
  Registrations,  \* requests to POST /auth/register
  Selections,     \* what --permission may select, as sequences
  MaxUsed         \* bound: feeds with items or grants at a time

ASSUME AccountsAssumption == /\ Users \cap {"none", "all"} = {} /\ Targets \subseteq Revisions
                             /\ Selections \subseteq Seq(Permission)

Ended == {"idle", "created", "conflict", "error", "lost"}

VARIABLES
  call,  \* of each registration: its step, its email, the permissions it read
  sync   \* the script, idle also when it has failed: its step, permissions and
         \* --email, the users still to do, the one in work and what he lacks

accountVars == <<schemaVars, call, sync>>

IdleCall == [pc |-> "idle", email |-> "none", perms |-> {}]
IdleSync == [pc |-> "idle", perms |-> <<>>, email |-> "all", todo |-> {},
             user |-> "none", missing |-> {}]

AccountsInit ==
  /\ SchemaInit
  /\ call = [c \in Registrations |-> IdleCall]
  /\ sync = IdleSync

\* The API can answer: loading a profile loads its channels, with the columns
\* that the release knows.
Served == /\ ~Migrating
          /\ InitialTables \subseteq db.objects
          /\ release = "current" => ChannelColumns \subseteq db.objects

\* The default permissions of the release that the table has.
DefaultPermissions == Known \cap db.permissions

\* get_current_user and require_permission.
Allowed(u, p) == u \in db.users /\ p \in db.held[u]
-----------------------------------------------------------------------------
(* register_user.                                                          *)

CallGoes(c, pc) == call' = [call EXCEPT ![c].pc = pc]
Answers(c, pc) ==
  /\ call' = [call EXCEPT ![c] = [@ EXCEPT !.pc = pc, !.perms = {}]]
  /\ UNCHANGED <<schemaVars, sync>>

CheckEmail(c, u) ==
  /\ Served /\ call[c].pc = "idle"
  /\ call' = [call EXCEPT ![c] = [@ EXCEPT !.email = u,
                                    !.pc = IF u \in db.users THEN "conflict" ELSE "user"]]
  /\ UNCHANGED <<schemaVars, sync>>

Write(d) == db' = d /\ UNCHANGED <<release, migration>>

\* Mutant: users.email is indexed but not unique.
CreateUserAgain(c) ==
  /\ call[c].pc = "user"
  /\ Write([db EXCEPT !.users = @ \cup {call[c].email}])
  /\ CallGoes(c, "profile") /\ UNCHANGED sync

\* users.email is unique; CrudIntegrityError is answered with 409.
CreateUser(c) ==
  LET u == call[c].email
  IN /\ call[c].pc = "user"
     /\ IF u \in db.users
        THEN Answers(c, "conflict")
        ELSE /\ Write([db EXCEPT !.users = @ \cup {u}])
             /\ CallGoes(c, "profile") /\ UNCHANGED sync

CreateProfile(c) ==
  /\ call[c].pc = "profile"
  /\ Write([db EXCEPT !.profiles = @ \cup {call[c].email}])
  /\ CallGoes(c, "read") /\ UNCHANGED sync

ReadDefaults(c) ==
  /\ call[c].pc = "read"
  /\ call' = [call EXCEPT ![c] = [@ EXCEPT !.perms = DefaultPermissions, !.pc = "assign"]]
  /\ UNCHANGED <<schemaVars, sync>>

\* One INSERT for all; IntegrityError is not caught.
AssignPermissions(c) ==
  LET u == call[c].email
  IN /\ call[c].pc = "assign"
     /\ IF db.held[u] \cap call[c].perms # {}
        THEN Answers(c, "error")
        ELSE /\ Write([db EXCEPT !.held[u] = @ \cup call[c].perms])
             /\ CallGoes(c, "created") /\ UNCHANGED sync

\* The worker process of the API ends.
LoseCall(c) == call[c].pc \notin Ended /\ Answers(c, "lost")

\* POST /rss/feeds, and a scrape or a grant that refers to a feed.
AddFeed(u, url) ==
  /\ Served /\ FeedColumns \subseteq db.objects
  /\ Allowed(u, "rss:feed:manage")
  /\ db.url["own"] = "none" /\ ~Taken(db, url)
  /\ Write(InsertFeeds(db, [own |-> url]))
  /\ UNCHANGED <<call, sync>>

UseFeed(f) ==
  /\ Served /\ FeedColumns \subseteq db.objects
  /\ db.url[f] # "none" /\ f \notin db.used
  /\ Cardinality(db.used) < MaxUsed
  /\ Write([db EXCEPT !.used = @ \cup {f}])
  /\ UNCHANGED <<call, sync>>
-----------------------------------------------------------------------------
(* scripts/add_permissions.py.                                             *)

SyncIs(pc) == sync.pc = pc
SyncGoes(s) == sync' = s /\ UNCHANGED <<schemaVars, call>>

StartSync(perms, email) ==
  /\ ~Migrating /\ InitialTables \subseteq db.objects /\ release = "current"
  /\ SyncIs("idle") \/ SyncIs("done")
  /\ SyncGoes([IdleSync EXCEPT !.pc = "ensure", !.perms = perms, !.email = email])

\* Permissions without a row yet.  They get theirs in the order of the selection.
Absent == Range(sync.perms) \ db.permissions

EnsurePermission ==
  /\ SyncIs("ensure")
  /\ \E i \in DOMAIN sync.perms :
       /\ sync.perms[i] \in Absent /\ \A j \in 1..(i - 1) : sync.perms[j] \notin Absent
       /\ Write(Seed(db, {sync.perms[i]}))
  /\ UNCHANGED <<call, sync>>

UsersToLoad == {u \in db.users : sync.email \in {"all", u}}

LoadUsers ==
  /\ SyncIs("ensure") /\ Absent = {}
  /\ SyncGoes(IF UsersToLoad = {} THEN IdleSync
              ELSE [sync EXCEPT !.pc = "users", !.todo = UsersToLoad])

\* Mutant: whoever holds permissions is taken to hold these.
MissingIfNone(u) == IF db.held[u] = {} THEN Range(sync.perms) ELSE {}

Missing(u) == Range(sync.perms) \ db.held[u]

ReadMissing(u) ==
  /\ SyncIs("users") /\ u \in sync.todo
  /\ LET missing == Missing(u)
     IN SyncGoes([sync EXCEPT !.pc = IF missing = {} THEN "users" ELSE "insert",
                              !.todo = @ \ {u},
                              !.user = IF missing = {} THEN "none" ELSE u,
                              !.missing = missing])

\* One INSERT for all; the script dies of an IntegrityError.
InsertMissing ==
  LET u == sync.user
  IN /\ SyncIs("insert")
     /\ IF sync.missing \cap db.held[u] # {}
        THEN SyncGoes(IdleSync)
        ELSE /\ Write([db EXCEPT !.held[u] = @ \cup sync.missing])
             /\ sync' = [sync EXCEPT !.pc = "users", !.user = "none", !.missing = {}]
             /\ UNCHANGED call

EndSync ==
  /\ SyncIs("users") /\ sync.todo = {}
  /\ SyncGoes([sync EXCEPT !.pc = "done"])

KillSync ==
  /\ sync.pc \in {"ensure", "users", "insert"}
  /\ SyncGoes(IdleSync)
-----------------------------------------------------------------------------
(* A migration runs with the API and the script stopped.                   *)

BeginMigration(to) ==
  /\ \A c \in Registrations : call[c].pc \in Ended
  /\ sync.pc \in {"idle", "done"}
  /\ Begin(to)
  /\ sync' = IdleSync /\ UNCHANGED call

\* At revision 0 no account is left of those that were made.
CommitMigration ==
  /\ EndMigration
  /\ call' = IF target = 0 THEN [c \in Registrations |-> IdleCall] ELSE call
  /\ UNCHANGED sync

AccountsNext ==
  \/ \E to \in Revisions : BeginMigration(to)
  \/ (Upgrade \/ Downgrade \/ StopMigration \/ DeployCurrent) /\ UNCHANGED <<call, sync>>
  \/ CommitMigration
  \/ \E c \in Registrations :
       \/ \E u \in Users : CheckEmail(c, u)
       \/ CreateUser(c) \/ CreateProfile(c) \/ ReadDefaults(c) \/ AssignPermissions(c)
       \/ LoseCall(c)
  \/ \E u \in Users : (\E url \in Urls : AddFeed(u, url)) \/ ReadMissing(u)
  \/ \E f \in Feeds : UseFeed(f)
  \/ \E perms \in Selections, email \in Users \cup {"all"} : StartSync(perms, email)
  \/ EnsurePermission \/ LoadUsers \/ InsertMissing \/ EndSync \/ KillSync

AccountsSpec == AccountsInit /\ [][AccountsNext]_accountVars
-----------------------------------------------------------------------------
(* Properties.                                                             *)

\* The database and the calls have their types.
AccountsTypeOK ==
  /\ release \in Releases /\ target \in Revisions /\ failed \in BOOLEAN
  /\ \A d \in {db, draft} :
       /\ d.revision \in Revisions
       /\ d.permissions \subseteq Permission /\ d.url \in [Feeds -> Urls \cup {"none"}]
       /\ d.active \subseteq Feeds /\ d.used \subseteq Feeds
       /\ d.profiles \subseteq d.users /\ d.users \subseteq Users
       /\ d.held \in [Users -> SUBSET d.permissions]
  /\ \A c \in Registrations :
       /\ call[c].pc \in Ended \cup {"user", "profile", "read", "assign"}
       /\ call[c].email \in Users \cup {"none"} /\ call[c].perms \subseteq Permission
  /\ sync.pc \in {"idle", "ensure", "users", "insert", "done"}
  /\ sync.todo \subseteq db.users

\* What is committed is what the revision says, after any upgrades and
\* downgrades, failed ones among them, and whatever the API and the script wrote
\* in between: the objects of the revisions up to it, with all they refer to; the
\* seeded permissions; the seeded feeds, once each, at the URL and in the state
\* that the last of the revisions gave them, and none of a later revision.
SchemaMatchesRevision ==
  LET r == db.revision
      from(n, s) == IF r >= n THEN s ELSE {}
      feed(f, url) == \A g \in Feeds : (db.url[g] = url) <=> (g = f)
  IN /\ db.objects = from(1, InitialTables) \cup from(3, RssTables) \cup
                     from(5, ChannelColumns) \cup from(6, FeedColumns) \cup
                     from(7, RunTables)
     /\ \A o \in db.objects : RefersTo(o) \subseteq db.objects
     /\ from(2, Permission \ RssPermissions) \cup from(4, RssPermissions)
          \subseteq db.permissions
     /\ r < 4      => db.url["openai"] = "none" /\ db.url["phys"] = "none"
     /\ r \in 4..5 => feed("openai", "openai/blog")
     /\ r >= 6     => feed("openai", "openai/news")
     /\ r >= 4     => feed("phys", "phys") /\ (r < 6 <=> "phys" \in db.active)
     /\ IF r >= 8 THEN Taken(db, "eonline") ELSE db.url["eonline"] = "none"
     /\ db.used \subseteq {f \in Feeds : db.url[f] # "none"}

\* However many requests ask for an email, one of them at most gets past the
\* creation of the user, and who got 201 has a profile and every permission read
\* for him from then on.  A user that no request has completed or is completing
\* is there only because an API process ended or the script was faster with a
\* permission.
RegisteredIsUsable ==
  LET By(u, pcs) == {c \in Registrations : call[c].email = u /\ call[c].pc \in pcs}
  IN \A u \in Users :
       /\ \A c, d \in By(u, {"profile", "read", "assign", "created"}) : c = d
       /\ \A c \in By(u, {"created"}) :
            u \in db.profiles /\ \A p \in call[c].perms : Allowed(u, p)
       /\ u \in db.users =>
            By(u, {"profile", "read", "assign", "created", "lost", "error"}) # {}

\* When the script has ended with 0, every user whom it was for holds every
\* permission it was for, those who registered while it ran included; left out
\* are registrations under way and those that an API process did not finish.
SyncReachesEveryone ==
  sync.pc = "done" =>
    \A u \in db.users :
      \/ sync.email \notin {"all", u}
      \/ \E c \in Registrations :
           call[c].email = u /\ call[c].pc \in {"profile", "read", "assign", "lost"}
      \/ Range(sync.perms) \subseteq db.held[u]

\* `alembic upgrade head` sets up a new database (README.md, scripts/start.sh).
FreshUpgradeSucceeds == failed => db # Empty
=============================================================================
