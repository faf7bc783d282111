----------------------------- MODULE MCPlatform -----------------------------
(* Instances of the components of Platform.  A behaviour takes one of them; *)
(* the others stay as they are before anything has happened.                *)
EXTENDS Platform

CONSTANTS s1, s2, s3,               \* planners
          r1, r2, r3,               \* requests, registrations, executions
          u1, u2, f1, f2, g1, g2, k1, n1, n2

VARIABLE part

\* A scrape, a request and a forced request.
Forced == (s1 :> "scrape") @@ (s2 :> "request") @@ (s3 :> "force")

\* Of the policies, two have the same number of calls here.
CallsOf == [login |-> 1, auth |-> 1, other |-> 2]
TwoRoutes == {<<"POST", <<"auth", "token">>>>, <<"GET", <<"users", "me">>>>}

JustRss == {<<"rss:feed:read", "rss:feed:manage">>}

\* Two owners of channels, of whom one may not schedule videos.
Needed == {RouteOf[op].needs : op \in DOMAIN RouteOf}
Held == (u1 :> Needed) @@ (u2 :> Needed \ {"video:schedule"})

\* All that write, and one of each kind that do not.
Operations ==
  {"create_channel", "update_channel", "delete_channel", "connect_platform",
   "grant_channel_feeds", "revoke_channel_feed", "trigger_pipeline",
   "schedule_channel_pipelines", "list_channels", "list_failed_publishes", "retry_publish",
   "retry_pipeline", "create_feed", "get_pipeline_status", "list_channel_news"}
-----------------------------------------------------------------------------
\* The channel that there is, if there is one, is u1's (u2's would only lack
\* the permission to schedule), has the name n1, and has f1 before f2.
OneChannel ==
  /\ channel[k1] \in {NoChannel, [owner |-> u1, name |-> n1, deleted |-> FALSE]}
  /\ grants # {<<k1, f2>>}

InitParts ==
  /\ part \in {"planning", "scrape", "limiter", "accounts", "channels"}
  /\ Init           /\ (part # "planning" => ~feeds /\ unused = 0)
  /\ CatalogueInit  /\ (part # "scrape" => active = {})
  /\ LimiterInit    /\ (part # "limiter" => limit = 1)
  /\ AccountsInit   /\ (part # "accounts" => release = "first")
  /\ OwnershipInit  /\ OneChannel /\ (part # "channels" => channel[k1] = NoChannel)

\* Of the planning, those in which a request is lost when no force is used, and
\* feeds are granted and revoked on the first day.
\* Of the accounts, those in which r1 never registers u2: exchange the users.
NextParts ==
  /\ \/ /\ part = "planning" /\ PlanningStep
        /\ (pc'[s2] = "lost" => pc'[s3] = "idle") /\ (feeds' # feeds => day = 1)
     \/ part = "scrape" /\ ScrapeStep
     \/ part = "limiter" /\ LimiterStep
     \/ part = "accounts" /\ AccountsStep /\ call'[r1].email # u2
     \/ part = "channels" /\ ChannelsStep
  /\ UNCHANGED part

SpecParts == InitParts /\ [][NextParts]_<<part, platformVars>>
=============================================================================
