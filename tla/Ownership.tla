------------------------------ MODULE Ownership -----------------------------
(***************************************************************************)
(* Requests of users on their channels: who may do what to which one, and  *)
(* what is left in the database when requests overlap.  Each statement     *)
(* commits by itself.  A session keeps the rows it has loaded: the rows of *)
(* the user's channels are loaded with the user, an update writes only     *)
(* what differs from the row as it was loaded, and no request sees again   *)
(* what another has changed in it since.                                   *)
(***************************************************************************)
EXTENDS Routes, FiniteSets

CONSTANTS
  People,      \* users with an account
  Holds,       \* the permissions that each of them holds
  HasProfile,  \* those with a profile
  ChannelIds,
  FeedIds,
  Names,       \* names of channels
  Clients,     \* requests
  Ops          \* the operations, names of routes, that they may ask for

ASSUME OwnershipAssumption == "none" \notin People /\ Ops \subseteq DOMAIN RouteOf

VARIABLES
  channel,  \* of each id: the row's owner, its name, whether it is deleted
  grants,   \* channel_rss_feeds
  config,   \* of each channel: the request whose credentials are stored
  made,     \* the videos and runs that requests have made, with their channels
  req,      \* the requests
  undone    \* history: the requests whose effect another may have undone, since
            \* it has written the same after they had begun

ownershipVars == <<channel, grants, config, made, req, undone>>
tables == <<channel, grants, config, made>>

NoChannel == [owner |-> "none", name |-> "none", deleted |-> FALSE]
NewReq == [pc |-> "new", user |-> "none", op |-> "none", id |-> "none", name |-> "none",
           feeds |-> {}, todo |-> {}, loaded |-> "none", answer |-> 0, list |-> {}]

OwnershipInit ==
  /\ channel \in [ChannelIds -> [owner : People \cap HasProfile, name : Names,
                                 deleted : {FALSE}] \cup {NoChannel}]
  /\ grants \in SUBSET ({c \in ChannelIds : channel[c] # NoChannel} \X FeedIds)
  /\ made = {} /\ undone = {}
  /\ config = [c \in ChannelIds |-> "none"]
  /\ req = [r \in Clients |-> NewReq]
-----------------------------------------------------------------------------
\* The channel that a user gets by its id.
Owned(u, c) == u \in HasProfile /\ channel[c].owner = u /\ ~channel[c].deleted

\* Mutant: the row is looked up by its id alone.
OwnedByAnyone(u, c) == u \in HasProfile /\ channel[c].owner # "none" /\ ~channel[c].deleted

get_owned_channel(u, c) == Owned(u, c)

\* A video is looked up with its channel.
get_owned_video(u, c) == Owned(u, c)

get_by_profile(u) == {c \in ChannelIds : Owned(u, c)}

Is(r, pc)     == req[r].pc = pc
Op(r)         == req[r].op
Goes(r, pc)   == req' = [req EXCEPT ![r].pc = pc]
Answer(r, n)  == req' = [req EXCEPT ![r] = [@ EXCEPT !.pc = "done", !.answer = n]]
Ok(r)         == Answer(r, RouteOf[Op(r)].ok)
Refuse(r, n)  == Answer(r, n) /\ UNCHANGED <<tables, undone>>

\* What q writes is what r has written, or is about to.
Undoes(q, r) ==
  /\ req[q].id = req[r].id
  /\ \/ Op(q) = Op(r) /\ Op(q) \in {"update_channel", "connect_platform"}
     \/ /\ {Op(q), Op(r)} = {"grant_channel_feeds", "revoke_channel_feed"}
        /\ req[q].feeds \cap req[r].feeds # {}
Writes(q) == undone' = undone \cup {r \in Clients \ {q} : ~Is(r, "new") /\ Undoes(q, r)}

\* require_permission; the user is loaded with his channels.
Authorize(r, u, op, c, name, feeds) ==
  /\ Is(r, "new")
  /\ req' = [req EXCEPT ![r] =
       [@ EXCEPT !.user = u, !.op = op, !.id = c, !.name = name, !.feeds = feeds,
                 !.loaded = IF channel[c].owner = u THEN channel[c].name ELSE "none",
                 !.pc = IF RouteOf[op].needs \in Holds[u] THEN RouteOf[op].owns ELSE "done",
                 !.answer = IF RouteOf[op].needs \in Holds[u] THEN 0 ELSE 403]]
  /\ UNCHANGED <<tables, undone>>

Profile(r) ==
  /\ Is(r, "profile")
  /\ IF req[r].user \in HasProfile
     THEN /\ Goes(r, IF Op(r) = "create_channel" THEN "write" ELSE "rows")
          /\ UNCHANGED <<tables, undone>>
     ELSE Refuse(r, 404)

\* What a request does once the channel is the user's.
After(op) ==
  IF op \in {"connect_platform", "grant_channel_feeds"} THEN "look"
  ELSE IF op \in {"list_channel_feeds", "list_channel_news", "list_pipeline_runs"} THEN "answer"
  ELSE "write"

Channel(r) ==
  /\ Is(r, "channel")
  /\ IF get_owned_channel(req[r].user, req[r].id)
     THEN /\ req' = [req EXCEPT ![r] =
               [@ EXCEPT !.pc = After(Op(r)),
                         !.loaded = IF req[r].loaded = "none" THEN channel[req[r].id].name
                                                              ELSE req[r].loaded]]
          /\ UNCHANGED <<tables, undone>>
     ELSE Refuse(r, 404)

\* The video is there, or is not; a retry may be refused for its state.
Video(r) ==
  /\ Is(r, "video")
  /\ \/ /\ get_owned_video(req[r].user, req[r].id)
        /\ \/ Ok(r) /\ UNCHANGED <<tables, undone>>
           \/ Op(r) = "retry_publish" /\ Refuse(r, 409)
     \/ Refuse(r, 404)

\* A request that reads, or that changes what other modules have: feeds, runs.
AnswerOnly(r) ==
  /\ Is(r, "nothing") \/ Is(r, "answer")
  /\ \/ Ok(r) /\ UNCHANGED <<tables, undone>>
     \/ Op(r) = "create_feed" /\ Refuse(r, 409)
     \/ Op(r) = "get_pipeline_status" /\ Refuse(r, 404)

\* The operations that may be asked for the rows of one channel only.
Filterable == {"get_platform_status", "list_retryable_pipelines", "list_failed_publishes",
               "retry_all_pipelines", "retry_all_publishes"}

AnswerList(r, cs) ==
  /\ req' = [req EXCEPT ![r] = [@ EXCEPT !.pc = "done", !.answer = RouteOf[Op(r)].ok, !.list = cs]]
  /\ UNCHANGED <<tables, undone>>

\* The rows of the user's channels are listed, or retried, or those of one, which
\* must be the user's; a run that is not among them is not found, and one that
\* is may be in no state for a retry.
List(r) ==
  /\ Is(r, "rows")
  /\ \/ AnswerList(r, get_by_profile(req[r].user))
     \/ /\ Op(r) \in Filterable /\ req[r].user \in HasProfile
        /\ IF get_owned_channel(req[r].user, req[r].id) THEN AnswerList(r, {req[r].id})
                                                        ELSE Refuse(r, 404)
     \/ Op(r) = "retry_pipeline" /\ (Refuse(r, 404) \/ Refuse(r, 409))

CreateChannel(r) ==
  /\ Is(r, "write") /\ Op(r) = "create_channel"
  /\ \E c \in ChannelIds :
       /\ channel[c] = NoChannel
       /\ channel' = [channel EXCEPT ![c] = [NoChannel EXCEPT !.owner = req[r].user,
                                                              !.name = req[r].name]]
       /\ req' = [req EXCEPT ![r] = [@ EXCEPT !.pc = "done", !.id = c,
                                               !.answer = RouteOf[Op(r)].ok]]
  /\ UNCHANGED <<grants, config, made, undone>>

UpdateChannel(r) ==
  LET new == req[r].name
  IN /\ Is(r, "write") /\ Op(r) = "update_channel"
     /\ IF new \in {"none", req[r].loaded}
        THEN UNCHANGED <<channel, undone>>
        ELSE channel' = [channel EXCEPT ![req[r].id].name = new] /\ Writes(r)
     /\ Ok(r) /\ UNCHANGED <<grants, config, made>>

DeleteChannel(r) ==
  /\ Is(r, "write") /\ Op(r) = "delete_channel"
  /\ channel' = [channel EXCEPT ![req[r].id].deleted = TRUE]
  /\ Ok(r) /\ UNCHANGED <<grants, config, made, undone>>

\* A video or a run, which the scheduler may find to be planned already.
MakeRow(r) ==
  /\ Is(r, "write")
  /\ \/ /\ Op(r) \in {"schedule_video", "trigger_pipeline", "schedule_channel_pipelines"}
        /\ made' = made \cup {<<req[r].id, r>>}
     \/ Op(r) = "schedule_channel_pipelines" /\ UNCHANGED made
  /\ Ok(r) /\ UNCHANGED <<channel, grants, config, undone>>

RevokeFeed(r) ==
  LET gone == {req[r].id} \X req[r].feeds
  IN /\ Is(r, "write") /\ Op(r) = "revoke_channel_feed"
     /\ IF gone \subseteq grants
        THEN /\ grants' = grants \ gone /\ Writes(r) /\ Ok(r)
             /\ UNCHANGED <<channel, config, made>>
        ELSE Refuse(r, 404)

\* The row that there is, or the feeds still to grant.
LookConfig(r) ==
  /\ Is(r, "look") /\ Op(r) = "connect_platform"
  /\ Goes(r, IF config[req[r].id] = "none" THEN "insert" ELSE "write")
  /\ UNCHANGED <<tables, undone>>

UpdateConfig(r) ==
  /\ Is(r, "write") /\ Op(r) = "connect_platform"
  /\ config' = [config EXCEPT ![req[r].id] = r]
  /\ Writes(r) /\ Ok(r) /\ UNCHANGED <<channel, grants, made>>

\* uq_channel_platform.
InsertConfig(r) ==
  /\ Is(r, "insert") /\ Op(r) = "connect_platform"
  /\ IF config[req[r].id] # "none"
     THEN Refuse(r, 409)
     ELSE /\ config' = [config EXCEPT ![req[r].id] = r]
          /\ Writes(r) /\ Ok(r) /\ UNCHANGED <<channel, grants, made>>

\* The feeds that get_channel_feed_ids has not returned, unless one that is named
\* does not exist, or is deleted.
LookGrants(r) ==
  /\ Is(r, "look") /\ Op(r) = "grant_channel_feeds"
  /\ \/ /\ req' = [req EXCEPT ![r] =
             [@ EXCEPT !.pc = "insert",
                       !.todo = {f \in req[r].feeds : <<req[r].id, f>> \notin grants}]]
        /\ UNCHANGED <<tables, undone>>
     \/ req[r].feeds # {} /\ Refuse(r, 404)

\* One INSERT for each; the first that is there already ends the request.  A
\* feed that was named again is still to be granted, and is there then.
InsertGrant(r, f) ==
  LET grant == <<req[r].id, f>>
  IN /\ Is(r, "insert") /\ Op(r) = "grant_channel_feeds" /\ f \in req[r].todo
     /\ IF grant \in grants
        THEN Refuse(r, StatusOf("IntegrityError", 0))
        ELSE /\ grants' = grants \cup {grant}
             /\ \E again \in SUBSET {f} : req' = [req EXCEPT ![r].todo = (@ \ {f}) \cup again]
             /\ Writes(r) /\ UNCHANGED <<channel, config, made>>

\* The answer lists the channel's feeds, after the channel has been looked up again.
Granted(r) ==
  IF get_owned_channel(req[r].user, req[r].id) THEN Ok(r) /\ UNCHANGED <<tables, undone>>
                                               ELSE Refuse(r, 404)

\* Mutant: the conflict ends the request as if it were done.
EndGrantsAtConflict(r) ==
  /\ Is(r, "insert") /\ Op(r) = "grant_channel_feeds"
  /\ req[r].todo = {} \/ \E f \in req[r].todo : <<req[r].id, f>> \in grants
  /\ Granted(r)

EndGrants(r) ==
  /\ Is(r, "insert") /\ Op(r) = "grant_channel_feeds" /\ req[r].todo = {}
  /\ Granted(r)

\* The worker process of the API ends, with the request.
LoseRequest(r) == req[r].pc \notin {"new", "done"} /\ Refuse(r, 0)

\* What the operations may be asked with.
NamesFor(op) == CASE op = "update_channel" -> Names \cup {"none"}
                  [] op = "create_channel" -> Names
                  [] OTHER -> {"none"}
FeedsFor(op) == CASE op = "grant_channel_feeds" -> SUBSET FeedIds
                  [] op = "revoke_channel_feed" -> {{f} : f \in FeedIds}
                  [] OTHER -> {{}}

OwnershipNext ==
  \E r \in Clients :
    \/ \E u \in People, op \in Ops, c \in ChannelIds :
         \E name \in NamesFor(op), feeds \in FeedsFor(op) : Authorize(r, u, op, c, name, feeds)
    \/ Profile(r) \/ Channel(r) \/ Video(r) \/ AnswerOnly(r) \/ List(r)
    \/ CreateChannel(r) \/ UpdateChannel(r) \/ DeleteChannel(r) \/ MakeRow(r)
    \/ RevokeFeed(r) \/ LookConfig(r) \/ UpdateConfig(r) \/ InsertConfig(r)
    \/ LookGrants(r) \/ EndGrants(r) \/ LoseRequest(r)
    \/ \E f \in FeedIds : InsertGrant(r, f)

OwnershipSpec == OwnershipInit /\ [][OwnershipNext]_ownershipVars
-----------------------------------------------------------------------------
(* Properties.                                                             *)

\* The rows have their types, and belong to channels.
OwnershipTypeOK ==
  /\ \A c \in ChannelIds : channel[c].owner \in People \cup {"none"}
                           /\ channel[c].name \in Names \cup {"none"}
                           /\ channel[c].deleted \in BOOLEAN
  /\ grants \subseteq ChannelIds \X FeedIds
  /\ made \subseteq ChannelIds \X Clients
  /\ config \in [ChannelIds -> Clients \cup {"none"}]
  /\ \A c \in ChannelIds :
       channel[c] = NoChannel => /\ config[c] = "none"
                                 /\ \A f \in FeedIds : <<c, f>> \notin grants
  /\ undone \subseteq Clients

\* What the requests have done to the rows.
Effect(r) ==
  LET c == req[r].id
  IN CASE Op(r) = "update_channel" -> req[r].name \in {"none", channel[c].name}
       [] Op(r) = "delete_channel" -> channel[c].deleted
       [] Op(r) = "connect_platform" -> config[c] = r
       [] Op(r) = "grant_channel_feeds" -> {c} \X req[r].feeds \subseteq grants
       [] Op(r) = "revoke_channel_feed" -> ({c} \X req[r].feeds) \cap grants = {}
       [] Op(r) \in {"schedule_video", "trigger_pipeline"} -> <<c, r>> \in made
       [] OTHER -> TRUE

\* A request that was answered with success was one of a user with the
\* permission and, if it names a channel or a video, of its owner, and its effect lasts
\* until another request of the owner, later or at the same time, writes the
\* same; a channel, once deleted, stays deleted.  A list has the user's rows only.
AnswersHold ==
  \A r \in Clients :
    LET q == req[r]
    IN Is(r, "done") /\ q.answer = RouteOf[Op(r)].ok =>
         /\ RouteOf[Op(r)].needs \in Holds[q.user]
         /\ RouteOf[Op(r)].owns \in {"channel", "video"} => channel[q.id].owner = q.user
         /\ \A c \in q.list : channel[c].owner = q.user
         /\ Effect(r) \/ r \in undone
=============================================================================
