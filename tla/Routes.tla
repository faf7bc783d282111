------------------------------- MODULE Routes -------------------------------
(***************************************************************************)
(* The routes of the API behind a login: for each the permission it needs, *)
(* what it looks up of the user's before it does anything else, and its    *)
(* status on success; and the status that an exception is answered with.   *)
(* Looked up are: a channel or a video of his, by its id; his profile,     *)
(* without which there is no answer; the rows of his channels, of which    *)
(* there may be none; or nothing.                                          *)
(***************************************************************************)
EXTENDS Naturals

Route(needs, owns, ok) == [needs |-> needs, owns |-> owns, ok |-> ok]

UserRoutes == [get_me |-> Route("user:read", "nothing", 200)]

ChannelRoutes ==
  [create_channel |-> Route("channel:create", "profile", 201),
   list_channels  |-> Route("channel:read", "rows", 200),
   update_channel |-> Route("channel:update", "channel", 200),
   delete_channel |-> Route("channel:delete", "channel", 204)]

PlatformRoutes ==
  [connect_platform    |-> Route("platform:connect", "channel", 201),
   get_platform_status |-> Route("platform:read", "rows", 200)]

VideoRoutes ==
  [schedule_video       |-> Route("video:schedule", "channel", 201),
   list_upcoming_videos |-> Route("video:read", "rows", 200),
   get_video_status     |-> Route("video:read", "video", 200)]

RssRoutes ==
  [list_feeds          |-> Route("rss:feed:read", "nothing", 200),
   create_feed         |-> Route("rss:feed:manage", "nothing", 201),
   trigger_scrape      |-> Route("rss:feed:manage", "nothing", 202),
   list_channel_feeds  |-> Route("rss:feed:read", "channel", 200),
   grant_channel_feeds |-> Route("rss:feed:read", "channel", 200),
   revoke_channel_feed |-> Route("rss:feed:read", "channel", 204),
   list_channel_news   |-> Route("rss:feed:read", "channel", 200),
   schedule_channel_pipelines |-> Route("rss:feed:read", "channel", 202)]

PipelineRoutes ==
  [trigger_pipeline    |-> Route("video:schedule", "channel", 202),
   list_pipeline_runs  |-> Route("video:read", "channel", 200),
   get_pipeline_status |-> Route("video:read", "nothing", 200)]

RetryRoutes ==
  [list_retryable_pipelines |-> Route("video:read", "profile", 200),
   list_failed_publishes    |-> Route("video:read", "profile", 200),
   retry_all_pipelines      |-> Route("video:schedule", "profile", 202),
   retry_pipeline           |-> Route("video:schedule", "profile", 202),
   retry_all_publishes      |-> Route("video:schedule", "profile", 202),
   retry_publish            |-> Route("video:schedule", "video", 202)]

RouteOf ==
  [op \in DOMAIN UserRoutes \cup DOMAIN ChannelRoutes \cup DOMAIN PlatformRoutes
           \cup DOMAIN VideoRoutes \cup DOMAIN RssRoutes \cup DOMAIN PipelineRoutes
           \cup DOMAIN RetryRoutes |->
     CASE op \in DOMAIN UserRoutes     -> UserRoutes[op]
       [] op \in DOMAIN ChannelRoutes  -> ChannelRoutes[op]
       [] op \in DOMAIN PlatformRoutes -> PlatformRoutes[op]
       [] op \in DOMAIN VideoRoutes    -> VideoRoutes[op]
       [] op \in DOMAIN RssRoutes      -> RssRoutes[op]
       [] op \in DOMAIN PipelineRoutes -> PipelineRoutes[op]
       [] op \in DOMAIN RetryRoutes    -> RetryRoutes[op]]

\* _map_upstream_status: the status of a service's answer, handed on.
UpstreamStatus(n) == IF n \in {401, 403, 404, 429} THEN n
                     ELSE IF n \in 400..499 THEN 400 ELSE 502

\* ExceptionHandlingRoute: the first handler that matches.  CrudIntegrityError
\* and RedisClientCreationError have another one after it.  An HTTPException
\* carries its own status, an HTTPStatusError that of a service's answer.
StatusOf(exception, carried) ==
  CASE exception \in {"AuthenticationInvalidTokenError", "AuthenticationTokenExpiredError",
                      "AuthenticationValidationError"}                 -> 401
    [] exception \in {"PermissionError", "AuthenticationInvalidScopeError"} -> 403
    [] exception = "RateLimitExceededError"                            -> 429
    [] exception = "RequestValidationError"                            -> 422
    [] exception = "HTTPException"                                     -> carried
    [] exception = "httpx.HTTPStatusError"              -> UpstreamStatus(carried)
    [] exception = "httpx.RequestError"                                -> 502
    [] exception \in {"CrudIntegrityError", "RedisClientCreationError",
                      "CeleryKeyIndexIncrementError"}                  -> 500
    [] exception \in {"ValueError", "AppError", "AppValidationError", "AppTypeError",
                      "InstanceError", "EmptyError", "ClientMethodMissingError"} -> 400
    [] OTHER                                                           -> 500
=============================================================================
