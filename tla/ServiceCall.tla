---------------------------- MODULE ServiceCall ----------------------------
(***************************************************************************)
(* The conversations of a worker with the services that make or take a     *)
(* video: MoneyPrinterTurbo renders it; TikTok, Instagram and YouTube      *)
(* publish it.  Each is a few HTTP requests.  None of them is repeated,    *)
(* except after a 401 of YouTube; two services are polled up to a          *)
(* deadline.  An access token of YouTube may have to be refreshed on the   *)
(* way: it is written to the channel's connection, in the transaction of   *)
(* the publication, while the user may connect the platform anew.          *)
(*                                                                         *)
(* A conversation ends by returning, or by raising.  The model tells two   *)
(* kinds of raising apart, which the callers of the code do not: "refused" *)
(* (the service, or a check before the first request, said no) and         *)
(* "unknown" (an answer was lost or cannot be read, a 5xx, the deadline).  *)
(* In Publishing these two are UploadFails and UploadTimesOut.             *)
(***************************************************************************)
EXTENDS Naturals

CONSTANTS Calls,     \* conversations
          User,      \* who connects the platform; stands for no call as well
          MaxGrants  \* bound: authorisations given by the user

ASSUME CallAssumption == User \notin Calls /\ MaxGrants \in Nat \ {0}

VARIABLES
  kind,     \* which service is called
  media,    \* what the service has of the call
  made,     \* how many videos it has made or published for the call
  stored,   \* the connection: an authorisation (client and refresh token),
            \* and the one which its access token was issued for
  draft,    \* what the transaction that holds the connection has written
  holder,   \* whose transaction that is
  pc,       \* the request that is next
  auth,     \* YouTube: what is to be done before that request
  retried,  \* YouTube: that request has been answered by 401
  creds,    \* the connection as the transaction of the call read it
  late,     \* the deadline of the polling has passed
  result    \* how the call ended

service    == <<media, made>>
connection == <<stored, draft, holder>>
client     == <<auth, retried, creds>>
vars       == <<kind, service, connection, pc, client, late, result>>

Kinds  == {"render", "tiktok", "instagram", "youtube"}
Grants == 1..MaxGrants
Credentials == [grant : Grants, token : Grants]
FirstGrant  == [grant |-> 1, token |-> 1]

Promised == INSTANCE CallPromise

Init ==
  /\ kind \in [Calls -> Kinds]
  /\ media = [c \in Calls |-> "none"]
  /\ made = [c \in Calls |-> 0]
  /\ stored = FirstGrant /\ draft = FirstGrant /\ holder = User
  /\ pc = [c \in Calls |-> "idle"]
  /\ auth = [c \in Calls |-> "ready"]
  /\ retried = [c \in Calls |-> FALSE]
  /\ creds = [c \in Calls |-> FirstGrant]
  /\ late = [c \in Calls |-> FALSE]
  /\ result = [c \in Calls |-> "none"]

Requests == {"create", "send", "publish"}
Active(c) == pc[c] \in Requests \cup {"poll", "fetch"}

Goto(c, l) == /\ pc' = [pc EXCEPT ![c] = l]
              /\ UNCHANGED result

End(c, r) == /\ pc' = [pc EXCEPT ![c] = "over"]
             /\ result' = [result EXCEPT ![c] = r]

\* Every request of the YouTube client looks at the expiry first.
FirstCheck(c) == IF kind[c] = "youtube" THEN "check" ELSE "ready"
-----------------------------------------------------------------------------
(* The services and the user.                                              *)

Becomes(c, m) == /\ media' = [media EXCEPT ![c] = m]
                 /\ made' = [made EXCEPT ![c] = IF m = "done" THEN @ + 1 ELSE @]

\* What was handed over is worked on, whether or not anybody still asks.
Work(c) ==
  /\ media[c] = "working"
  /\ Becomes(c, "done") \/ Becomes(c, "failed")
  /\ UNCHANGED <<kind, connection, pc, client, late, result>>

\* connect_platform: its UPDATE waits for the transaction that holds the
\* row, and is committed at once.
Connect ==
  /\ holder = User
  /\ \E g \in Grants :
       /\ g > stored.grant
       /\ \A c \in Calls : g > creds[c].grant
       /\ stored' = [grant |-> g, token |-> g]
  /\ UNCHANGED <<kind, service, draft, holder, pc, client, late, result>>
-----------------------------------------------------------------------------
(* The requests that have an effect.                                       *)

\* The transaction begins by reading the connection.  The settings, the
\* credentials and the video file are checked before anything is sent.
Start(c, k) ==
  /\ pc[c] = "idle" /\ kind[c] = k
  /\ creds' = [creds EXCEPT ![c] = stored]
  /\ auth' = [auth EXCEPT ![c] = FirstCheck(c)]
  /\ Goto(c, "create") \/ End(c, "refused")
  /\ UNCHANGED <<kind, service, connection, retried, late>>

ProduceVideo(c)        == Start(c, "render")
TikTokUploader(c)      == Start(c, "tiktok")
InstagramUploader(c)   == Start(c, "instagram")
YouTubeShortsUploader(c) == Start(c, "youtube")

Ask(c) == /\ pc[c] \in Requests
          /\ auth[c] = "ready"

\* An answer has come, with what the next request needs.
Proceed(c, next) == \E l \in next : IF l = "over" THEN End(c, "ok") ELSE Goto(c, l)

\* Mutated form: a request whose answer is lost is sent again.
RequestRepeated(c, k, l, m, next) ==
  /\ Ask(c) /\ kind[c] = k /\ pc[c] = l
  /\ Becomes(c, m)
  /\ Proceed(c, next) \/ Goto(c, l)
  /\ auth' = [auth EXCEPT ![c] = FirstCheck(c)]
  /\ retried' = [retried EXCEPT ![c] = FALSE]
  /\ UNCHANGED <<kind, connection, creds, late>>

\* Request l to service k is carried out, which makes m of the video; the
\* answer comes, or is lost, or lacks the id that the client looks for.
Request(c, k, l, m, next) ==
  /\ Ask(c) /\ kind[c] = k /\ pc[c] = l
  /\ Becomes(c, m)
  /\ Proceed(c, next) \/ End(c, "unknown")
  /\ auth' = [auth EXCEPT ![c] = FirstCheck(c)]
  /\ retried' = [retried EXCEPT ![c] = FALSE]
  /\ UNCHANGED <<kind, connection, creds, late>>

GenerateVideo(c) == Request(c, "render", "create", "working", {"poll"})

\* Of a direct post or of an inbox upload; TikTok may name no upload URL.
InitPost(c)        == Request(c, "tiktok", "create", "opened", {"send", "poll"})
UploadVideoFile(c) == Request(c, "tiktok", "send", "working", {"poll"})

\* The container is published at once, without a look at its state.
CreateMediaContainer(c) == Request(c, "instagram", "create", "opened", {"publish"})
PublishMedia(c)         == Request(c, "instagram", "publish", "done", {"over"})

InitResumableUpload(c) == Request(c, "youtube", "create", "opened", {"send"})
UploadVideoBytes(c)    == Request(c, "youtube", "send", "done", {"over"})

\* The service refuses, or the request never reaches it.
RequestFails(c) ==
  /\ Ask(c)
  /\ End(c, "refused") \/ End(c, "unknown")
  /\ UNCHANGED <<kind, service, connection, client, late>>
-----------------------------------------------------------------------------
(* The access token of YouTube.                                            *)

\* A 401 is answered once per request by a refresh; the second is an error.
Unauthorized(c) ==
  /\ Ask(c)
  /\ kind[c] = "youtube"
  /\ ~retried[c]
  /\ retried' = [retried EXCEPT ![c] = TRUE]
  /\ auth' = [auth EXCEPT ![c] = "refresh"]
  /\ UNCHANGED <<kind, service, connection, pc, creds, late, result>>

\* _ensure_access_token, by the expiry noted in the credentials.
CheckToken(c) ==
  /\ pc[c] \in Requests
  /\ auth[c] = "check"
  /\ \E a \in {"ready", "refresh"} : auth' = [auth EXCEPT ![c] = a]
  /\ UNCHANGED <<kind, service, connection, pc, retried, creds, late, result>>

\* With the refresh token that was read at the start.  A new token is one
\* that does not end within the next minute.
Refresh(c) ==
  /\ pc[c] \in Requests
  /\ auth[c] = "refresh"
  /\ \/ auth' = [auth EXCEPT ![c] = "save"] /\ UNCHANGED <<pc, result>>
     \/ End(c, "refused") /\ UNCHANGED auth
  /\ UNCHANGED <<kind, service, connection, retried, creds, late>>

\* Mutated forms: the new token replaces the credentials; it is merged into
\* the row as it is now.
SaveTokenAlone(c) ==
  /\ pc[c] \in Requests
  /\ auth[c] = "save"
  /\ holder \in {User, c}
  /\ draft' = [token |-> creds[c].grant]
  /\ holder' = c
  /\ creds' = [creds EXCEPT ![c] = draft']
  /\ auth' = [auth EXCEPT ![c] = "ready"]
  /\ UNCHANGED <<kind, service, stored, pc, retried, late, result>>

SaveTokenMerged(c) ==
  /\ pc[c] \in Requests
  /\ auth[c] = "save"
  /\ holder \in {User, c}
  /\ draft' = [stored EXCEPT !.token = creds[c].grant]
  /\ holder' = c
  /\ creds' = [creds EXCEPT ![c] = draft']
  /\ auth' = [auth EXCEPT ![c] = "ready"]
  /\ UNCHANGED <<kind, service, stored, pc, retried, late, result>>

\* The token is merged into the credentials the transaction has read, and
\* all of them are written; the UPDATE waits for another that holds the row.
SaveToken(c) ==
  /\ pc[c] \in Requests
  /\ auth[c] = "save"
  /\ holder \in {User, c}
  /\ draft' = [creds[c] EXCEPT !.token = creds[c].grant]
  /\ holder' = c
  /\ creds' = [creds EXCEPT ![c] = draft']
  /\ auth' = [auth EXCEPT ![c] = "ready"]
  /\ UNCHANGED <<kind, service, stored, pc, retried, late, result>>
-----------------------------------------------------------------------------
(* Polling.                                                                *)

\* Mutated forms: a status that cannot be had counts as a refusal; no
\* deadline.
PollFailsRefused(c) ==
  /\ pc[c] \in {"poll", "fetch"}
  /\ End(c, "refused")
  /\ UNCHANGED <<kind, service, connection, client, late>>

GiveUpNever(c) == FALSE /\ UNCHANGED vars

\* Only a final status ends the loop.
Poll(c, k) == /\ pc[c] = "poll" /\ kind[c] = k
              /\ UNCHANGED <<kind, service, connection, client, late>>

WaitForPublish(c) ==
  /\ Poll(c, "tiktok")
  /\ \/ media[c] = "done"   /\ End(c, "ok")
     \/ media[c] = "failed" /\ End(c, "refused")

\* Without a path to the finished video there is nothing to download.
WaitForCompletion(c) ==
  /\ Poll(c, "render")
  /\ \/ media[c] = "done"   /\ (Goto(c, "fetch") \/ End(c, "unknown"))
     \/ media[c] = "failed" /\ End(c, "refused")

DownloadVideo(c) ==
  /\ pc[c] = "fetch"
  /\ End(c, "ok")
  /\ UNCHANGED <<kind, service, connection, client, late>>

\* One failed request for the status, or for the file, ends the call.
PollFails(c) ==
  /\ pc[c] \in {"poll", "fetch"}
  /\ End(c, "unknown")
  /\ UNCHANGED <<kind, service, connection, client, late>>

PassDeadline(c) ==
  /\ pc[c] = "poll" /\ ~late[c]
  /\ late' = [late EXCEPT ![c] = TRUE]
  /\ UNCHANGED <<kind, service, connection, pc, client, result>>

\* The deadline is looked at after the status.
GiveUp(c) ==
  /\ pc[c] = "poll" /\ late[c]
  /\ media[c] \notin {"done", "failed"}
  /\ End(c, "unknown")
  /\ UNCHANGED <<kind, service, connection, client, late>>
-----------------------------------------------------------------------------
(* The end of the transaction.                                             *)

LetGo(c) == /\ holder' = IF holder = c THEN User ELSE holder
            /\ pc' = [pc EXCEPT ![c] = "settled"]

Commit(c) ==
  /\ pc[c] = "over"
  /\ stored' = IF holder = c THEN draft ELSE stored
  /\ LetGo(c)
  /\ UNCHANGED <<kind, service, draft, client, late, result>>

\* By an error at another platform of the same attempt.
Rollback(c) ==
  /\ pc[c] = "over"
  /\ LetGo(c)
  /\ UNCHANGED <<kind, service, stored, draft, client, late, result>>

\* The worker is lost.
Crash(c) ==
  /\ Active(c) \/ pc[c] = "over"
  /\ LetGo(c)
  /\ result' = [result EXCEPT ![c] = IF @ = "none" THEN "unknown" ELSE @]
  /\ UNCHANGED <<kind, service, stored, draft, client, late>>

Begin(c) == \/ ProduceVideo(c)
            \/ TikTokUploader(c) \/ InstagramUploader(c) \/ YouTubeShortsUploader(c)

Requested(c) == \/ GenerateVideo(c)
                \/ InitPost(c) \/ UploadVideoFile(c)
                \/ CreateMediaContainer(c) \/ PublishMedia(c)
                \/ InitResumableUpload(c) \/ UploadVideoBytes(c)

Step(c) == \/ Requested(c) \/ RequestFails(c)
           \/ Unauthorized(c) \/ CheckToken(c) \/ Refresh(c) \/ SaveToken(c)
           \/ WaitForPublish(c) \/ WaitForCompletion(c) \/ DownloadVideo(c) \/ GiveUp(c)
           \/ Commit(c) \/ Rollback(c)

Next == \/ Connect
        \/ \E c \in Calls : \/ Work(c) \/ Begin(c) \/ Step(c)
                            \/ PollFails(c) \/ PassDeadline(c) \/ Crash(c)

Spec == Init /\ [][Next]_vars

\* A request ends by its timeout at the latest, time passes, a lock that is
\* given up is granted.  The services owe nothing, and a request for a
\* status need not ever fail.
FairSpec == /\ Spec
            /\ \A c \in Calls : WF_vars(Step(c)) /\ WF_vars(PassDeadline(c))
-----------------------------------------------------------------------------
(* Properties.                                                             *)

\* Types of all variables.
TypeOK ==
  /\ kind \in [Calls -> Kinds]
  /\ media \in [Calls -> {"none", "opened", "working", "done", "failed"}]
  /\ made \in [Calls -> Nat]
  /\ stored \in Credentials /\ draft \in Credentials
  /\ holder \in Calls \cup {User}
  /\ pc \in [Calls -> Requests \cup {"idle", "poll", "fetch", "over", "settled"}]
  /\ auth \in [Calls -> {"ready", "check", "refresh", "save"}]
  /\ retried \in [Calls -> BOOLEAN]
  /\ creds \in [Calls -> Credentials]
  /\ late \in [Calls -> BOOLEAN]
  /\ result \in [Calls -> {"none", "ok", "refused", "unknown"}]

\* No flow has a service make two videos for one upload, whichever answers
\* are lost; what is returned as published is; and after a refusal nothing
\* appears later.  A status that cannot be had is no refusal.
KeepsPromise == Promised!PromiseSpec

\* The access token of a connection was issued for the authorisation that
\* stands beside it, although users reconnect while publications that have
\* read the older credentials refresh their tokens.  (What may be lost is
\* the reconnect as a whole.)
TokenMatchesGrant == stored.token = stored.grant

\* Every conversation that was begun ends, although a service may never finish
\* its work: from some time on none is under way.
CallEnds == <>[](\A c \in Calls : pc[c] \in {"idle", "settled"})
=============================================================================
