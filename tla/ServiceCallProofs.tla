------------------------- MODULE ServiceCallProofs -------------------------
(***************************************************************************)
(* For any number of calls: a connection never mixes two authorisations,   *)
(* and every conversation keeps the promise of CallPromise.                *)
(***************************************************************************)
EXTENDS ServiceCall, TLAPS

\* What a call has been told, and asks for next, is what the service has of it.
Agrees(c) ==
  /\ made[c] = IF media[c] = "done" THEN 1 ELSE 0
  /\ result[c] # "none" <=> pc[c] \in {"over", "settled"}
  /\ pc[c] \in {"idle", "create"} => media[c] = "none"
  /\ pc[c] = "send" => media[c] = "opened" /\ kind[c] \in {"tiktok", "youtube"}
  /\ pc[c] = "publish" => media[c] = "opened" /\ kind[c] = "instagram"
  /\ pc[c] = "poll" => kind[c] \in {"render", "tiktok"}
  /\ pc[c] = "fetch" => media[c] = "done"
  /\ result[c] = "ok" => media[c] = "done"
  /\ result[c] = "refused" => media[c] \in {"none", "opened", "failed"}

CallInv == TypeOK /\ \A c \in Calls : Agrees(c)

\* The requests of the four services: k's request l makes m, and next follows.
Fits(k, l, m, next) ==
  \/ k = "render"    /\ l = "create"  /\ m = "working" /\ next = {"poll"}
  \/ k = "tiktok"    /\ l = "create"  /\ m = "opened"  /\ next = {"send", "poll"}
  \/ k = "tiktok"    /\ l = "send"    /\ m = "working" /\ next = {"poll"}
  \/ k = "instagram" /\ l = "create"  /\ m = "opened"  /\ next = {"publish"}
  \/ k = "instagram" /\ l = "publish" /\ m = "done"    /\ next = {"over"}
  \/ k = "youtube"   /\ l = "create"  /\ m = "opened"  /\ next = {"send"}
  \/ k = "youtube"   /\ l = "send"    /\ m = "done"    /\ next = {"over"}

RequestBy(c) == \E k, l, m, next : Fits(k, l, m, next) /\ Request(c, k, l, m, next)

Whole(r) == r.token = r.grant

TokenInv == /\ TypeOK
            /\ Whole(stored) /\ Whole(draft)
            /\ \A c \in Calls : Whole(creds[c])
-----------------------------------------------------------------------------
(* Types.                                                                  *)

LEMMA RequestsFit ==
  ASSUME NEW c, Requested(c)
  PROVE  RequestBy(c)
<1>1. CASE GenerateVideo(c)
  BY <1>1 DEF GenerateVideo, RequestBy, Fits
<1>2. CASE InitPost(c)
  BY <1>2 DEF InitPost, RequestBy, Fits
<1>3. CASE UploadVideoFile(c)
  BY <1>3 DEF UploadVideoFile, RequestBy, Fits
<1>4. CASE CreateMediaContainer(c)
  BY <1>4 DEF CreateMediaContainer, RequestBy, Fits
<1>5. CASE PublishMedia(c)
  BY <1>5 DEF PublishMedia, RequestBy, Fits
<1>6. CASE InitResumableUpload(c)
  BY <1>6 DEF InitResumableUpload, RequestBy, Fits
<1>7. CASE UploadVideoBytes(c)
  BY <1>7 DEF UploadVideoBytes, RequestBy, Fits
<1>8. QED
  BY <1>1, <1>2, <1>3, <1>4, <1>5, <1>6, <1>7 DEF Requested

LEMMA TypeInit == Init => TypeOK
  BY CallAssumption DEF Init, TypeOK, Credentials, FirstGrant, Grants, Requests

LEMMA TypeStep == TypeOK /\ [Next]_vars => TypeOK'
<1> SUFFICES ASSUME TypeOK, [Next]_vars
             PROVE  TypeOK'
  OBVIOUS
<1> USE DEF TypeOK, Requests
<1>1. CASE Connect
  BY <1>1 DEF Connect, service, client, Credentials
<1>2. ASSUME NEW c \in Calls, Work(c)
      PROVE  TypeOK'
  BY <1>2 DEF Work, Becomes, connection, client
<1>3. ASSUME NEW c \in Calls, Begin(c)
      PROVE  TypeOK'
  BY <1>3 DEF Begin, ProduceVideo, TikTokUploader, InstagramUploader,
              YouTubeShortsUploader, Start, FirstCheck, Goto, End, service, connection
<1>4. ASSUME NEW c \in Calls, Requested(c)
      PROVE  TypeOK'
  <2>1. PICK k, l, m, next : Fits(k, l, m, next) /\ Request(c, k, l, m, next)
    BY <1>4, RequestsFit DEF RequestBy
  <2>2. /\ m \in {"opened", "working", "done"}
        /\ next \subseteq Requests \cup {"poll", "over"}
    BY <2>1 DEF Fits
  <2>3. /\ media' \in [Calls -> {"none", "opened", "working", "done", "failed"}]
        /\ made' \in [Calls -> Nat]
    BY <2>1, <2>2 DEF Request, Becomes
  <2>4. /\ pc' \in [Calls -> Requests \cup {"idle", "poll", "fetch", "over", "settled"}]
        /\ result' \in [Calls -> {"none", "ok", "refused", "unknown"}]
    BY <2>1, <2>2 DEF Request, Proceed, Goto, End
  <2>5. auth' \in [Calls -> {"ready", "check", "refresh", "save"}]
    BY <2>1 DEF Request, FirstCheck
  <2>6. QED
    BY <2>1, <2>3, <2>4, <2>5 DEF Request, connection
<1>5. ASSUME NEW c \in Calls, RequestFails(c)
      PROVE  TypeOK'
  BY <1>5 DEF RequestFails, End, service, connection, client
<1>6. ASSUME NEW c \in Calls, Unauthorized(c) \/ CheckToken(c)
      PROVE  TypeOK'
  <2>1. UNCHANGED <<kind, media, made, stored, draft, holder, pc, creds, late, result>>
    BY <1>6 DEF Unauthorized, CheckToken, service, connection
  <2>2. retried' \in [Calls -> BOOLEAN]
    <3>1. CASE Unauthorized(c)
      BY <3>1 DEF Unauthorized
    <3>2. CASE CheckToken(c)
      BY <3>2 DEF CheckToken
    <3>3. QED
      BY <1>6, <3>1, <3>2
  <2>3. auth' \in [Calls -> {"ready", "check", "refresh", "save"}]
    <3>1. CASE Unauthorized(c)
      BY <3>1 DEF Unauthorized
    <3>2. CASE CheckToken(c)
      BY <3>2 DEF CheckToken
    <3>3. QED
      BY <1>6, <3>1, <3>2
  <2>4. QED
    BY <2>1, <2>2, <2>3
<1>7. ASSUME NEW c \in Calls, Refresh(c)
      PROVE  TypeOK'
  BY <1>7 DEF Refresh, End, service, connection
<1>8. ASSUME NEW c \in Calls, SaveToken(c)
      PROVE  TypeOK'
  <2>1. draft' \in Credentials
    BY <1>8 DEF SaveToken, Credentials
  <2>2. QED
    BY <1>8, <2>1 DEF SaveToken, service
<1>9. ASSUME NEW c \in Calls, WaitForPublish(c) \/ WaitForCompletion(c) \/ DownloadVideo(c)
                           \/ PollFails(c) \/ GiveUp(c)
      PROVE  TypeOK'
  BY <1>9 DEF WaitForPublish, WaitForCompletion, DownloadVideo, Poll, PollFails, GiveUp,
               Goto, End, service, connection, client
<1>10. ASSUME NEW c \in Calls, PassDeadline(c)
       PROVE  TypeOK'
  BY <1>10 DEF PassDeadline, service, connection, client
<1>11. ASSUME NEW c \in Calls, Commit(c) \/ Rollback(c) \/ Crash(c)
       PROVE  TypeOK'
  BY <1>11 DEF Commit, Rollback, Crash, LetGo, service, client
<1>12. CASE UNCHANGED vars
  BY <1>12 DEF vars, service, connection, client
<1>13. QED
  BY <1>1, <1>2, <1>3, <1>4, <1>5, <1>6, <1>7, <1>8, <1>9, <1>10, <1>11, <1>12
     DEF Next, Step

\* The types of all variables, for any number of calls.
THEOREM TypeCorrect == Spec => []TypeOK
  BY TypeInit, TypeStep, PTL DEF Spec
-----------------------------------------------------------------------------
(* The credentials.                                                        *)

LEMMA TokenInit == Init => TokenInv
<1> SUFFICES ASSUME Init
             PROVE  TokenInv
  OBVIOUS
<1>1. TypeOK
  BY TypeInit
<1>2. QED
  BY <1>1 DEF Init, TokenInv, Whole, FirstGrant

LEMMA TokenStep == TokenInv /\ [Next]_vars => TokenInv'
<1> SUFFICES ASSUME TokenInv, [Next]_vars
             PROVE  TokenInv'
  OBVIOUS
<1>1. TypeOK /\ TypeOK'
  BY TypeStep DEF TokenInv
<1> USE <1>1 DEF TokenInv, Whole
<1>2. CASE Connect
  BY <1>2 DEF Connect, client
<1>3. ASSUME NEW c \in Calls, Begin(c)
      PROVE  TokenInv'
  BY <1>3 DEF Begin, ProduceVideo, TikTokUploader, InstagramUploader,
              YouTubeShortsUploader, Start, connection, TypeOK
<1>4. ASSUME NEW c \in Calls, SaveToken(c)
      PROVE  TokenInv'
  BY <1>4 DEF SaveToken, TypeOK, Credentials
<1>5. ASSUME NEW c \in Calls, Commit(c)
      PROVE  TokenInv'
  BY <1>5 DEF Commit, client
<1>6. ASSUME NEW c \in Calls, Requested(c)
      PROVE  TokenInv'
  BY <1>6, RequestsFit DEF RequestBy, Request, connection
<1>7. CASE UNCHANGED <<stored, draft, creds>>
  BY <1>7
<1>8. QED
  BY <1>2, <1>3, <1>4, <1>5, <1>6, <1>7
     DEF Next, Step, Work, RequestFails, Unauthorized, CheckToken, Refresh, Poll,
         WaitForPublish, WaitForCompletion, DownloadVideo, PollFails, GiveUp, PassDeadline, Rollback, Crash,
         vars, service, connection, client

\* However publications and reconnects interleave, the access token of the
\* connection belongs to the authorisation beside it.
THEOREM TokensMatch == Spec => []TokenMatchesGrant
<1>1. TokenInv => TokenMatchesGrant
  BY DEF TokenInv, TokenMatchesGrant, Whole
<1>2. QED
  BY <1>1, TokenInit, TokenStep, PTL DEF Spec
-----------------------------------------------------------------------------
(* The promise.                                                            *)

LEMMA CallInit == Init => CallInv
<1> SUFFICES ASSUME Init
             PROVE  CallInv
  OBVIOUS
<1>1. TypeOK
  BY TypeInit
<1>2. QED
  BY <1>1 DEF Init, CallInv, Agrees

\* A request finds the service as the request before it has left it.
LEMMA RequestStep ==
  ASSUME CallInv, NEW c \in Calls, NEW k, NEW l, NEW m, NEW next,
         Fits(k, l, m, next), Request(c, k, l, m, next)
  PROVE  /\ made[c] = 0 /\ result[c] = "none"
         /\ Agrees(c)'
         /\ result'[c] = "ok" => m = "done"
<1> USE DEF CallInv, Agrees, TypeOK, Request, Ask, Requests
<1>1. /\ made[c] = 0 /\ result[c] = "none" /\ media[c] \in {"none", "opened"}
      /\ kind[c] = k /\ kind'[c] = k /\ pc[c] = l
  OBVIOUS
<1>2. /\ media'[c] = m
      /\ made'[c] = IF m = "done" THEN 1 ELSE 0
  BY <1>1 DEF Becomes
<1>3. CASE End(c, "unknown")
  BY <1>1, <1>2, <1>3 DEF End, Fits
<1>4. CASE Proceed(c, next)
  <2>1. PICK n \in next : IF n = "over" THEN End(c, "ok") ELSE Goto(c, n)
    BY <1>4 DEF Proceed
  <2>2. pc'[c] = n /\ result'[c] = IF n = "over" THEN "ok" ELSE "none"
    BY <1>1, <2>1 DEF End, Goto
  <2>3. QED
    BY <1>1, <1>2, <2>1, <2>2 DEF Fits
<1>5. QED
  BY <1>1, <1>3, <1>4

LEMMA CallStep == CallInv /\ [Next]_vars => CallInv'
<1> SUFFICES ASSUME CallInv, [Next]_vars
             PROVE  CallInv'
  OBVIOUS
<1>1. TypeOK /\ TypeOK'
  BY TypeStep DEF CallInv
<1>2. SUFFICES ASSUME NEW d \in Calls
               PROVE  Agrees(d)'
  BY <1>1 DEF CallInv
<1> USE <1>1 DEF CallInv, TypeOK, Requests
<1>3. ASSUME NEW c \in Calls, Work(c)
      PROVE  Agrees(d)'
  BY <1>3 DEF Work, Becomes, Agrees
<1>4. ASSUME NEW c \in Calls, Begin(c)
      PROVE  Agrees(d)'
  BY <1>4 DEF Begin, ProduceVideo, TikTokUploader, InstagramUploader,
              YouTubeShortsUploader, Start, service, Goto, End, Agrees
<1>5. ASSUME NEW c \in Calls, Requested(c)
      PROVE  Agrees(d)'
  <2>1. PICK k, l, m, next : Fits(k, l, m, next) /\ Request(c, k, l, m, next)
    BY <1>5, RequestsFit DEF RequestBy
  <2>2. CASE d = c
    BY <2>1, <2>2, RequestStep
  <2>3. CASE d # c
    BY <2>1, <2>3 DEF Request, Becomes, Proceed, Goto, End, Agrees
  <2>4. QED
    BY <2>2, <2>3
<1>6. ASSUME NEW c \in Calls, RequestFails(c) \/ Refresh(c)
      PROVE  Agrees(d)'
  BY <1>6 DEF RequestFails, Refresh, Ask, End, service, Agrees
<1>7. ASSUME NEW c \in Calls, WaitForPublish(c) \/ WaitForCompletion(c) \/ GiveUp(c)
      PROVE  Agrees(d)'
  BY <1>7 DEF WaitForPublish, WaitForCompletion, Poll, GiveUp, Goto, End, service, Agrees
<1>8. ASSUME NEW c \in Calls, DownloadVideo(c) \/ PollFails(c)
      PROVE  Agrees(d)'
  BY <1>8 DEF DownloadVideo, PollFails, End, service, Agrees
<1>9. ASSUME NEW c \in Calls, Commit(c) \/ Rollback(c) \/ Crash(c)
      PROVE  Agrees(d)'
  BY <1>9 DEF Commit, Rollback, Crash, Active, LetGo, service, Agrees
<1>10. CASE UNCHANGED <<kind, service, pc, result>>
  BY <1>10 DEF service, Agrees
<1>11. QED
  BY <1>3, <1>4, <1>5, <1>6, <1>7, <1>8, <1>9, <1>10
     DEF Next, Step, Connect, Unauthorized, CheckToken, SaveToken, PassDeadline, vars

LEMMA PromiseInit == Init => Promised!Start
  BY DEF Init, Promised!Start

LEMMA PromiseStep ==
  CallInv /\ [Next]_vars => [Promised!Promise]_<<made, result>>
<1> SUFFICES ASSUME CallInv, [Next]_vars
             PROVE  [Promised!Promise]_<<made, result>>
  OBVIOUS
<1> USE DEF CallInv, TypeOK, Requests
<1> DEFINE Kept == \E c \in Calls : \/ Promised!MakeUnseen(c) \/ Promised!Succeed(c)
                                    \/ Promised!Refuse(c) \/ Promised!BreakOff(c)
<1>1. Kept => Promised!Promise
  BY DEF Promised!Promise
<1> USE DEF Promised!Answer, Promised!Make
<1>2. ASSUME NEW c \in Calls, Work(c)
      PROVE  Kept \/ UNCHANGED <<made, result>>
  BY <1>2 DEF Work, Becomes, Agrees, Promised!MakeUnseen
<1>3. ASSUME NEW c \in Calls, Begin(c)
      PROVE  Kept \/ UNCHANGED <<made, result>>
  BY <1>3 DEF Begin, ProduceVideo, TikTokUploader, InstagramUploader,
              YouTubeShortsUploader, Start, service, Goto, End, Agrees, Promised!Refuse
<1>4. ASSUME NEW c \in Calls, Requested(c)
      PROVE  Kept \/ UNCHANGED <<made, result>>
  <2>1. PICK k, l, m, next : Fits(k, l, m, next) /\ Request(c, k, l, m, next)
    BY <1>4, RequestsFit DEF RequestBy
  <2>2. /\ made[c] = 0 /\ result[c] = "none"
        /\ result'[c] = "ok" => m = "done"
    BY <2>1, RequestStep
  <2>3. made' = IF m = "done" THEN [made EXCEPT ![c] = 1] ELSE made
    <3>1. CASE m = "done"
      BY <2>1, <2>2, <3>1 DEF Request, Becomes
    <3>2. CASE m # "done"
      BY <2>1, <3>2 DEF Request, Becomes
    <3>3. QED
      BY <3>1, <3>2
  <2>4. \/ result' = result
        \/ result' = [result EXCEPT ![c] = "unknown"]
        \/ result' = [result EXCEPT ![c] = "ok"]
    BY <2>1 DEF Request, Proceed, Goto, End
  <2>5. CASE result' = result
    BY <2>2, <2>3, <2>5 DEF Promised!MakeUnseen
  <2>6. CASE result' = [result EXCEPT ![c] = "unknown"]
    BY <2>2, <2>3, <2>6 DEF Promised!BreakOff
  <2>7. CASE result' = [result EXCEPT ![c] = "ok"]
    BY <2>2, <2>3, <2>7 DEF Promised!Succeed
  <2>8. QED
    BY <2>4, <2>5, <2>6, <2>7
<1>5. ASSUME NEW c \in Calls, RequestFails(c) \/ Refresh(c)
      PROVE  Kept \/ UNCHANGED <<made, result>>
  BY <1>5 DEF RequestFails, Refresh, Ask, End, service, Agrees,
              Promised!Refuse, Promised!BreakOff
<1>6. ASSUME NEW c \in Calls, WaitForPublish(c) \/ WaitForCompletion(c) \/ GiveUp(c)
      PROVE  Kept \/ UNCHANGED <<made, result>>
  BY <1>6 DEF WaitForPublish, WaitForCompletion, Poll, GiveUp, Goto, End, service, Agrees,
              Promised!Succeed, Promised!Refuse, Promised!BreakOff
<1>7. ASSUME NEW c \in Calls, DownloadVideo(c) \/ PollFails(c)
      PROVE  Kept \/ UNCHANGED <<made, result>>
  BY <1>7 DEF DownloadVideo, PollFails, End, service, Agrees,
              Promised!Succeed, Promised!BreakOff
<1>8. ASSUME NEW c \in Calls, Crash(c)
      PROVE  Kept \/ UNCHANGED <<made, result>>
  BY <1>8 DEF Crash, service, Promised!BreakOff
<1>9. CASE UNCHANGED <<made, result>>
  BY <1>9
<1>10. QED
  BY <1>1, <1>2, <1>3, <1>4, <1>5, <1>6, <1>7, <1>8, <1>9
     DEF Next, Step, Connect, Unauthorized, CheckToken, SaveToken, Commit, Rollback,
         PassDeadline, vars, service

\* Every conversation implements CallPromise, with any number of them.
THEOREM PromiseKept == Spec => KeepsPromise
<1>1. Spec => []CallInv
  BY CallInit, CallStep, PTL DEF Spec
<1>2. QED
  BY <1>1, PromiseInit, PromiseStep, PTL DEF Spec, KeepsPromise, Promised!PromiseSpec
=============================================================================
