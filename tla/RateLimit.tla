------------------------------ MODULE RateLimit -----------------------------
(***************************************************************************)
(* The rate limiter in front of the API: the hits of one bucket (client,   *)
(* method and path) in a sorted set of Redis.  A request counts the hits   *)
(* of its window in one call and adds its own in another; a denied request *)
(* adds none, and an error of Redis lets the request through.              *)
(***************************************************************************)
EXTENDS Integers, FiniteSets, SequencesExt

CONSTANTS
  Requests,    \* HTTP requests of the bucket
  Routes,      \* <<method, path>> that requests may name
  Calls,       \* the number of calls of each policy
  Window,      \* their period, 60 s
  Concurrent,  \* requests of the bucket that the API handles at a time
  MaxInstant   \* bound: ticks

ASSUME LimiterAssumption ==
  /\ IsFiniteSet(Requests)
  /\ Calls \in [{"login", "auth", "other"} -> Nat \ {0}]
  /\ Window \in Nat \ {0} /\ Concurrent \in Nat \ {0} /\ MaxInstant \in Nat

\* EXACT_RATE_LIMIT_POLICIES, then the longest matching prefix, then the
\* default; all prefixes but /auth have the numbers of the default.
Policy(method, path) ==
  IF method = "POST" /\ path \in {<<"auth", "token">>, <<"auth", "register">>} THEN "login"
  ELSE IF IsPrefix(<<"auth">>, path) THEN "auth"
  ELSE "other"

VARIABLES
  limit,    \* calls allowed to the bucket
  instant,  \* time.time()
  hits,     \* requests in the sorted set
  score,    \* the time that each request has read
  expiry,   \* when Redis drops the key
  step      \* of each request

limiterVars == <<limit, instant, hits, score, expiry, step>>

GraceTicks == 1  \* the key outlives the window by 60 s
Never == MaxInstant + Window + GraceTicks + 1

LimiterInit ==
  /\ \E r \in Routes : limit = Calls[Policy(r[1], r[2])]
  /\ instant = 0 /\ hits = {} /\ expiry = Never
  /\ score = [r \in Requests |-> 0]
  /\ step = [r \in Requests |-> "new"]
-----------------------------------------------------------------------------
In(s)   == {r \in Requests : step[r] = s}
Open    == In("count") \cup In("add") \cup In("expire")
Live(r) == score[r] > instant - Window
StepGoes(r, s) == step' = [step EXCEPT ![r] = s]

Arrive(r) ==
  /\ step[r] = "new" /\ Cardinality(Open) < Concurrent
  /\ score' = [score EXCEPT ![r] = instant]
  /\ StepGoes(r, "count")
  /\ UNCHANGED <<limit, instant, hits, expiry>>

\* Mutant: the limit itself is still let in.
AtLimitLate(kept) == Cardinality(kept) > limit

AtLimit(kept) == Cardinality(kept) >= limit

\* _reserve_slot: the hits that have left the request's window are removed, the
\* others are counted.
Count(r) ==
  LET kept == {h \in hits : score[h] > score[r] - Window}
  IN /\ step[r] = "count"
     /\ hits' = kept
     /\ expiry' = IF kept = {} THEN Never ELSE expiry
     /\ StepGoes(r, IF AtLimit(kept) THEN "denied" ELSE "add")
     /\ UNCHANGED <<limit, instant, score>>

\* _add_hit: ZADD, then EXPIRE.
AddHit(r) ==
  /\ step[r] = "add"
  /\ hits' = hits \cup {r}
  /\ StepGoes(r, "expire")
  /\ UNCHANGED <<limit, instant, score, expiry>>

Expire(r) ==
  /\ step[r] = "expire"
  /\ expiry' = IF hits = {} THEN Never ELSE instant + Window + GraceTicks
  /\ StepGoes(r, "passed")
  /\ UNCHANGED <<limit, instant, hits, score>>

\* An error of Redis or of the connection to it, which may have come after ZADD.
FailOpen(r) ==
  /\ r \in Open
  /\ hits' \in {hits} \cup {hits \cup {h} : h \in {r} \cap In("add")}
  /\ StepGoes(r, "passed")
  /\ UNCHANGED <<limit, instant, score, expiry>>

\* The worker process ends with the request.
LoseWorker(r) ==
  /\ r \in Open
  /\ hits' \in {hits} \cup {hits \cup {h} : h \in {r} \cap In("add")}
  /\ StepGoes(r, "lost")
  /\ UNCHANGED <<limit, instant, score, expiry>>

DropKey ==
  /\ instant >= expiry
  /\ hits' = {} /\ expiry' = Never
  /\ UNCHANGED <<limit, instant, score, step>>

Pass ==
  /\ instant < MaxInstant /\ instant < expiry
  /\ instant' = instant + 1
  /\ UNCHANGED <<limit, hits, score, expiry, step>>

LimiterNext ==
  \/ \E r \in Requests : \/ Arrive(r) \/ Count(r) \/ AddHit(r) \/ Expire(r)
                         \/ FailOpen(r) \/ LoseWorker(r)
  \/ DropKey \/ Pass

LimiterSpec == LimiterInit /\ [][LimiterNext]_limiterVars
-----------------------------------------------------------------------------
(* Properties.                                                             *)

\* The requests have their steps, and a hit is a request that was let through.
LimiterTypeOK ==
  /\ limit \in Nat \ {0} /\ instant \in Nat /\ expiry \in Nat
  /\ score \in [Requests -> Nat]
  /\ step \in [Requests -> {"new", "count", "add", "expire", "passed", "denied", "lost"}]
  /\ hits \subseteq Requests

\* However the requests interleave, the hits that are stored within the window
\* and those about to be stored exceed the limit by the requests handled at a
\* time, less one: by no more than the others that had counted before the last
\* hits were added.
OvershootBounded ==
  Cardinality({h \in hits : Live(h)} \cup In("add")) < limit + Concurrent
=============================================================================
