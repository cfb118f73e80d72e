---------------------------- MODULE RateLimiter -----------------------------
(***************************************************************************)
(* crates/perplex-edge/src/ratelimit.rs: the layer every request passes,   *)
(* with the in-memory bucket or the script run in Redis.                   *)
(*                                                                         *)
(* A request reads the clock, then takes the bucket's lock, or reaches     *)
(* Redis, some time later.  Tokens are counted in units of 1/SECOND, so    *)
(* that a tick of the clock refills refill_per_sec units.                  *)
(*                                                                         *)
(* `meter` is not in the code: what each caller got through since a moment *)
(* chosen freely, and how far the clocks its checks used lagged behind.    *)
(***************************************************************************)
EXTENDS Integers

CONSTANTS
    Requests,               \* requests in flight
    Wallets, Ips,
    Jwts,                   \* tokens clients hold: [sub, exp]
    LEEWAY,                 \* what jsonwebtoken adds to exp
    SECOND,                 \* ticks in a second
    PUBLIC, AUTHED,         \* [capacity, refill_per_sec]
    EXPIRE,                 \* the script's PEXPIRE, in ticks
    MaxClock, MaxRequests

Callers == Wallets \cup Ips

\* A bucket forgotten by Redis would have filled up by itself.
ASSUME LimiterAssumption ==
    /\ Wallets \cap Ips = {} /\ \A t \in Jwts : t.sub \in Wallets
    /\ SECOND \in Nat \ {0} /\ EXPIRE \in Nat
    /\ \A l \in {PUBLIC, AUTHED} :
        /\ l.capacity \in Nat \ {0} /\ l.refill_per_sec \in Nat
        /\ l.refill_per_sec * EXPIRE >= l.capacity * SECOND

VARIABLES
    redis,          \* which bucket the edge was built with
    clock,
    req,            \* request -> its progress
    bucket,         \* key -> [tokens, updated, touched, known]
    meter,          \* caller -> [since, passed, lag]
    sent,           \* requests so far
    marked          \* has measuring started anew

limiterVars == <<redis, clock, req, bucket, meter, sent, marked>>

NoRequest == [at |-> "idle"]
NoBucket == [tokens |-> 0, updated |-> 0, touched |-> 0, known |-> FALSE]
NewMeter(now) == [since |-> now, passed |-> 0, lag |-> 0]

\* The wallet of a token verify_jwt accepts, the address of the peer else.
\* token is the set of JWTs in the request, at most one.
Caller(ip, token) ==
    IF \E t \in token : clock <= t.exp + LEEWAY THEN (CHOOSE t \in token : TRUE).sub ELSE ip

Limit(caller) == IF caller \in Wallets THEN AUTHED ELSE PUBLIC

classify(ip, token) == [key |-> Caller(ip, token), limit |-> Limit(Caller(ip, token))]

\* A request reaches the layer and its check reads the clock.
Enter(r, ip, token) ==
    /\ req[r].at = "idle" /\ sent < MaxRequests
    /\ LET class == classify(ip, token) IN
       req' = [req EXCEPT ![r] = [at |-> "entered", now |-> clock, caller |-> Caller(ip, token),
                                  key |-> class.key, limit |-> class.limit]]
    /\ sent' = sent + 1
    /\ UNCHANGED <<redis, clock, bucket, meter, marked>>

\* Mutant: a bucket left alone keeps filling.
RefilledUncapped(b, limit, now) ==
    LET elapsed == IF now > b.updated THEN now - b.updated ELSE 0
    IN  [b EXCEPT !.tokens = @ + elapsed * limit.refill_per_sec, !.updated = now]

Least(x, y) == IF x < y THEN x ELSE y

\* The refill both buckets compute; `now` may be behind `updated`.
Refilled(b, limit, now) ==
    LET elapsed == IF now > b.updated THEN now - b.updated ELSE 0
    IN  [b EXCEPT !.tokens = Least(limit.capacity * SECOND, @ + elapsed * limit.refill_per_sec),
                  !.updated = now]

Full(limit, now) == [tokens |-> limit.capacity * SECOND, updated |-> now, touched |-> clock, known |-> TRUE]

\* The entry found: none at first, and none once Redis let the key expire.
Found(b, limit, now) ==
    IF b.known /\ ~(redis /\ clock >= b.touched + EXPIRE) THEN b ELSE Full(limit, now)

\* InMemoryBucket::check, or the script run by RedisBucket::check; the layer
\* runs the handler or answers 429.
Check(r) ==
    /\ req[r].at = "entered"
    /\ LET b == Refilled(Found(bucket[req[r].key], req[r].limit, req[r].now), req[r].limit, req[r].now)
           allowed == b.tokens >= SECOND
       IN  /\ bucket' = [bucket EXCEPT ![req[r].key] =
                            [b EXCEPT !.tokens = IF allowed THEN @ - SECOND ELSE @, !.touched = clock]]
           /\ meter' = [meter EXCEPT ![req[r].caller] =
                            [since |-> @.since, passed |-> IF allowed THEN @.passed + 1 ELSE @.passed,
                             lag |-> @.lag + clock - req[r].now]]
    /\ req' = [req EXCEPT ![r] = NoRequest]
    /\ UNCHANGED <<redis, clock, sent, marked>>

\* Redis out of reach: the layer lets the request through, uncounted.
CheckFails(r) ==
    /\ redis /\ req[r].at = "entered"
    /\ req' = [req EXCEPT ![r] = NoRequest]
    /\ UNCHANGED <<redis, clock, bucket, meter, sent, marked>>

Tick ==
    /\ clock < MaxClock
    /\ clock' = clock + 1
    /\ UNCHANGED <<redis, req, bucket, meter, sent, marked>>

\* Start measuring every caller anew.
Mark ==
    /\ ~marked
    /\ marked' = TRUE
    /\ meter' = [c \in Callers |-> NewMeter(clock)]
    /\ UNCHANGED <<redis, clock, req, bucket, sent>>

LimiterInit ==
    /\ redis \in BOOLEAN
    /\ clock = 0
    /\ req = [r \in Requests |-> NoRequest]
    /\ bucket = [c \in Callers |-> NoBucket]
    /\ meter = [c \in Callers |-> NewMeter(0)]
    /\ sent = 0
    /\ marked = FALSE

LimiterNext ==
    \/ \E r \in Requests, ip \in Ips, token \in {{}} \cup {{t} : t \in Jwts} : Enter(r, ip, token)
    \/ \E r \in Requests : Check(r) \/ CheckFails(r)
    \/ Tick
    \/ Mark

LimiterSpec == LimiterInit /\ [][LimiterNext]_limiterVars

-----------------------------------------------------------------------------
(* Properties *)

\* However requests overlap and whenever one starts to count, a caller gets
\* through at most its burst, what refills in the time that passed, and what
\* refills in the time its own checks waited between reading the clock and
\* taking the lock: a check that comes late sets `updated` back, and the time
\* is counted again.  Redis forgetting an idle bucket adds nothing.
RateBounded ==
    \A c \in Callers :
        SECOND * meter[c].passed <=
            SECOND * Limit(c).capacity + Limit(c).refill_per_sec * (clock - meter[c].since + meter[c].lag)
=============================================================================
