----------------------------- MODULE EdgeProofs -----------------------------
(***************************************************************************)
(* The edge's rate limiter (RateLimiter) and the trading screen before it  *)
(* (TradeScreen), each for any number of callers, requests and rows.       *)
(***************************************************************************)
EXTENDS TradeScreen, RateLimiter, TLAPS

-----------------------------------------------------------------------------
(***************************************************************************)
(* For any callers, limits and requests in flight, either bucket and any   *)
(* moment one starts to count: what a caller gets through is bounded.      *)
(*                                                                         *)
(* The bound alone is not inductive: a bucket may hold tokens that were    *)
(* never counted.  The invariant counts what has passed together with what *)
(* the bucket could still give (Credit): its tokens and what refilled      *)
(* since it was updated, no more than its capacity.  A check leaves no     *)
(* more than the credit, whether its clock is ahead of the bucket's or     *)
(* behind it, and a bucket that Redis forgot had all of it back.           *)
(***************************************************************************)
Bucket == [tokens : Nat, updated : Nat, touched : Nat, known : BOOLEAN]
Meter == [since : Nat, passed : Nat, lag : Nat]

LimiterTypeOK ==
    /\ clock \in Nat
    /\ DOMAIN req = Requests
    /\ bucket \in [Callers -> Bucket]
    /\ meter \in [Callers -> Meter]

\* A request is counted against the bucket and the limit of its caller, and
\* its clock is not ahead.
RequestsOK ==
    \A r \in Requests : req[r].at = "entered" =>
        /\ req[r].caller \in Callers /\ req[r].key = req[r].caller /\ req[r].limit = Limit(req[r].caller)
        /\ req[r].now \in Nat /\ req[r].now <= clock

ClocksOK ==
    \A c \in Callers :
        /\ bucket[c].updated <= bucket[c].touched /\ bucket[c].touched <= clock
        /\ meter[c].since <= clock

Capacity(c) == Limit(c).capacity * SECOND
Rate(c) == Limit(c).refill_per_sec

\* What the bucket could still give.
CreditOf(b, c) ==
    IF b.known THEN Least(Capacity(c), b.tokens + Rate(c) * (clock - b.updated)) ELSE Capacity(c)
Credit(c) == CreditOf(bucket[c], c)

Counted ==
    \A c \in Callers :
        SECOND * meter[c].passed + Credit(c) <= Capacity(c) + Rate(c) * (clock - meter[c].since + meter[c].lag)

LimiterInv == LimiterTypeOK /\ RequestsOK /\ ClocksOK /\ Counted

-----------------------------------------------------------------------------
(***************************************************************************)
(* Arithmetic.                                                             *)
(***************************************************************************)
\* A longer time refills no less.
LEMMA Grows ==
    ASSUME NEW k \in Nat, NEW x \in Int, NEW y \in Int, x <= y
    PROVE  k * x <= k * y /\ k * x \in Int /\ k * y \in Int
OBVIOUS

\* Two times in a row refill what their sum does.
LEMMA Distributes ==
    ASSUME NEW k \in Int, NEW x \in Int, NEW y \in Int
    PROVE  k * (x + y) = k * x + k * y
OBVIOUS

\* What the assumptions say of one caller's limit.
LEMMA LimitType ==
    ASSUME NEW c \in Callers
    PROVE  /\ Limit(c).capacity \in Nat /\ Rate(c) \in Nat /\ SECOND \in Nat /\ EXPIRE \in Nat
           /\ Capacity(c) \in Nat /\ Rate(c) * EXPIRE >= Capacity(c)
BY LimiterAssumption DEF Limit, Rate, Capacity

-----------------------------------------------------------------------------
(***************************************************************************)
(* The bucket a check finds and refills holds no more than the credit.     *)
(***************************************************************************)
LEMMA RefilledWithinCredit ==
    ASSUME LimiterTypeOK, ClocksOK, NEW c \in Callers, NEW seen \in Nat, seen <= clock
    PROVE  LET b == Refilled(Found(bucket[c], Limit(c), seen), Limit(c), seen) IN
           b \in Bucket /\ b.updated = seen /\ b.known /\ b.tokens <= Credit(c)
<1> DEFINE o == bucket[c]
           f == Found(o, Limit(c), seen)
           b == Refilled(f, Limit(c), seen)
           elapsed == IF seen > f.updated THEN seen - f.updated ELSE 0
<1>1. o \in Bucket /\ clock \in Nat /\ o.updated <= o.touched /\ o.touched <= clock
  BY DEF LimiterTypeOK, ClocksOK
<1>2. o.tokens \in Nat /\ o.updated \in Nat /\ o.touched \in Nat /\ clock - o.updated \in Nat
  BY <1>1 DEF Bucket
<1>3. Rate(c) \in Nat /\ Capacity(c) \in Nat /\ EXPIRE \in Nat /\ Rate(c) * EXPIRE >= Capacity(c)
  BY LimitType
<1>4. Full(Limit(c), seen) \in Bucket
  BY <1>1, <1>3 DEF Full, Bucket, Capacity
<1>5. f \in Bucket /\ f.known /\ f.updated \in Nat /\ f.tokens \in Nat
  <2>1. CASE f = o /\ o.known
    BY <1>1, <2>1 DEF Bucket
  <2>2. CASE f = Full(Limit(c), seen)
    BY <1>4, <2>2 DEF Full, Bucket
  <2>3. QED
    BY <2>1, <2>2, Zenon DEF Found
<1>6. elapsed \in Nat /\ elapsed * Rate(c) \in Nat
  <2>1. elapsed \in Nat
    BY <1>5
  <2> HIDE DEF elapsed
  <2>2. QED
    BY <1>3, <2>1
<1>7. b = [f EXCEPT !.tokens = Least(Capacity(c), f.tokens + elapsed * Rate(c)), !.updated = seen]
  BY DEF Refilled, Capacity, Rate
<1> HIDE DEF elapsed, f
<1>9. Least(Capacity(c), f.tokens + elapsed * Rate(c)) \in Nat
  BY <1>3, <1>5, <1>6 DEF Least
<1>10. /\ b \in Bucket /\ b.updated = seen /\ b.known /\ b.tokens \in Nat
       /\ b.tokens = Least(Capacity(c), f.tokens + elapsed * Rate(c))
  BY <1>5, <1>7, <1>9, Zenon DEF Bucket
<1>11. b.tokens <= Credit(c)
  <2> HIDE DEF b
  <2>1. CASE f = o /\ o.known
    <3>1. elapsed <= clock - o.updated
      BY <1>1, <1>2, <2>1 DEF elapsed
    <3>2. elapsed * Rate(c) <= Rate(c) * (clock - o.updated) /\ Rate(c) * (clock - o.updated) \in Int
      BY <1>2, <1>3, <1>6, <3>1, Grows
    <3>3. QED
      BY <1>2, <1>3, <1>6, <1>10, <2>1, <3>2 DEF Credit, CreditOf, Least
  <2>2. CASE ~(f = o /\ o.known)
    <3>1. b.tokens <= Capacity(c)
      BY <1>3, <1>5, <1>6, <1>10 DEF Least
    <3>2. ~o.known \/ clock >= o.touched + EXPIRE
      BY <2>2 DEF f, Found
    <3>3. CASE ~o.known
      BY <3>1, <3>3 DEF Credit, CreditOf
    <3>4. CASE clock >= o.touched + EXPIRE
      <4>1. EXPIRE <= clock - o.updated
        BY <1>1, <1>2, <1>3, <3>4
      <4>2. Rate(c) * EXPIRE <= Rate(c) * (clock - o.updated) /\ Rate(c) * (clock - o.updated) \in Int
        BY <1>2, <1>3, <4>1, Grows
      <4>3. Capacity(c) <= o.tokens + Rate(c) * (clock - o.updated)
        BY <1>2, <1>3, <4>2
      <4>4. QED
        BY <1>2, <1>3, <1>10, <3>1, <4>2, <4>3 DEF Credit, CreditOf, Least
    <3>5. QED
      BY <3>2, <3>3, <3>4
  <2>3. QED
    BY <2>1, <2>2
<1>12. QED
  BY <1>10, <1>11 DEF f

-----------------------------------------------------------------------------
\* A check: what passes is paid from the credit.
LEMMA CheckStep ==
    ASSUME LimiterInv, NEW r \in Requests, NEW c, NEW seen, c = req[r].caller, seen = req[r].now, Check(r)
    PROVE  LimiterInv'
<1> USE DEF LimiterInv
<1> DEFINE d == clock - seen
           b == Refilled(Found(bucket[req[r].key], req[r].limit, req[r].now), req[r].limit, req[r].now)
           allowed == b.tokens >= SECOND
           left == IF allowed THEN b.tokens - SECOND ELSE b.tokens
           got == IF allowed THEN meter[c].passed + 1 ELSE meter[c].passed
           n == [b EXCEPT !.tokens = IF allowed THEN @ - SECOND ELSE @, !.touched = clock]
           m == [since |-> meter[c].since, passed |-> got, lag |-> meter[c].lag + clock - seen]
<1>1. /\ c \in Callers /\ req[r].key = c /\ req[r].limit = Limit(c)
      /\ seen \in Nat /\ seen <= clock /\ clock \in Nat /\ clock' = clock
  BY DEF Check, RequestsOK, LimiterTypeOK
<1>2. b \in Bucket /\ b.updated = seen /\ b.known /\ b.tokens <= Credit(c) /\ b.tokens \in Nat
  <2>1. b = Refilled(Found(bucket[c], Limit(c), seen), Limit(c), seen)
    BY <1>1
  <2>2. QED
    BY <1>1, <2>1, RefilledWithinCredit DEF Bucket
<1>3. /\ bucket' = [bucket EXCEPT ![req[r].key] = n]
      /\ meter' = [meter EXCEPT ![req[r].caller] =
                       [since |-> @.since, passed |-> IF allowed THEN @.passed + 1 ELSE @.passed,
                        lag |-> @.lag + clock - req[r].now]]
  BY Zenon DEF Check
<1>4. DOMAIN req' = Requests /\ req'[r].at = "idle" /\ \A q \in Requests \ {r} : req'[q] = req[q]
  BY DEF Check, LimiterTypeOK, NoRequest
<1> HIDE DEF b
<1>5. /\ meter[c] \in Meter /\ meter[c].passed \in Nat /\ meter[c].lag \in Nat /\ meter[c].since \in Nat
      /\ SECOND \in Nat /\ Rate(c) \in Nat /\ Capacity(c) \in Nat /\ d \in Nat
  BY <1>1, LimitType DEF LimiterTypeOK, Meter
<1>6. left \in Nat /\ got \in Nat /\ SECOND * got + left = SECOND * meter[c].passed + b.tokens
  <2>1. CASE allowed
    <3>1. SECOND * (meter[c].passed + 1) = SECOND * meter[c].passed + SECOND
      BY <1>5, Distributes
    <3>2. SECOND * meter[c].passed \in Int
      BY <1>5
    <3>3. QED
      BY <1>2, <1>5, <2>1, <3>1, <3>2
  <2>2. CASE ~allowed
    BY <1>2, <1>5, <2>2, Zenon
  <2>3. QED
    BY <2>1, <2>2, Zenon
<1> HIDE DEF allowed
<1>7. /\ n \in Bucket /\ n.tokens = left /\ n.updated = seen /\ n.touched = clock /\ n.known
      /\ m \in Meter /\ m.since = meter[c].since /\ m.passed = got /\ m.lag = meter[c].lag + d
  <2>1. n = [b EXCEPT !.tokens = left, !.touched = clock]
    BY <1>2 DEF Bucket
  <2> HIDE DEF n, left, got
  <2>3. n \in Bucket /\ n.tokens = left /\ n.updated = seen /\ n.touched = clock /\ n.known
    BY <1>1, <1>2, <1>6, <2>1, Zenon DEF Bucket
  <2>4. meter[c].lag + clock - seen \in Nat /\ meter[c].lag + clock - seen = meter[c].lag + d
    BY <1>1, <1>5
  <2>5. m \in Meter /\ m.since = meter[c].since /\ m.passed = got /\ m.lag = meter[c].lag + d
    BY <1>5, <1>6, <2>4, Zenon DEF Meter
  <2>6. QED
    BY <2>3, <2>5
<1>8. meter' = [meter EXCEPT ![c] = m]
  BY <1>3
<1> HIDE DEF n, m, left, got
<1>9. /\ bucket' \in [Callers -> Bucket] /\ bucket'[c] = n /\ \A e \in Callers \ {c} : bucket'[e] = bucket[e]
      /\ meter' \in [Callers -> Meter] /\ meter'[c] = m /\ \A e \in Callers \ {c} : meter'[e] = meter[e]
  BY <1>1, <1>3, <1>7, <1>8 DEF LimiterTypeOK
<1>10. LimiterTypeOK' /\ RequestsOK' /\ ClocksOK'
  BY <1>1, <1>4, <1>7, <1>9 DEF LimiterTypeOK, RequestsOK, ClocksOK
<1>11. \A e \in Callers \ {c} : Credit(e)' = Credit(e)
  BY <1>1, <1>9 DEF Credit, CreditOf
<1>12. Credit(c)' <= left + Rate(c) * d /\ Credit(c)' \in Int /\ Rate(c) * d \in Int
  <2>1. Rate(c) * d \in Int
    BY <1>5
  <2>2. Credit(c)' = Least(Capacity(c), left + Rate(c) * d)
    BY <1>1, <1>7, <1>9 DEF Credit, CreditOf
  <2>3. QED
    BY <1>5, <1>6, <2>1, <2>2 DEF Least
<1>13. Rate(c) * (clock - meter[c].since + m.lag)
         = Rate(c) * (clock - meter[c].since + meter[c].lag) + Rate(c) * d
       /\ Rate(c) * (clock - meter[c].since + meter[c].lag) \in Int
  <2>1. clock - meter[c].since + meter[c].lag \in Int
    BY <1>1, <1>5
  <2>2. clock - meter[c].since + m.lag = (clock - meter[c].since + meter[c].lag) + d
    BY <1>1, <1>5, <1>7
  <2>3. QED
    BY <1>5, <2>1, <2>2, Distributes
<1>14. SECOND * meter[c].passed + Credit(c)
         <= Capacity(c) + Rate(c) * (clock - meter[c].since + meter[c].lag)
  BY <1>1 DEF Counted
<1>15. Credit(c) \in Int /\ SECOND * meter[c].passed \in Int /\ SECOND * got \in Int
  <2>1. bucket[c].tokens \in Nat /\ clock - bucket[c].updated \in Int
    BY <1>1 DEF LimiterTypeOK, Bucket
  <2>2. Rate(c) * (clock - bucket[c].updated) \in Int
    BY <1>5, <2>1
  <2>3. QED
    BY <1>5, <1>6, <2>1, <2>2 DEF Credit, CreditOf, Least
<1> HIDE DEF d
<1>16. SECOND * got + Credit(c)' <= Capacity(c) + Rate(c) * (clock - meter[c].since + m.lag)
  BY <1>2, <1>5, <1>6, <1>12, <1>13, <1>14, <1>15
<1>17. Counted'
  BY <1>1, <1>7, <1>9, <1>11, <1>16 DEF Counted, Capacity, Rate
<1>18. QED
  BY <1>10, <1>17

-----------------------------------------------------------------------------
\* What is counted stays as it is.
LEMMA CountKept ==
    ASSUME Counted, UNCHANGED <<clock, bucket, meter>>
    PROVE  Counted'
BY DEF Counted, Credit, CreditOf, Capacity, Rate

\* A request that enters only reads its clock and its caller.
LEMMA EnterStep ==
    ASSUME LimiterInv, NEW r \in Requests, NEW ip \in Ips, NEW token \in {{}} \cup {{t} : t \in Jwts},
           Enter(r, ip, token)
    PROVE  LimiterInv'
<1> USE DEF LimiterInv
<1> DEFINE c == Caller(ip, token)
<1>1. c \in Callers
  <2>1. CASE \E t \in token : clock <= t.exp + LEEWAY
    <3>1. PICK t \in Jwts : token = {t}
      BY <2>1
    <3>2. (CHOOSE u \in token : TRUE) = t
      BY <3>1
    <3>3. QED
      BY <2>1, <3>1, <3>2, LimiterAssumption DEF Caller, Callers
  <2>2. CASE ~\E t \in token : clock <= t.exp + LEEWAY
    BY <2>2 DEF Caller, Callers
  <2>3. QED
    BY <2>1, <2>2
<1>2. req' = [req EXCEPT ![r] = [at |-> "entered", now |-> clock, caller |-> c, key |-> c, limit |-> Limit(c)]]
  BY DEF Enter, classify
<1>3. UNCHANGED <<clock, bucket, meter>>
  BY DEF Enter
<1> HIDE DEF c
<1>4. LimiterTypeOK' /\ ClocksOK'
  BY <1>2, <1>3 DEF LimiterTypeOK, ClocksOK
<1>5. RequestsOK'
  BY <1>1, <1>2, <1>3 DEF RequestsOK, LimiterTypeOK
<1>6. QED
  BY <1>3, <1>4, <1>5, CountKept

\* A check that Redis does not answer leaves bucket and meter alone.
LEMMA CheckFailsStep ==
    ASSUME LimiterInv, NEW r \in Requests, CheckFails(r)
    PROVE  LimiterInv'
<1> USE DEF LimiterInv
<1>1. UNCHANGED <<clock, bucket, meter>>
  BY DEF CheckFails
<1>2. LimiterTypeOK' /\ ClocksOK' /\ RequestsOK'
  BY <1>1 DEF CheckFails, NoRequest, LimiterTypeOK, ClocksOK, RequestsOK
<1>3. QED
  BY <1>1, <1>2, CountKept

\* In a tick the credit and the bound both grow by at most, and by exactly,
\* what refills in it.
LEMMA TickStep ==
    ASSUME LimiterInv, Tick
    PROVE  LimiterInv'
<1> USE DEF LimiterInv
<1>1. clock \in Nat /\ clock' = clock + 1 /\ UNCHANGED <<req, bucket, meter>>
  BY DEF Tick, LimiterTypeOK
<1>2. LimiterTypeOK' /\ RequestsOK' /\ ClocksOK'
  <2>1. LimiterTypeOK'
    BY <1>1 DEF LimiterTypeOK
  <2>2. RequestsOK'
    BY <1>1 DEF RequestsOK
  <2>3. \A c \in Callers : bucket[c].touched \in Nat /\ meter[c].since \in Nat
    BY DEF LimiterTypeOK, Bucket, Meter
  <2>4. ClocksOK'
    BY <1>1, <2>3 DEF ClocksOK
  <2>5. QED
    BY <2>1, <2>2, <2>4
<1>3. ASSUME NEW c \in Callers
      PROVE  SECOND * meter[c].passed + Credit(c)'
               <= Capacity(c) + Rate(c) * (clock' - meter[c].since + meter[c].lag)
  <2>1. Rate(c) \in Nat /\ Capacity(c) \in Nat /\ SECOND \in Nat
    BY LimitType
  <2>2. /\ bucket[c].tokens \in Nat /\ bucket[c].updated \in Nat
        /\ meter[c].passed \in Nat /\ meter[c].since \in Nat /\ meter[c].lag \in Nat
    BY DEF LimiterTypeOK, Bucket, Meter
  <2> DEFINE refilled == Rate(c) * (clock - bucket[c].updated)
             allowed == Rate(c) * (clock - meter[c].since + meter[c].lag)
  <2>3. refilled \in Int /\ allowed \in Int /\ SECOND * meter[c].passed \in Int
    BY <1>1, <2>1, <2>2
  <2>4. Rate(c) * (clock' - bucket[c].updated) = refilled + Rate(c)
    <3>1. clock - bucket[c].updated \in Int /\ clock' - bucket[c].updated = (clock - bucket[c].updated) + 1
      BY <1>1, <2>2
    <3>2. QED
      BY <2>1, <3>1, Distributes
  <2>5. Rate(c) * (clock' - meter[c].since + meter[c].lag) = allowed + Rate(c)
    <3>1. /\ clock - meter[c].since + meter[c].lag \in Int
          /\ clock' - meter[c].since + meter[c].lag = (clock - meter[c].since + meter[c].lag) + 1
      BY <1>1, <2>2
    <3>2. QED
      BY <2>1, <3>1, Distributes
  <2>6. SECOND * meter[c].passed + Credit(c) <= Capacity(c) + allowed
    BY DEF Counted
  <2>7. Credit(c) = IF bucket[c].known THEN Least(Capacity(c), bucket[c].tokens + refilled) ELSE Capacity(c)
    BY DEF Credit, CreditOf
  <2>8. Credit(c)' = IF bucket[c].known THEN Least(Capacity(c), bucket[c].tokens + (refilled + Rate(c)))
                     ELSE Capacity(c)
    BY <1>1, <2>4 DEF Credit, CreditOf, Capacity, Rate
  <2> HIDE DEF refilled, allowed
  <2>9. Credit(c)' <= Credit(c) + Rate(c) /\ Credit(c) \in Int /\ Credit(c)' \in Int
    BY <2>1, <2>2, <2>3, <2>7, <2>8 DEF Least
  <2>10. QED
    BY <2>1, <2>3, <2>5, <2>6, <2>9
<1>4. Counted'
  BY <1>1, <1>3 DEF Counted, Capacity, Rate
<1>5. QED
  BY <1>2, <1>4

\* Whenever counting starts, the bucket gives at most its capacity.
LEMMA MarkStep ==
    ASSUME LimiterInv, Mark
    PROVE  LimiterInv'
<1> USE DEF LimiterInv
<1>1. /\ clock \in Nat /\ UNCHANGED <<clock, req, bucket>>
      /\ meter' = [c \in Callers |-> [since |-> clock, passed |-> 0, lag |-> 0]]
  BY DEF Mark, LimiterTypeOK, NewMeter
<1>2. LimiterTypeOK' /\ RequestsOK' /\ ClocksOK'
  BY <1>1 DEF LimiterTypeOK, RequestsOK, ClocksOK, Meter
<1>3. ASSUME NEW c \in Callers
      PROVE  SECOND * 0 + Credit(c)' <= Capacity(c) + Rate(c) * (clock - clock + 0)
  <2>1. Rate(c) \in Nat /\ Capacity(c) \in Nat /\ SECOND \in Nat
    BY LimitType
  <2>2. bucket[c].tokens \in Nat /\ Rate(c) * (clock - bucket[c].updated) \in Int
    BY <1>1, <2>1 DEF LimiterTypeOK, Bucket
  <2>3. Credit(c)' = CreditOf(bucket[c], c)
    BY <1>1 DEF Credit, CreditOf, Capacity, Rate
  <2>4. CreditOf(bucket[c], c) \in Int /\ CreditOf(bucket[c], c) <= Capacity(c)
    BY <2>1, <2>2 DEF CreditOf, Least
  <2>5. SECOND * 0 = 0 /\ Rate(c) * (clock - clock + 0) = 0
    BY <1>1, <2>1
  <2>6. QED
    BY <2>1, <2>3, <2>4, <2>5
<1>4. Counted'
  BY <1>1, <1>3 DEF Counted, Capacity, Rate
<1>5. QED
  BY <1>2, <1>4

-----------------------------------------------------------------------------
(***************************************************************************)
(* However requests overlap, with whatever tokens and from whatever peers, *)
(* with the in-memory bucket or Redis and whenever one starts to count: a  *)
(* caller gets through at most its burst, what refills meanwhile, and what *)
(* refills in the time its own checks waited for the bucket                *)
(* (InMemoryBucket::check, RedisBucket::check).                            *)
(***************************************************************************)
THEOREM RateIsBounded == LimiterSpec => []RateBounded
<1>1. LimiterInit => LimiterInv
  <2> SUFFICES ASSUME LimiterInit
               PROVE  LimiterInv
    OBVIOUS
  <2>1. LimiterTypeOK /\ RequestsOK /\ ClocksOK
    BY DEF LimiterInit, LimiterTypeOK, RequestsOK, ClocksOK, NoBucket, NoRequest, NewMeter, Bucket, Meter
  <2>2. ASSUME NEW c \in Callers
        PROVE  SECOND * meter[c].passed + Credit(c)
                 <= Capacity(c) + Rate(c) * (clock - meter[c].since + meter[c].lag)
    <3>1. meter[c].passed = 0 /\ clock - meter[c].since + meter[c].lag = 0 /\ Credit(c) = Capacity(c)
      BY DEF LimiterInit, NoBucket, NewMeter, Credit, CreditOf
    <3>2. Capacity(c) \in Nat /\ SECOND * 0 = 0 /\ Rate(c) * 0 = 0
      BY LimitType
    <3>3. QED
      BY <3>1, <3>2
  <2>3. QED
    BY <2>1, <2>2 DEF LimiterInv, Counted
<1>2. LimiterInv /\ [LimiterNext]_limiterVars => LimiterInv'
  <2> SUFFICES ASSUME LimiterInv, [LimiterNext]_limiterVars
               PROVE  LimiterInv'
    OBVIOUS
  <2>1. CASE \E r \in Requests, ip \in Ips, token \in {{}} \cup {{t} : t \in Jwts} : Enter(r, ip, token)
    BY <2>1, EnterStep
  <2>2. CASE \E r \in Requests : Check(r) \/ CheckFails(r)
    BY <2>2, CheckStep, CheckFailsStep
  <2>3. CASE Tick
    BY <2>3, TickStep
  <2>4. CASE Mark
    BY <2>4, MarkStep
  <2>5. CASE UNCHANGED limiterVars
    <3>1. UNCHANGED <<clock, req, bucket, meter>>
      BY <2>5 DEF limiterVars
    <3>2. QED
      BY <3>1, CountKept, Zenon DEF LimiterInv, LimiterTypeOK, RequestsOK, ClocksOK
  <2>6. QED
    BY <2>1, <2>2, <2>3, <2>4, <2>5 DEF LimiterNext
<1>3. LimiterInv => RateBounded
  <2> SUFFICES ASSUME LimiterInv, NEW c \in Callers
               PROVE  SECOND * meter[c].passed <= SECOND * Limit(c).capacity
                        + Limit(c).refill_per_sec * (clock - meter[c].since + meter[c].lag)
    BY DEF RateBounded
  <2> DEFINE allowed == Rate(c) * (clock - meter[c].since + meter[c].lag)
  <2>1. Rate(c) \in Nat /\ Capacity(c) \in Nat /\ SECOND \in Nat /\ Capacity(c) = SECOND * Limit(c).capacity
    BY LimitType DEF Capacity
  <2>2. /\ bucket[c].tokens \in Nat /\ bucket[c].updated \in Nat /\ clock - bucket[c].updated \in Nat
        /\ meter[c].passed \in Nat /\ clock - meter[c].since + meter[c].lag \in Nat
    BY DEF LimiterInv, LimiterTypeOK, ClocksOK, Bucket, Meter
  <2>3. /\ Rate(c) * (clock - bucket[c].updated) \in Nat /\ allowed \in Nat
        /\ SECOND * meter[c].passed \in Nat
    BY <2>1, <2>2
  <2>4. Credit(c) \in Nat
    BY <2>1, <2>2, <2>3 DEF Credit, CreditOf, Least
  <2>5. SECOND * meter[c].passed + Credit(c) <= Capacity(c) + allowed
    BY DEF LimiterInv, Counted
  <2>6. allowed = Limit(c).refill_per_sec * (clock - meter[c].since + meter[c].lag)
    BY DEF Rate
  <2> HIDE DEF allowed
  <2>7. QED
    BY <2>1, <2>3, <2>4, <2>5, <2>6
<1>4. QED
  BY <1>1, <1>2, <1>3, PTL DEF LimiterSpec

-----------------------------------------------------------------------------
(***************************************************************************)
(* For any markets, tickets and sizes and any number of clicks, retries    *)
(* and losses: the "syncing" rows are exactly the form's orders whose      *)
(* handler has not finished.                                               *)
(*                                                                         *)
(* A handler is removed from the list on its last step only, so the        *)
(* invariant needs that a call that is over stays over, which every action *)
(* guards; and it needs the types, because the size and the order of a new *)
(* call are read from the form and from the cache, which is filled by      *)
(* fetches, which are answered by the edge.                                *)
(***************************************************************************)
Sides == {"buy", "sell"}
OrderTypes == {"market", "limit"}
Order == [id : Nat, market : TradeMarkets, side : Sides, type : OrderTypes, remaining : Nat]
CallType == [kind : {"order", "close", "cancel"}, market : TradeMarkets, side : Sides, type : OrderTypes,
             qty : Nat, at : {"signing", "posted", "filled", "accepted", "refused", "settled"}]

\* What a query may hold.
DataOf(q, d) == IF q = "positions" THEN d \in [TradeMarkets -> Int] ELSE d \in SUBSET Order
DataOK(f) == DOMAIN f = Queries /\ f = [q \in Queries |-> f[q]] /\ \A q \in Queries : DataOf(q, f[q])
FetchOK(q, f) ==
    \/ f = Idle
    \/ \E n \in Nat : f = Asked(n)
    \/ \E n \in Nat : f = Answered(f.value, n) /\ DataOf(q, f.value)

TradeTypeOK ==
    /\ qtyInput \in Nat
    /\ calls \in Seq(CallType)
    /\ DataOK(cache) /\ DataOK(edge)
    /\ DOMAIN fetch = Queries /\ \A q \in Queries : FetchOK(q, fetch[q])

TradeInv == TradeTypeOK /\ OptimisticExact

-----------------------------------------------------------------------------
(***************************************************************************)
(* The calls.                                                              *)
(***************************************************************************)

\* A click adds a call; the others are as they were.
LEMMA Begun ==
    ASSUME calls \in Seq(CallType), NEW c \in CallType, Begin(c)
    PROVE  /\ calls' \in Seq(CallType)
           /\ DOMAIN calls' = DOMAIN calls \cup {Len(calls) + 1}
           /\ Len(calls) + 1 \notin DOMAIN calls
           /\ calls'[Len(calls) + 1] = c
           /\ \A j \in DOMAIN calls : calls'[j] = calls[j]
BY DEF Begin

\* A handler moves on; nothing else does.
LEMMA Went ==
    ASSUME calls \in Seq(CallType), NEW i \in DOMAIN calls, NEW at, Goes(i, at),
           at \in {"signing", "posted", "filled", "accepted", "refused", "settled"}
    PROVE  /\ calls' \in Seq(CallType)
           /\ DOMAIN calls' = DOMAIN calls
           /\ calls'[i].at = at /\ calls'[i].kind = calls[i].kind
           /\ \A j \in DOMAIN calls \ {i} : calls'[j] = calls[j]
<1>1. calls[i] \in CallType /\ i \in 1 .. Len(calls)
  OBVIOUS
<1>2. [calls[i] EXCEPT !.at = at] \in CallType
  BY <1>1, Zenon DEF CallType
<1>3. QED
  BY <1>1, <1>2 DEF Goes, CallType

\* A step that neither begins nor ends a handler keeps the rows exact.
LEMMA RowsKept ==
    ASSUME TradeInv, NEW i \in DOMAIN calls, NEW at, Goes(i, at), calls[i].at # "settled",
           at \in {"posted", "filled", "accepted", "refused"}, UNCHANGED optimistic
    PROVE  OptimisticExact' /\ calls' \in Seq(CallType)
BY Went DEF TradeInv, TradeTypeOK, OptimisticExact

\* The last step of a handler takes its row away.
LEMMA RowGone ==
    ASSUME TradeInv, NEW i \in DOMAIN calls, Goes(i, "settled"), RemoveOptimisticOrder(i)
    PROVE  OptimisticExact' /\ calls' \in Seq(CallType)
BY Went DEF TradeInv, TradeTypeOK, OptimisticExact, RemoveOptimisticOrder

-----------------------------------------------------------------------------
(***************************************************************************)
(* The data: the cache, the fetches and the edge stay typed.               *)
(***************************************************************************)

\* The calls, their rows and the form are left alone.
Quiet == UNCHANGED <<qtyInput, calls, optimistic>>

\* A step on the data alone keeps the rows exact.
LEMMA UntouchedStep ==
    ASSUME TradeInv, Quiet, DataOK(cache)', DataOK(edge)',
           DOMAIN fetch' = Queries, \A q \in Queries : FetchOK(q, fetch'[q])
    PROVE  TradeInv'
BY DEF TradeInv, TradeTypeOK, Quiet, OptimisticExact

\* invalidateQueries.
LEMMA RefetchedOK ==
    ASSUME TradeTypeOK, NEW qs, Refetched(qs)
    PROVE  DOMAIN fetch' = Queries /\ \A q \in Queries : FetchOK(q, fetch'[q])
BY DEF TradeTypeOK, Refetched, FetchOK

\* A poll of a query starts a fetch.
LEMMA PollStep ==
    ASSUME TradeInv, NEW q \in Queries, Poll(q)
    PROVE  TradeInv'
<1>1. Refetched({q}) /\ Quiet /\ UNCHANGED <<cache, edge>>
  BY DEF Poll, Quiet
<1>2. QED
  BY <1>1, RefetchedOK, UntouchedStep DEF TradeInv, TradeTypeOK, DataOK

\* The edge's answer to a fetch is typed as its data are.
LEMMA EdgeAnswersStep ==
    ASSUME TradeInv, NEW q \in Queries, EdgeAnswers(q)
    PROVE  TradeInv'
<1>1. Quiet /\ UNCHANGED <<cache, edge>>
  BY DEF EdgeAnswers, Quiet
<1>2. PICK n \in Nat : fetch[q] = Asked(n)
  BY DEF TradeInv, TradeTypeOK, EdgeAnswers, FetchOK, Idle, Answered
<1>3. DataOf(q, edge[q])
  BY DEF TradeInv, TradeTypeOK, DataOK
<1>4. fetch'[q] = Answered(edge[q], n) /\ Answered(edge[q], n).value = edge[q]
  BY <1>2 DEF EdgeAnswers, Asked, Answered, TradeInv, TradeTypeOK
<1>5. FetchOK(q, fetch'[q])
  BY <1>3, <1>4 DEF FetchOK
<1>6. DOMAIN fetch' = Queries /\ \A p \in Queries : FetchOK(p, fetch'[p])
  BY <1>5 DEF EdgeAnswers, TradeInv, TradeTypeOK
<1>7. QED
  BY <1>1, <1>6, UntouchedStep DEF TradeInv, TradeTypeOK, DataOK

\* An answer that arrives replaces the cached data of its query.
LEMMA DataArrivesStep ==
    ASSUME TradeInv, NEW q \in Queries, DataArrives(q)
    PROVE  TradeInv'
<1>1. Quiet /\ UNCHANGED edge
  BY DEF DataArrives, Quiet
<1>2. DataOf(q, fetch[q].value)
  BY DEF TradeInv, TradeTypeOK, DataArrives, FetchOK, Idle, Asked
<1>3. DataOK(cache)'
  BY <1>2, Zenon DEF DataArrives, TradeInv, TradeTypeOK, DataOK
<1>4. DOMAIN fetch' = Queries /\ \A p \in Queries : FetchOK(p, fetch'[p])
  BY DEF DataArrives, TradeInv, TradeTypeOK, FetchOK
<1>5. QED
  BY <1>1, <1>3, <1>4, UntouchedStep DEF TradeInv, TradeTypeOK, DataOK

\* A fetch that fails leaves the cached data.
LEMMA FetchFailsStep ==
    ASSUME TradeInv, NEW q \in Queries, FetchFails(q)
    PROVE  TradeInv'
<1>1. Quiet /\ UNCHANGED <<cache, edge>>
  BY Zenon DEF FetchFails, Quiet
<1>2. fetch[q].tries \in Nat
  BY DEF TradeInv, TradeTypeOK, FetchFails, FetchOK, Asked, Answered
<1>3. fetch'[q] = Idle \/ fetch'[q] = Asked(fetch[q].tries + 1)
  BY Zenon DEF FetchFails, TradeInv, TradeTypeOK
<1>4. FetchOK(q, fetch'[q])
  BY <1>2, <1>3 DEF FetchOK
<1>5. DOMAIN fetch' = Queries /\ \A p \in Queries : FetchOK(p, fetch'[p])
  BY <1>4 DEF FetchFails, TradeInv, TradeTypeOK
<1>6. QED
  BY <1>1, <1>5, UntouchedStep DEF TradeInv, TradeTypeOK, DataOK

\* A trade moves one position, by a whole number.
LEMMA ExecutedOK ==
    ASSUME DataOK(edge), NEW m \in TradeMarkets, NEW side, NEW n \in Nat
    PROVE  LET e == Executed(edge, m, side, n) IN DataOK(e) /\ e["openOrders"] = edge["openOrders"]
<1>1. edge["positions"] \in [TradeMarkets -> Int] /\ DOMAIN edge = Queries
  BY DEF DataOK, DataOf, Queries
<1>2. [edge["positions"] EXCEPT ![m] = @ + Signed(side, n)] \in [TradeMarkets -> Int]
  BY <1>1 DEF Signed
<1>3. QED
  BY <1>1, <1>2 DEF Executed, DataOK, DataOf, Queries

\* The resting orders are replaced by others.
LEMMA OrdersOK ==
    ASSUME NEW e, DataOK(e), NEW os \in SUBSET Order
    PROVE  DataOK([e EXCEPT !["openOrders"] = os])
BY DEF DataOK, DataOf, Queries

\* Another wallet fills a resting order: it goes, and the position moves.
LEMMA ForeignFillStep ==
    ASSUME TradeInv, NEW o \in edge["openOrders"], ForeignFill(o)
    PROVE  TradeInv'
<1>1. Quiet /\ UNCHANGED <<cache, fetch>>
  BY DEF ForeignFill, Quiet
<1>2. DataOK(edge) /\ edge["openOrders"] \in SUBSET Order
  BY DEF TradeInv, TradeTypeOK, DataOK, DataOf, Queries
<1>3. o.market \in TradeMarkets /\ o.remaining \in Nat
  BY <1>2 DEF Order
<1> DEFINE e == Executed(edge, o.market, o.side, o.remaining)
<1>4. DataOK(e) /\ e["openOrders"] = edge["openOrders"]
  BY <1>2, <1>3, ExecutedOK
<1>5. edge' = [e EXCEPT !["openOrders"] = e["openOrders"] \ {o}]
  BY DEF ForeignFill
<1> HIDE DEF e
<1>6. DataOK(edge')
  BY <1>2, <1>4, <1>5, OrdersOK, Zenon
<1>7. QED
  BY <1>1, <1>6, UntouchedStep DEF TradeInv, TradeTypeOK, DataOK

-----------------------------------------------------------------------------
(***************************************************************************)
(* The clicks.                                                             *)
(***************************************************************************)

\* The queries and the edge are left alone.
LEMMA DataKept ==
    ASSUME TradeInv, UNCHANGED <<cache, fetch, edge>>, qtyInput' \in Nat,
           calls' \in Seq(CallType), OptimisticExact'
    PROVE  TradeInv'
BY DEF TradeInv, TradeTypeOK, DataOK

\* Submit adds a call and its row together.
LEMMA SubmitStep ==
    ASSUME TradeInv, NEW t \in Tickets, Submit(t)
    PROVE  TradeInv'
<1> DEFINE c == Call("order", t.market, t.side, t.type, qtyInput, "signing")
<1>1. c \in CallType /\ c.kind = "order" /\ c.at = "signing"
  BY TradeAssumption, Zenon DEF TradeInv, TradeTypeOK, Call, CallType, Sides, OrderTypes
<1>2. Begin(c) /\ AddOptimisticOrder(Len(calls) + 1) /\ UNCHANGED <<qtyInput, cache, fetch, edge>>
  BY DEF Submit
<1> HIDE DEF c
<1>3. calls' \in Seq(CallType) /\ OptimisticExact'
  BY <1>1, <1>2, Begun, Zenon DEF TradeInv, TradeTypeOK, OptimisticExact, AddOptimisticOrder
<1>4. QED
  BY <1>2, <1>3, DataKept DEF TradeInv, TradeTypeOK

\* A Close or a Cancel has no row of its own.
LEMMA OtherClick ==
    ASSUME TradeInv, NEW c \in CallType, c.kind # "order", Begin(c),
           UNCHANGED <<qtyInput, optimistic, cache, fetch, edge>>
    PROVE  TradeInv'
<1>1. calls' \in Seq(CallType) /\ OptimisticExact'
  BY Begun DEF TradeInv, TradeTypeOK, OptimisticExact
<1>2. QED
  BY <1>1, DataKept DEF TradeInv, TradeTypeOK

\* Close sends a call of the cached size, and adds no row.
LEMMA ClosePositionStep ==
    ASSUME TradeInv, NEW m \in TradeMarkets, ClosePosition(m)
    PROVE  TradeInv'
<1> DEFINE c == CloseOrder(m, cache["positions"][m])
<1>1. cache["positions"][m] \in Int
  BY DEF TradeInv, TradeTypeOK, DataOK, DataOf, Queries
<1>2. c \in CallType /\ c.kind # "order"
  BY <1>1 DEF CloseOrder, Call, CallType, Sides, OrderTypes, Magnitude
<1>3. Begin(c) /\ UNCHANGED <<qtyInput, optimistic, cache, fetch, edge>>
  BY Zenon DEF ClosePosition
<1> HIDE DEF c
<1>4. QED
  BY <1>2, <1>3, OtherClick

\* Cancel sends a call, and adds no row.
LEMMA CancelOrderStep ==
    ASSUME TradeInv, NEW o \in cache["openOrders"], CancelOrder(o)
    PROVE  TradeInv'
<1> DEFINE c == Call("cancel", o.market, o.side, o.type, o.id, "posted")
<1>1. o \in Order
  BY DEF TradeInv, TradeTypeOK, DataOK, DataOf, Queries
<1>2. c \in CallType /\ c.kind # "order"
  BY <1>1, Zenon DEF Order, Call, CallType
<1>3. Begin(c) /\ UNCHANGED <<qtyInput, optimistic, cache, fetch, edge>>
  BY DEF CancelOrder
<1> HIDE DEF c
<1>4. QED
  BY <1>2, <1>3, OtherClick

-----------------------------------------------------------------------------
(***************************************************************************)
(* The handlers.                                                           *)
(***************************************************************************)
LEMMA PlaceOrderStep ==
    ASSUME TradeInv, NEW i \in DOMAIN calls, NEW n \in 0..calls[i].qty, PlaceOrder(i, n)
    PROVE  TradeInv'
<1> DEFINE c == calls[i]
           e == Executed(edge, c.market, c.side, n)
           o == [id |-> i, market |-> c.market, side |-> c.side, type |-> c.type, remaining |-> c.qty - n]
<1>1. c \in CallType /\ i \in Nat
  BY DEF TradeInv, TradeTypeOK
<1>2. n \in Nat /\ c.market \in TradeMarkets /\ o \in Order
  BY <1>1 DEF CallType, Order
<1>3. DataOK(edge) /\ edge["openOrders"] \in SUBSET Order
  BY DEF TradeInv, TradeTypeOK, DataOK, DataOf, Queries
<1>4. DataOK(e) /\ e["openOrders"] = edge["openOrders"]
  BY <1>2, <1>3, ExecutedOK, Zenon
<1>5. edge' = e \/ edge' = [e EXCEPT !["openOrders"] = e["openOrders"] \cup {o}]
  BY Zenon DEF PlaceOrder
<1>6. /\ c.at = "posted"
      /\ Goes(i, "filled") \/ Goes(i, "accepted")
      /\ UNCHANGED <<qtyInput, optimistic, cache, fetch>>
  BY Zenon DEF PlaceOrder
<1>7. calls' \in Seq(CallType) /\ OptimisticExact'
  BY <1>6, RowsKept, Zenon
<1> HIDE DEF e, o
<1>8. DataOK(edge')
  BY <1>2, <1>3, <1>4, <1>5, OrdersOK
<1>9. QED
  BY <1>6, <1>7, <1>8 DEF TradeInv, TradeTypeOK, DataOK

\* A cancel at the edge takes the order off the book.
LEMMA EdgeCancelsStep ==
    ASSUME TradeInv, NEW i \in DOMAIN calls, EdgeCancels(i)
    PROVE  TradeInv'
<1>1. DataOK(edge) /\ edge["openOrders"] \in SUBSET Order
  BY DEF TradeInv, TradeTypeOK, DataOK, DataOf, Queries
<1>2. DataOK(edge')
  BY <1>1, OrdersOK, Zenon DEF EdgeCancels
<1>3. calls' \in Seq(CallType) /\ OptimisticExact'
  BY RowsKept DEF EdgeCancels
<1>4. QED
  BY <1>2, <1>3, Zenon DEF EdgeCancels, TradeInv, TradeTypeOK, DataOK

\* The acknowledgement settles the call and removes its row.
LEMMA AckArrivesStep ==
    ASSUME TradeInv, NEW i \in DOMAIN calls, AckArrives(i)
    PROVE  TradeInv'
<1>1. calls' \in Seq(CallType) /\ OptimisticExact'
  BY RowGone, Zenon DEF AckArrives, Settles
<1>2. DOMAIN fetch' = Queries /\ \A q \in Queries : FetchOK(q, fetch'[q])
  BY RefetchedOK, Zenon DEF AckArrives, TradeInv
<1>3. qtyInput' \in Nat
  BY DEF AckArrives, ClearedSize, TradeInv, TradeTypeOK
<1>4. QED
  BY <1>1, <1>2, <1>3 DEF AckArrives, TradeInv, TradeTypeOK, DataOK

\* Every step of a call.
LEMMA CallStep ==
    ASSUME TradeInv, NEW i \in DOMAIN calls, CallNext(i)
    PROVE  TradeInv'
<1>1. CASE SignRefused(i)
  BY <1>1, RowGone, DataKept, Zenon DEF SignRefused, TradeInv, TradeTypeOK
<1>2. CASE SignedAndPosted(i)
  BY <1>2, RowsKept, DataKept, Zenon DEF SignedAndPosted, TradeInv, TradeTypeOK
<1>3. CASE EdgeCancels(i)
  BY <1>3, EdgeCancelsStep
<1>4. CASE EdgeRefuses(i)
  BY <1>4, RowsKept, DataKept, Zenon DEF EdgeRefuses, TradeInv, TradeTypeOK
<1>5. CASE \E n \in 0..calls[i].qty : PlaceOrder(i, n)
  BY <1>5, PlaceOrderStep
<1>6. CASE AckArrives(i)
  BY <1>6, AckArrivesStep
<1>7. CASE ErrorArrives(i)
  BY <1>7, RowGone, DataKept, Zenon DEF ErrorArrives, Settles, TradeInv, TradeTypeOK
<1>8. CASE AnswerLost(i)
  BY <1>8, RowsKept, DataKept, Zenon DEF AnswerLost, TradeInv, TradeTypeOK
<1>9. QED
  BY <1>1, <1>2, <1>3, <1>4, <1>5, <1>6, <1>7, <1>8 DEF CallNext

-----------------------------------------------------------------------------
(***************************************************************************)
(* However many orders, closes and cancels overlap, whatever is signed,    *)
(* refused, filled or lost, and however the fetches run: an order shows as *)
(* syncing from the click until its handler is done and never after        *)
(* (onSubmit, addOptimisticOrder, removeOptimisticOrder).                  *)
(***************************************************************************)
THEOREM SyncingRows == TradeSpec => []OptimisticExact
<1>1. TradeInit => TradeInv
  BY DEF TradeInit, TradeInv, TradeTypeOK, OptimisticExact, DataOK, DataOf, FetchOK, Nothing, Queries
<1>2. TradeInv /\ [TradeNext]_tradeVars => TradeInv'
  <2> SUFFICES ASSUME TradeInv, [TradeNext]_tradeVars
               PROVE  TradeInv'
    OBVIOUS
  <2>1. ASSUME NEW q \in Sizes, TypeSize(q)
        PROVE  TradeInv'
    <3>1. qtyInput' \in Nat /\ calls' \in Seq(CallType) /\ OptimisticExact'
      BY <2>1, TradeAssumption, Zenon DEF TypeSize, TradeInv, TradeTypeOK, OptimisticExact
    <3>2. QED
      BY <2>1, <3>1, DataKept DEF TypeSize
  <2>2. CASE \E t \in Tickets : Submit(t)
    BY <2>2, SubmitStep
  <2>3. CASE \E m \in TradeMarkets : ClosePosition(m)
    BY <2>3, ClosePositionStep
  <2>4. CASE \E o \in cache["openOrders"] : CancelOrder(o)
    BY <2>4, CancelOrderStep
  <2>5. CASE \E o \in edge["openOrders"] : ForeignFill(o)
    BY <2>5, ForeignFillStep
  <2>6. CASE \E i \in DOMAIN calls : CallNext(i)
    BY <2>6, CallStep
  <2>7. CASE \E q \in Queries : Poll(q) \/ EdgeAnswers(q) \/ DataArrives(q) \/ FetchFails(q)
    BY <2>7, PollStep, EdgeAnswersStep, DataArrivesStep, FetchFailsStep
  <2>8. CASE UNCHANGED tradeVars
    BY <2>8, Zenon DEF tradeVars, TradeInv, TradeTypeOK, OptimisticExact, DataOK
  <2>9. QED
    BY <2>1, <2>2, <2>3, <2>4, <2>5, <2>6, <2>7, <2>8, Zenon DEF TradeNext
<1>3. QED
  BY <1>1, <1>2, PTL DEF TradeSpec, TradeInv
=============================================================================
