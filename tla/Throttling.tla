------------------------------ MODULE Throttling ------------------------------
(***************************************************************************)
(* The first guard of every request: AppThrottlerGuard, and the counters   *)
(* ThrottlerRedisStorage keeps in Redis.  A counter counts the requests of *)
(* a window that begins with the first of them.  What requests are         *)
(* answered is a function of the sequence in which Redis counts them.      *)
(***************************************************************************)
EXTENDS Endpoints, Sequences

Tiers == {"otp", "registration", "auth", "public", "global"}

CONSTANTS
  TierLimit,   \* per tier: requests let through in a window
  TierTtl      \* per tier: length of a window

ASSUME LimitsPositive == TierLimit \in [Tiers -> Nat \ {0}]
ASSUME TtlsPositive == TierTtl \in [Tiers -> Nat \ {0}]

OtpPaths == {"confirmTwoFactor"}
RegistrationPaths == {"register"}
AuthPaths ==
  {"login", "verifyTwoFactor", "recoverRequest", "recoverConfirm", "refresh", "forgotPassword",
   "validateResetToken", "resetPassword", "validateSetPasswordToken", "setPassword",
   "changePassword", "setupTwoFactor", "disableTwoFactor", "regenerateBackupCodes",
   "resolveConflict", "logoutAll", "validateInvite", "acceptInvite"}

Unthrottled(e) == e \in HealthEndpoints

Tier(e) ==
  CASE e.path \in OtpPaths -> "otp"
    [] e.path \in RegistrationPaths -> "registration"
    [] e.path \in AuthPaths -> "auth"
    [] OTHER -> IF e.public THEN "public" ELSE "global"

\* (mutant) Every handler has a counter of its own.
BucketPerHandler(r) == <<r.to.path, r.ip>>

\* Handlers of one tier share a counter, but those of the tier "global" do not.
\* JwtAuthGuard comes later: no request has a user yet, so its address counts.
Bucket(r) == IF Tier(r.to) = "global" THEN <<r.to.path, r.ip>> ELSE <<Tier(r.to), r.ip>>

NoCounter == [hits |-> 0, until |-> 0]

\* LUA_INCREMENT: one atomic script.
Increment(counter, now, ttl) ==
  IF now < counter.until THEN [counter EXCEPT !.hits = @ + 1]
                         ELSE [hits |-> 1, until |-> now + ttl]

\* A request that is not counted, because its handler is skipped or Redis does not
\* answer, is let through.
Counted(r) == r.up /\ ~Unthrottled(r.to)

\* One more request: the counters, and whether it was let through.
Throttle(r, counters) ==
  LET tier == Tier(r.to)
      b == Bucket(r)
      old == IF b \in DOMAIN counters THEN counters[b] ELSE NoCounter
      new == Increment(old, r.at, TierTtl[tier])
  IN IF ~Counted(r) THEN [counters |-> counters, passed |-> TRUE]
     ELSE [counters |-> [k \in DOMAIN counters \cup {b} |-> IF k = b THEN new ELSE counters[k]],
           passed |-> new.hits <= TierLimit[tier]]

\* After each of the requests, the 0th being none.
Throttled(requests) ==
  LET after[n \in 0..Len(requests)] ==
        IF n = 0 THEN [counters |-> <<>>, passed |-> TRUE]
                 ELSE Throttle(requests[n], after[n - 1].counters)
  IN after

-----------------------------------------------------------------------------
CONSTANT SampleRequests   \* sequences of requests in the order of their times

Together(requests, i, j) ==
  /\ Counted(requests[i]) /\ Counted(requests[j])
  /\ requests[i].ip = requests[j].ip
  /\ Tier(requests[i].to) = Tier(requests[j].to)
  /\ Tier(requests[i].to) = "global" => requests[i].to = requests[j].to

\* What is let through, from the i-th request on, in a period as long as a window.
Crowd(requests, i) ==
  LET after == Throttled(requests)
  IN Cardinality({j \in i..Len(requests) :
                    /\ after[j].passed /\ Together(requests, i, j)
                    /\ requests[j].at < requests[i].at + TierTtl[Tier(requests[i].to)]})

Most(request) == 2 * TierLimit[Tier(request.to)] - 1

CrowdsBounded ==
  \A requests \in SampleRequests : \A i \in DOMAIN requests :
    Counted(requests[i]) => Crowd(requests, i) <= Most(requests[i])

BoundReached ==
  \E requests \in SampleRequests : \E i \in DOMAIN requests :
    Counted(requests[i]) /\ TierLimit[Tier(requests[i].to)] > 1 /\ Crowd(requests, i) = Most(requests[i])
=============================================================================
