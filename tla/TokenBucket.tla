----------------------------- MODULE TokenBucket -----------------------------
(***************************************************************************)
(* What a rate limiter promises (go/tunnel/auth/ratelimit.go: "IPLimiter   *)
(* is a token bucket per client IP"): every address has a bucket of its    *)
(* own, full at first, that gains a unit with every tick of the clock up   *)
(* to Full; an event takes Cost units, and is refused when fewer are left. *)
(***************************************************************************)
EXTENDS Integers

CONSTANTS
    IPs,    \* client addresses
    Cost,   \* units an event takes: a token
    Full    \* units of a full bucket: a burst of tokens

VARIABLES
    level,  \* the units of each bucket
    answer  \* the latest question and its answer

bucketVars == <<level, answer>>

BucketInit == level = [ip \in IPs |-> Full] /\ answer = <<>>

Fill == level' = [ip \in IPs |-> IF level[ip] < Full THEN level[ip] + 1 ELSE Full] /\ UNCHANGED answer

Take(ip) ==
    /\ answer' = <<"allow", ip, level[ip] >= Cost>>
    /\ level' = IF level[ip] >= Cost THEN [level EXCEPT ![ip] = @ - Cost] ELSE level

Ask(ip) == answer' = <<"exhausted", ip, level[ip] < Cost>> /\ UNCHANGED level

BucketNext == Fill \/ \E ip \in IPs : Take(ip) \/ Ask(ip)

BucketSpec == BucketInit /\ [][BucketNext]_bucketVars
=============================================================================
