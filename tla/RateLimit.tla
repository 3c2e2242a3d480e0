------------------------------ MODULE RateLimit ------------------------------
(***************************************************************************)
(* The limiter of new connections and failed logins, per client address    *)
(* (go/tunnel/auth/ratelimit.go).  A bucket is created when its address is *)
(* first seen, refilled only when it is asked, and dropped by a sweep once *)
(* it has refilled.  Time is counted in the ticks a bucket gains a unit    *)
(* in, and a token is Cost units, so that the code's floating-point        *)
(* amounts are whole.                                                      *)
(***************************************************************************)
EXTENDS Integers

CONSTANTS
    IPs,         \* client addresses
    Cost,        \* units of a token
    BurstUnits,  \* units of a full bucket
    SweepEvery,  \* ticks between sweeps
    MaxNow       \* bound on the clock

ASSUME RateConstants == /\ Cost \in Nat /\ BurstUnits \in Nat
                        /\ SweepEvery \in Nat /\ MaxNow \in Nat

VARIABLES
    now,
    buckets,    \* IPLimiter.buckets: the addresses with a bucket
    tokens,     \* per address, its bucket's units when it was last refilled
    last,       \* per address, when that was
    lastSweep,
    verdict,    \* the latest question and its answer
    granted     \* history: the events allowed to each address

limiterVars == <<now, buckets, tokens, last, lastSweep, verdict, granted>>

RateInit ==
    /\ now = 0 /\ buckets = {} /\ lastSweep = 0 /\ verdict = <<>>
    /\ tokens = [ip \in IPs |-> 0] /\ last = [ip \in IPs |-> 0]
    /\ granted = [ip \in IPs |-> 0]

Capped(n) == IF n > BurstUnits THEN BurstUnits ELSE n

\* What a bucket holds by now.
Refilled(ip) == tokens[ip] + (now - last[ip])

\* A faulty variant: a bucket that can pay for an event is dropped.
SweepReady(S) == {ip \in S : Refilled(ip) < Cost}

\* The buckets that are left by a sweep.
Sweep(S) == {ip \in S : Refilled(ip) < BurstUnits}

SweepDue == now - lastSweep > SweepEvery

Kept == IF SweepDue THEN Sweep(buckets) ELSE buckets

\* What refill finds or makes for ip, after a sweep that is due.
Level(ip) == IF ip \in Kept THEN Capped(Refilled(ip)) ELSE BurstUnits

Refill(ip, spent) ==
    /\ buckets' = Kept \cup {ip}
    /\ lastSweep' = IF SweepDue THEN now ELSE lastSweep
    /\ tokens' = [tokens EXCEPT ![ip] = Level(ip) - spent]
    /\ last' = [last EXCEPT ![ip] = now]

Allow(ip) ==
    LET ok == Level(ip) >= Cost
    IN  /\ Refill(ip, IF ok THEN Cost ELSE 0)
        /\ verdict' = <<"allow", ip, ok>>
        /\ granted' = IF ok THEN [granted EXCEPT ![ip] = @ + 1] ELSE granted
        /\ UNCHANGED now

Exhausted(ip) ==
    /\ Refill(ip, 0)
    /\ verdict' = <<"exhausted", ip, Level(ip) < Cost>>
    /\ UNCHANGED <<now, granted>>

Tick ==
    /\ now < MaxNow /\ now' = now + 1
    /\ UNCHANGED <<buckets, tokens, last, lastSweep, verdict, granted>>

RateNext == Tick \/ \E ip \in IPs : Allow(ip) \/ Exhausted(ip)

RateSpec == RateInit /\ [][RateNext]_limiterVars

-----------------------------------------------------------------------------
RateTypeOK ==
    /\ now \in Nat /\ lastSweep \in Nat /\ buckets \subseteq IPs
    /\ tokens \in [IPs -> Int] /\ last \in [IPs -> Nat] /\ granted \in [IPs -> Nat]

\* The units an address has by now, with a bucket or without one.
LevelNow == [ip \in IPs |-> IF ip \in buckets THEN Capped(Refilled(ip)) ELSE BurstUnits]

Bucket == INSTANCE TokenBucket WITH Full <- BurstUnits, level <- LevelNow, answer <- verdict

\* Refilling lazily and dropping buckets in sweeps goes unnoticed: the limiter answers
\* as a bucket per address that is filled with every tick would (refill, sweep: "they
\* carry no state").
IsTokenBucket == Bucket!BucketSpec

\* An address is never allowed more than a burst and the average rate since
\* (NewIPLimiter: "allows each IP perSecond events on average, with bursts of up to
\* burst"), however long the limiter runs and whatever it sweeps.
AverageHolds == \A ip \in IPs : Cost * granted[ip] <= BurstUnits + now
=============================================================================
