------------------------------ MODULE EdgePool ------------------------------
(***************************************************************************)
(* The backends of one port forward of the edge: go/tunnel/edge/pool.go,   *)
(* health.go and the dialing half of tunnel.go.  Connections pick a member *)
(* and dial it, retrying on the next one; the pool's own goroutine checks  *)
(* the members one after the other and refreshes a DNS target; members go  *)
(* down and come back.  All of these run concurrently.                     *)
(***************************************************************************)
EXTENDS Integers, FiniteSets, Sequences, FiniteSetsExt

CONSTANTS
    Addrs,      \* addresses a member can have, as a sequence (the order of p.members)
    Weight,     \* edgeconf.Weight of each address
    Disabled,   \* the addresses whose target is disabled
    Conns,      \* connections that may be carried
    Forwards,   \* the port forwards to follow: the load balancing, the kind of health
                \* checks ("active": TCP, HTTP, HTTPS; "passive": NONE, UNSPECIFIED),
                \* a DNS target or not, https backends of a TERMINATE forward or not
    MaxFlips    \* bound on the changes of the environment

ASSUME PoolConstants ==
    /\ Addrs \in Seq(Range(Addrs))
    /\ \A a \in Range(Addrs) : Weight[a] \in 1..100
    /\ Disabled \subseteq Range(Addrs) /\ "dropped" \notin Range(Addrs)
    /\ IsFiniteSet(Conns)
    /\ Forwards \subseteq [lb : {"ROUND_ROBIN", "LEAST_CONN", "SOURCE_HASH", "RANDOM"},
                            checks : {"active", "passive"}, dns : BOOLEAN, tls : BOOLEAN]

VARIABLES
    fwd,          \* the pool's port forward
    members,      \* the addresses that are members now
    healthy, fails, passes, rested, current, active,  \* the fields of each member
    conn,         \* each connection: its step, the members tried, the member used
    sweep, probe, \* checkAll: the members still to check, the check under way
    up,           \* the addresses that answer (environment)
    flips,        \* changes of the environment so far
    share, even   \* history: picks of each candidate in this round, and whether the
                  \* round began with every candidate's current weight at zero

memberVars == <<healthy, fails, passes, rested, current, active>>
poolVars == <<fwd, members, memberVars, conn, sweep, probe, up, flips,
              share, even>>

unhealthyAfter == 3
healthyAfter == 2
All == Range(Addrs)
NoConn == [at |-> "idle", tried |-> {}, m |-> "none"]

PoolInit ==
    /\ fwd \in Forwards
    /\ members = All
    /\ healthy = [a \in All |-> TRUE]
    /\ fails = [a \in All |-> 0] /\ passes = [a \in All |-> 0]
    /\ rested = [a \in All |-> TRUE]
    /\ current = [a \in All |-> 0] /\ active = [a \in All |-> 0]
    /\ conn = [c \in Conns |-> NoConn]
    /\ sweep = <<>> /\ probe = <<>>
    /\ up = All /\ flips = 0
    /\ share = <<>> /\ even = TRUE

-----------------------------------------------------------------------------
(* member.failed and member.passed.  Both counters are compared with their *)
(* threshold only, so the model stops them there.                          *)
Failed(a) ==
    /\ fails' = [fails EXCEPT ![a] = Min({@ + 1, unhealthyAfter})]
    /\ passes' = [passes EXCEPT ![a] = 0]
    /\ healthy' = [healthy EXCEPT ![a] = @ /\ fails[a] + 1 < unhealthyAfter]
    /\ rested' = [rested EXCEPT ![a] = FALSE]

Passed(a) ==
    LET back == passes[a] + 1 >= healthyAfter \/ healthy[a]
    IN  /\ passes' = [passes EXCEPT ![a] = Min({@ + 1, healthyAfter})]
        /\ fails' = [fails EXCEPT ![a] = IF back THEN 0 ELSE @]
        /\ healthy' = [healthy EXCEPT ![a] = back]
        /\ rested' = [rested EXCEPT ![a] = FALSE]

-----------------------------------------------------------------------------
(* pick: the candidates, then the forward's algorithm; of candidates that  *)
(* are equally good the first in member order wins.                        *)
Candidates(tried) == {a \in members \ (tried \cup Disabled) : healthy[a]}

Total(cands) == SumFunctionOnSet(Weight, cands)

Position(a) == CHOOSE i \in DOMAIN Addrs : Addrs[i] = a

FirstMax(cands, val) ==
    CHOOSE a \in cands : \A b \in cands :
        val[b] < val[a] \/ (val[b] = val[a] /\ Position(a) <= Position(b))

\* The fewest active connections per unit of weight.
LeastConn(cands) ==
    CHOOSE a \in cands : \A b \in cands :
        LET ofA == active[a] * Weight[b]
            ofB == active[b] * Weight[a]
        IN  ofA < ofB \/ (ofA = ofB /\ Position(a) <= Position(b))

\* A faulty variant: earlier picks don't count.
RoundRobinByWeight(cands) == FirstMax(cands, Weight)

SmoothRoundRobin(cands) == FirstMax(cands, [a \in cands |-> current[a] + Weight[a]])

\* SOURCE_HASH: some client's scores make any given candidate win.  RANDOM: both
\* of its two choices may fall on the same candidate, which then wins.
Picks(cands) ==
    CASE fwd.lb = "LEAST_CONN" -> {LeastConn(cands)}
      [] fwd.lb \in {"SOURCE_HASH", "RANDOM"} -> cands
      [] OTHER -> {SmoothRoundRobin(cands)}

\* The history counts picks in rounds of as many picks as the weights add up to.
InRound(cands) == DOMAIN share = cands /\ SumFunction(share) < Total(cands)

PickEffect(cands, best) ==
    IF fwd.lb # "ROUND_ROBIN" THEN UNCHANGED <<current, share, even>>
    ELSE /\ current' = [a \in All |->
                current[a] + (IF a \in cands THEN Weight[a] ELSE 0)
                           - (IF a = best THEN Total(cands) ELSE 0)]
         /\ share' = [a \in cands |->
                (IF InRound(cands) THEN share[a] ELSE 0) + (IF a = best THEN 1 ELSE 0)]
         /\ even' = IF InRound(cands) THEN even
                    ELSE \A a \in cands : current[a] = 0

-----------------------------------------------------------------------------
(* dialFrom: pick, dial, and on a failed dial pick again among the members *)
(* not yet tried.  A TERMINATE request picks first (poolTunnel.Pick) and   *)
(* dials that address later (OpenStreamTo, dialAddr).                      *)
Set(c, at, tried, m) == conn' = [conn EXCEPT ![c] = [at |-> at, tried |-> tried, m |-> m]]

Reset(c) == conn' = [conn EXCEPT ![c] = NoConn]

\* What each step leaves alone.
ByConn == UNCHANGED <<fwd, members, sweep, probe, up, flips>>
Health == <<healthy, fails, passes, rested>>

PickNext(c) ==
    LET cands == Candidates(conn[c].tried)
    IN  IF cands = {}
        THEN Reset(c) /\ UNCHANGED <<current, share, even>>     \* ErrNoHealthyMember
        ELSE \E m \in Picks(cands) :
                /\ PickEffect(cands, m)
                /\ Set(c, "dialing", conn[c].tried \cup {m}, m)

DialFrom(c) ==
    /\ conn[c].at \in {"idle", "retry"}
    /\ PickNext(c)
    /\ ByConn /\ UNCHANGED <<Health, active>>

Pick(c) ==
    /\ fwd.tls /\ conn[c].at = "idle"
    /\ LET cands == Candidates({})
       IN  /\ cands # {}
           /\ \E m \in Picks(cands) : PickEffect(cands, m) /\ Set(c, "picked", {}, m)
    /\ ByConn /\ UNCHANGED <<Health, active>>

DialAddr(c) ==
    /\ conn[c].at = "picked"
    /\ IF conn[c].m \in members
       THEN Set(c, "dialing", {conn[c].m}, conn[c].m) /\ UNCHANGED <<current, share, even>>
       ELSE PickNext(c)
    /\ ByConn /\ UNCHANGED <<Health, active>>

\* m.failed, unless the member is no longer one of the pool's.
FailedMember(m) == IF m \in All THEN Failed(m) ELSE UNCHANGED Health

Count(m, n) == active' = IF m \in All THEN [active EXCEPT ![m] = @ + n] ELSE active

DialFails(c) ==
    /\ conn[c].at = "dialing" /\ conn[c].m \notin up
    /\ FailedMember(conn[c].m)
    /\ Set(c, "retry", conn[c].tried, "none")
    /\ ByConn /\ UNCHANGED <<active, current, share, even>>

Connected(c) ==
    /\ conn[c].at = "dialing" /\ conn[c].m \notin All \ up
    /\ Count(conn[c].m, 1)
    /\ Set(c, IF fwd.tls THEN "securing" ELSE "open", {}, conn[c].m)
    /\ ByConn /\ UNCHANGED <<Health, current, share, even>>

Secured(c) ==
    /\ conn[c].at = "securing"
    /\ Set(c, "open", {}, conn[c].m)
    /\ ByConn /\ UNCHANGED <<Health, active, current, share, even>>

\* A failed handshake that leaves the connection open.
SecureFailsOpen(c) ==
    /\ conn[c].at = "securing"
    /\ FailedMember(conn[c].m)
    /\ Reset(c)
    /\ ByConn /\ UNCHANGED <<active, current, share, even>>

SecureFails(c) ==
    /\ conn[c].at = "securing"
    /\ Count(conn[c].m, -1)
    /\ FailedMember(conn[c].m)
    /\ Reset(c)
    /\ ByConn /\ UNCHANGED <<current, share, even>>

CountedClose(c) ==
    /\ conn[c].at = "open"
    /\ Count(conn[c].m, -1)
    /\ Reset(c)
    /\ ByConn /\ UNCHANGED <<Health, current, share, even>>

-----------------------------------------------------------------------------
(* The pool's goroutine: checkAll over a snapshot of the members, and the  *)
(* DNS refresh, one at a time.                                             *)
ByLoop == UNCHANGED <<fwd, active, current, conn, share, even>>

\* A faulty variant: active checks skip the members that are down.
CheckServing ==
    /\ sweep = <<>> /\ probe = <<>>
    /\ sweep' = SelectSeq(Addrs, LAMBDA a : a \in members /\
            IF fwd.checks = "passive" THEN ~healthy[a] ELSE a \notin Disabled /\ healthy[a])
    /\ sweep' # <<>>
    /\ ByLoop /\ UNCHANGED <<members, Health, probe, up, flips>>

CheckAll ==
    /\ sweep = <<>> /\ probe = <<>>
    /\ sweep' = SelectSeq(Addrs, LAMBDA a : a \in members /\
            IF fwd.checks = "passive" THEN ~healthy[a] ELSE a \notin Disabled)
    /\ sweep' # <<>>
    /\ ByLoop /\ UNCHANGED <<members, Health, probe, up, flips>>

\* Passive only: a member that has been down for a while gets another chance.
SecondChance ==
    /\ fwd.checks = "passive" /\ sweep # <<>>
    /\ sweep' = Tail(sweep)
    /\ IF ~healthy[Head(sweep)] /\ rested[Head(sweep)]
       THEN Passed(Head(sweep)) ELSE UNCHANGED Health
    /\ ByLoop /\ UNCHANGED <<members, probe, up, flips>>

\* The check dials without any lock; its result is recorded later.
StartCheck ==
    /\ fwd.checks = "active" /\ sweep # <<>> /\ probe = <<>>
    /\ sweep' = Tail(sweep)
    /\ probe' = <<Head(sweep), Head(sweep) \in up>>
    /\ ByLoop /\ UNCHANGED <<members, Health, up, flips>>

EndCheck ==
    /\ probe # <<>>
    /\ IF probe[2] THEN Passed(probe[1]) ELSE Failed(probe[1])
    /\ probe' = <<>>
    /\ ByLoop /\ UNCHANGED <<members, sweep, up, flips>>

\* resolveMembers: members still listed keep their state, new ones start healthy,
\* and connections keep the member they were dialed for when it is dropped.
ResolveMembers(addrs) ==
    /\ fwd.dns /\ sweep = <<>> /\ probe = <<>> /\ flips < MaxFlips
    /\ addrs # members
    /\ flips' = flips + 1
    /\ members' = addrs
    /\ LET fresh == addrs \ members
       IN  /\ healthy' = [a \in All |-> a \in fresh \/ healthy[a]]
           /\ fails' = [a \in All |-> IF a \in fresh THEN 0 ELSE fails[a]]
           /\ passes' = [a \in All |-> IF a \in fresh THEN 0 ELSE passes[a]]
           /\ rested' = [a \in All |-> a \in fresh \/ rested[a]]
           /\ current' = [a \in All |-> IF a \in fresh THEN 0 ELSE current[a]]
           /\ active' = [a \in All |-> IF a \in addrs THEN active[a] ELSE 0]
    /\ conn' = [c \in Conns |-> [conn[c] EXCEPT
            !.m = IF @ \in All \ addrs /\ conn[c].at # "picked" THEN "dropped" ELSE @,
            !.tried = @ \cap addrs]]
    /\ share' = IF addrs \subseteq members THEN share ELSE <<>>
    /\ UNCHANGED <<fwd, sweep, probe, up, even>>

\* Ten seconds pass since the member was last checked.
Rest(a) ==
    /\ fwd.checks = "passive" /\ ~healthy[a] /\ ~rested[a]
    /\ rested' = [rested EXCEPT ![a] = TRUE]
    /\ ByLoop /\ UNCHANGED <<members, healthy, fails, passes, sweep, probe, up, flips>>

\* A backend stops or starts answering.
Flip(a) ==
    /\ flips < MaxFlips
    /\ flips' = flips + 1
    /\ up' = IF a \in up THEN up \ {a} ELSE up \cup {a}
    /\ ByLoop /\ UNCHANGED <<members, Health, sweep, probe>>

PoolNext ==
    \/ \E c \in Conns : \/ DialFrom(c) \/ Pick(c) \/ DialAddr(c) \/ DialFails(c) \/ Connected(c)
                        \/ Secured(c) \/ SecureFails(c) \/ CountedClose(c)
    \/ CheckAll \/ SecondChance \/ StartCheck \/ EndCheck
    \/ \E addrs \in SUBSET All \ {{}} : ResolveMembers(addrs)
    \/ \E a \in All : Rest(a) \/ Flip(a)

\* The pool's goroutine, and the outcome of a dial.
PoolLoop == CheckAll \/ SecondChance \/ StartCheck \/ EndCheck
DialEnds(c) == DialFails(c) \/ Connected(c)

\* The pool's goroutine keeps running, a dial times out, and time passes.
PoolFairness ==
    /\ WF_poolVars(PoolLoop)
    /\ \A a \in All : WF_poolVars(Rest(a))
    /\ \A c \in Conns : WF_poolVars(DialEnds(c))

PoolSpec == PoolInit /\ [][PoolNext]_poolVars /\ PoolFairness

-----------------------------------------------------------------------------
(* A member's active count is the number of connections open to it: every  *)
(* way a connection ends gives its place back once, also when the backend's*)
(* TLS handshake fails or the member was dropped in between.               *)
ActiveCounts ==
    \A a \in members : active[a] = Cardinality({c \in Conns :
        conn[c].m = a /\ conn[c].at \in {"securing", "open"}})

(* Weighted round robin gives each candidate exactly its weight in every   *)
(* full round that began balanced, whatever number of connections pick     *)
(* concurrently (smoothRoundRobin).  A member that is resolved anew starts *)
(* from zero, so it ends the round.                                        *)
RoundRobinShare ==
    even /\ share # <<>> /\ SumFunction(share) = Total(DOMAIN share)
        => \A a \in DOMAIN share : share[a] = Weight[a]

(* A member that is down is given back to the balancer: by the passes of   *)
(* its checks while it answers, or by its second chances when checks are   *)
(* off (checkAll).                                                         *)
MembersRecover ==
    \A a \in All : (~healthy[a] /\ a \in members)
        ~> (healthy[a] \/ a \notin members \/ (fwd.checks = "active" /\ a \notin up \ Disabled))
=============================================================================
