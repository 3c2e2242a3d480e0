------------------------------ MODULE ClaimRules ------------------------------
(***************************************************************************)
(* The rules of go/tunnel/registry/rules.go, which a standalone relay and  *)
(* the cluster's claims engine both apply, as constant operators.          *)
(***************************************************************************)
EXTENDS Integers

\* A faulty variant of Decide: a parked name is given to any token.
DecideAnyToken(holder, token, agent, active, max) ==
  IF \E h \in holder : h.connected /\ (h.token # token \/ h.agent # agent \/ h.sameSession)
    THEN "NAME_TAKEN"
  ELSE IF max > 0 /\ active >= max
    THEN "MAX_TUNNELS"
  ELSE IF holder = {}
    THEN "NEW"
  ELSE IF \E h \in holder : h.connected
    THEN "TAKEOVER"
    ELSE "RECLAIM"

\* A faulty variant of Decide: an agent takes over what another agent of its
\* token serves.
DecideAnyAgent(holder, token, agent, active, max) ==
  IF \E h \in holder : h.token # token \/ (h.connected /\ h.sameSession)
    THEN "NAME_TAKEN"
  ELSE IF max > 0 /\ active >= max
    THEN "MAX_TUNNELS"
  ELSE IF holder = {}
    THEN "NEW"
  ELSE IF \E h \in holder : h.connected
    THEN "TAKEOVER"
    ELSE "RECLAIM"

\* Decide: how a claim of `token`/`agent` relates to the name's holder.
\* holder is {} when nobody holds the name, else a singleton of
\* [token, agent, connected, sameSession]; max = 0 means no cap.
Decide(holder, token, agent, active, max) ==
  IF \E h \in holder : \/ h.token # token
                       \/ h.connected /\ (h.agent # agent \/ h.sameSession)
    THEN "NAME_TAKEN"
  ELSE IF max > 0 /\ active >= max
    THEN "MAX_TUNNELS"
  ELSE IF holder = {}
    THEN "NEW"
  ELSE IF \E h \in holder : h.connected
    THEN "TAKEOVER"
    ELSE "RECLAIM"

Refusals == {"NAME_TAKEN", "MAX_TUNNELS"}

\* PortRange: the range [lo, hi] of a policy, narrowed to min..max; lo = 0
\* stands for a policy without a port range.
PolicyRange(lo, hi, min, max) ==
  IF lo = 0 THEN <<min, max>>
            ELSE <<IF lo > min THEN lo ELSE min, IF hi < max THEN hi ELSE max>>

\* The second result of PortRange: the two ranges overlap.
RangeOverlaps(r) == r[1] <= r[2]

\* CheckRequestedPort: the relay's range first, then the token's.
CheckRequestedPort(p, r, min, max) ==
  IF p < min \/ p > max THEN "PORT_NOT_ALLOWED"
  ELSE IF ~RangeOverlaps(r) \/ p < r[1] \/ p > r[2] THEN "FORBIDDEN"
  ELSE "OK"
===============================================================================
