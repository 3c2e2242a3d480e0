------------------------------ MODULE PortKeeper -----------------------------
(***************************************************************************)
(* How a tunnel keeps its public port: the registry checks a claim against *)
(* its copy of the reservations, which it reloads before every claim, and  *)
(* writes the ports it assigned back as reservations in the background     *)
(* (go/tun/live/directory.go, actions.go, claim.go's port); the management *)
(* backend validates each reservation                                      *)
(* (go/tun/access/reservations/TunResvServiceCallback.go).  Each name has  *)
(* a token of its own, the registry may restart, the backend may be out of *)
(* reach, and an operator moves reservations.                              *)
(***************************************************************************)
EXTENDS Integers, FiniteSets

CONSTANTS
    PortNames,    \* tunnel names
    MaxPort,      \* the port range is 1..MaxPort; 0 is no port
    MaxIncidents  \* bound on restarts, outages and an operator's moves

ASSUME PortConstants == MaxPort \in Nat

Ports == 1..MaxPort

VARIABLES
    resv,      \* the reservations in the backend: the port of each name
    dbUp,      \* the backend answers
    dirCopy,   \* the registry's copy of the reservations
    downAt,    \* a refresh on a claim failed less than liveRefreshBackoff ago
    hold,      \* the engine: the port each name holds
    serves,    \* the relays: the port each connected tunnel was given
    claim,     \* the claim being handled
    tasks,     \* background writes: [name, port]
    moved,     \* history: names whose reservation an operator set
    asked,     \* history: names whose agent asked for a fixed port
    incidents

portVars == <<resv, dbUp, dirCopy, downAt, hold, serves, claim, tasks, moved, asked, incidents>>
registrySide == <<dirCopy, downAt, hold, claim, tasks>>

NoPorts == [n \in PortNames |-> 0]
NoClaim == [name |-> "none", want |-> 0, prev |-> 0, loaded |-> FALSE, ready |-> FALSE]

PortInit ==
    /\ resv = NoPorts /\ dbUp = TRUE
    /\ dirCopy = NoPorts /\ downAt = FALSE
    /\ hold = NoPorts /\ serves = NoPorts
    /\ claim = NoClaim /\ tasks = {}
    /\ moved = {} /\ asked = {} /\ incidents = 0

-----------------------------------------------------------------------------
(* A claim: refreshForClaim, then the engine, then reserveAssigned.        *)

\* The agent asks for a fixed port or for none, and then names the port it had.
ClaimStart(n, want) ==
    /\ claim = NoClaim
    /\ \E prev \in {0, serves[n]} :
         claim' = [name |-> n, want |-> want, prev |-> prev, loaded |-> FALSE, ready |-> FALSE]
    /\ asked' = IF want = 0 THEN asked ELSE asked \cup {n}
    /\ UNCHANGED <<resv, dbUp, dirCopy, downAt, hold, serves, tasks, moved, incidents>>

\* refreshForClaim: a failed refresh keeps the copy and is not tried again for a while.
RefreshForClaim ==
    /\ claim # NoClaim /\ ~claim.ready
    /\ dirCopy' = IF ~downAt /\ dbUp THEN resv ELSE dirCopy
    /\ downAt' = (downAt \/ ~dbUp)
    /\ claim' = [claim EXCEPT !.ready = TRUE, !.loaded = ~downAt /\ dbUp]
    /\ UNCHANGED <<resv, dbUp, hold, serves, tasks, moved, asked, incidents>>

\* A faulty variant: reservations of other names don't keep a port from a claim.
FreeUnheld(n, p) == \A m \in PortNames \ {n} : hold[m] # p

PortFree(n, p) == \A m \in PortNames \ {n} : hold[m] # p /\ dirCopy[m] # p

\* port: the requested one, else the reserved, else the held, else the previous one
\* while it is free, else the lowest free one; 0 is a refusal.
PortFor(n, want, prev) ==
    LET wanted == IF want # 0 THEN want ELSE IF dirCopy[n] # 0 THEN dirCopy[n] ELSE hold[n]
        free == {p \in Ports : PortFree(n, p)}
    IN IF wanted # 0 THEN IF wanted \in free THEN wanted ELSE 0
       ELSE IF prev \in free THEN prev
       ELSE IF free = {} THEN 0
       ELSE CHOOSE p \in free : \A q \in free : p <= q

\* The engine's answer; an assigned port is reserved in the background.
ClaimEnd ==
    /\ claim # NoClaim /\ claim.ready
    /\ LET n == claim.name
           p == PortFor(n, claim.want, claim.prev)
       IN /\ hold' = IF p = 0 THEN hold ELSE [hold EXCEPT ![n] = p]
          /\ serves' = IF p = 0 THEN serves ELSE [serves EXCEPT ![n] = p]
          /\ tasks' = IF p = 0 THEN tasks ELSE tasks \cup {[name |-> n, port |-> p]}
    /\ claim' = NoClaim
    /\ UNCHANGED <<resv, dbUp, dirCopy, downAt, moved, asked, incidents>>

\* validate: one reservation per name and per port.
Validated(n, p) == \A m \in PortNames \ {n} : resv[m] # p

\* reserveAssigned: by the copy, a missing reservation is posted and one with
\* another port is put; then the copy is refreshed.  A write of a name that is
\* reserved meanwhile is refused.
ReserveAssigned(t) ==
    /\ t \in tasks
    /\ LET missing == dirCopy[t.name] = 0
           writes == /\ dirCopy[t.name] # t.port
                     /\ dbUp /\ Validated(t.name, t.port)
                     /\ missing => resv[t.name] = 0
       IN /\ resv' = IF writes THEN [resv EXCEPT ![t.name] = t.port] ELSE resv
          /\ dirCopy' = IF writes THEN resv' ELSE dirCopy
    /\ tasks' = tasks \ {t}
    /\ UNCHANGED <<dbUp, downAt, hold, serves, claim, moved, asked, incidents>>

-----------------------------------------------------------------------------
\* The loop's refresh of the copy every 30 seconds; liveRefreshBackoff passes.
LoopRefresh ==
    /\ dbUp /\ dirCopy' = resv /\ downAt' = FALSE
    /\ <<dirCopy, downAt>>' # <<dirCopy, downAt>>
    /\ UNCHANGED <<resv, dbUp, hold, serves, claim, tasks, moved, asked, incidents>>

\* A relay announces a tunnel it serves: the engine takes its port as it is, and
\* reserveAssigned follows.
AnnouncePort(n) ==
    /\ serves[n] # 0
    /\ hold' = [hold EXCEPT ![n] = serves[n]]
    /\ tasks' = tasks \cup {[name |-> n, port |-> serves[n]]}
    /\ UNCHANGED <<resv, dbUp, dirCopy, downAt, serves, claim, moved, asked, incidents>>

\* The agent is gone beyond its grace, which outlasts any background write.
PortExpires(n) ==
    /\ hold[n] # 0 /\ \A t \in tasks : t.name # n
    /\ claim.name # n
    /\ hold' = [hold EXCEPT ![n] = 0] /\ serves' = [serves EXCEPT ![n] = 0]
    /\ UNCHANGED <<resv, dbUp, dirCopy, downAt, claim, tasks, moved, asked, incidents>>

\* The registry restarts with an empty engine and no copy; Start refreshes it.
RegistryStarts ==
    /\ incidents < MaxIncidents /\ incidents' = incidents + 1
    /\ hold' = NoPorts /\ claim' = NoClaim /\ tasks' = {} /\ downAt' = FALSE
    /\ dirCopy' = IF dbUp THEN resv ELSE NoPorts
    /\ UNCHANGED <<resv, dbUp, serves, moved, asked>>

BackendChanges ==
    /\ dbUp => incidents < MaxIncidents
    /\ incidents' = IF dbUp THEN incidents + 1 ELSE incidents
    /\ dbUp' = ~dbUp
    /\ UNCHANGED <<resv, serves, moved, asked>> /\ UNCHANGED registrySide

\* An operator moves a reservation, or makes one.
OperatorMoves(n, p) ==
    /\ dbUp /\ resv[n] # p /\ Validated(n, p)
    /\ incidents < MaxIncidents /\ incidents' = incidents + 1
    /\ resv' = [resv EXCEPT ![n] = p] /\ moved' = moved \cup {n}
    /\ UNCHANGED <<dbUp, serves, asked>> /\ UNCHANGED registrySide

-----------------------------------------------------------------------------
PortNext ==
    \/ \E n \in PortNames, w \in 0..MaxPort : ClaimStart(n, w)
    \/ RefreshForClaim \/ ClaimEnd \/ LoopRefresh
    \/ \E t \in tasks : ReserveAssigned(t)
    \/ \E n \in PortNames : AnnouncePort(n) \/ PortExpires(n)
    \/ RegistryStarts \/ BackendChanges
    \/ \E n \in PortNames, p \in Ports : OperatorMoves(n, p)

PortSpec == PortInit /\ [][PortNext]_portVars

-----------------------------------------------------------------------------
\* A port that is reserved stays with its name, whatever restarts or expires: a
\* claim whose refresh succeeded is given the port reserved for it, if anything,
\* and never one reserved for another name.  (Of names no operator moved and no
\* agent asked a fixed port for: reserveAssigned "gives the name its port back and
\* keeps other tokens off it".)
PortKept ==
    [][\A n \in PortNames :
         /\ claim.name = n /\ claim.loaded /\ claim.ready
         /\ claim' = NoClaim /\ PortFor(n, claim.want, claim.prev) = hold'[n] /\ hold'[n] # 0
         => \A m \in PortNames \ (moved \cup asked) :
              resv[m] # 0 => (hold'[n] = resv[m] <=> m = n)]_portVars
=============================================================================
