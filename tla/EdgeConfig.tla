----------------------------- MODULE EdgeConfig -----------------------------
(***************************************************************************)
(* From a stored edge domain to the edge's listeners.                      *)
(*                                                                         *)
(* The management backend validates a domain against the other stored ones *)
(* (go/tun/edge/domains, go/tunnel/edgeconf) and pushes the change; each   *)
(* edge node reloads all the domains, on a push, at start and once a       *)
(* minute, from the backend or from its cache (go/tun/edgenode/node.go);   *)
(* Edge.Apply then makes the listeners and pools match them                *)
(* (go/tunnel/edge/edge.go, listener.go).  Reloads run concurrently, the   *)
(* edge may crash, the backend may be unreachable, pushes may be lost and  *)
(* a port may be taken by another process.                                 *)
(***************************************************************************)
EXTENDS Integers, FiniteSets, FiniteSetsExt

CONSTANTS
    Domains,      \* domain IDs; BaseRow is one of them
    BaseRow,      \* the TUNNEL_BASE row
    Drafts,       \* [Sites -> set of rows a client may write for that site]
    BaseForwards, \* TunnelBaseForwards: the forwards cluster.yaml defines
    BaseNames,    \* the base domain and its wildcard
    Timers,       \* reloadSoon's timer goroutines that may run at once
    Contended,    \* ports another process may take
    MaxEvents,    \* bound on writes, failures and connections
    None          \* no row, no certificate, no routes

Sites == Domains \ {BaseRow}
Reloaders == Timers \cup {"loop"}

\* A draft has at least the fields the service fills in, and its ports are numbers.
ASSUME EdgeConstants ==
    /\ BaseRow \in Domains /\ "loop" \notin Timers /\ None \notin Reloaders
    /\ \A f \in BaseForwards : f.mode = "RELAY" /\ f.on /\ f.id # 0 /\ f.port \in Nat /\ f.end \in Nat
    /\ \A d \in Sites : \A draft \in Drafts[d] :
         /\ {"names", "fwds"} \subseteq DOMAIN draft
         /\ \A f \in draft.fwds : /\ {"id", "on", "mode"} \subseteq DOMAIN f
                                  /\ f.port \in Nat /\ f.end \in Nat

VARIABLES
    stored,    \* the EdgeDomain table: a row or None for each domain ID
    backend,   \* the management backend answers
    push,      \* a pushed change is on its way to the edge
    busy,      \* ports another process holds
    events,    \* events so far
    step, snap,        \* each reload: its step and the domains it read
    armed,           \* Node.reloadPending
    certFP,            \* Node.certFP: the certificate loaded for each site
    cache,             \* the cached domains on disk, or None
    alive,             \* the edge process runs
    lock, todo,        \* the reload inside Apply, and the ports it has left
    pools, running,    \* Edge.pools, and the pools whose goroutine runs
    listeners,         \* Edge.listeners: protocol, bound or not, routes or None
    applied            \* history: the domains of the latest finished Apply

tableVars == <<stored, backend, push>>
nodeVars == <<step, snap, armed, certFP, cache>>
edgeVars == <<alive, lock, todo, pools, running, listeners, applied>>
configVars == <<tableVars, busy, events, nodeVars, edgeVars>>

NoDomains == [d \in Domains |-> None]
Base == [kind |-> "BASE", names |-> BaseNames, on |-> TRUE, fwds |-> BaseForwards, cert |-> None]
Bootstrap == [NoDomains EXCEPT ![BaseRow] = Base]
Rows(S) == {d \in Domains : S[d] # None}

-----------------------------------------------------------------------------
(* Validation (edgeconf.ValidateDomain and the service's validate).        *)
EndOf(f) == IF f.end = 0 THEN f.port ELSE f.end
PortsOf(f) == f.port..EndOf(f)

Overlap(a, b) == a.port <= EndOf(b) /\ b.port <= EndOf(a)

CheckForward(row, f) ==
    /\ f.end # 0 => f.end > f.port /\ f.proto = "TCP"
    /\ f.mode = "TERMINATE" => f.proto = "TLS" /\ row.cert # None
    /\ f.mode = "RELAY" => row.kind = "BASE"
    /\ f.targets # {}

CheckPortConflicts(d, row, S) ==
    /\ \A a, b \in row.fwds : a # b => ~Overlap(a, b)
    /\ \A o \in Rows(S) \ {d} : \A a \in row.fwds, b \in S[o].fwds :
            Overlap(a, b) => a.proto = b.proto /\ a.proto # "TCP"

ValidateDomain(d, row, S) ==
    /\ \A o \in Rows(S) \ {d} : /\ S[o].names \cap row.names = {}
                                /\ ~(row.kind = "BASE" /\ S[o].kind = "BASE")
    /\ \A f \in row.fwds : CheckForward(row, f)
    /\ CheckPortConflicts(d, row, S)

\* defaultNewForwards: a forward without an ID is new; it gets one and is enabled.
Defaulted(f) == IF f.id # 0 THEN f
                ELSE [f EXCEPT !.id = f.port, !.on = TRUE,
                               !.mode = IF @ = "" THEN "PASSTHROUGH" ELSE @]

\* SummarizeCert: a certificate that doesn't cover the names, or is over, is refused.
SummarizeCert(cert) == cert \notin {"mismatch", "expired"}

\* checkCertificate: both files or none, and then a certificate that fits.
CheckCertificate(draft) == draft.cert # "half" /\ SummarizeCert(draft.cert)

\* The base row keeps the names and forwards cluster.yaml gives it (protectTunnelBase).
Prepared(draft) ==
    IF draft.kind = "BASE" THEN [draft EXCEPT !.names = BaseNames, !.fwds = BaseForwards]
    ELSE [draft EXCEPT !.fwds = {Defaulted(f) : f \in @}]

\* The ports of cluster.yaml are different ones; the IDs of a row's forwards are
\* those the service generated, which clients send back.
ASSUME ForwardConstants ==
    /\ \A a, b \in BaseForwards : a # b => ~Overlap(a, b) /\ a.id # b.id
    /\ \A d \in Sites : \A draft \in Drafts[d] : \A a, b \in Prepared(draft).fwds :
         a # b => a.id # b.id

-----------------------------------------------------------------------------
ConfigInit ==
    /\ stored = Bootstrap /\ backend = TRUE /\ push = FALSE
    /\ busy = {} /\ events = 0
    /\ step = [r \in Reloaders |-> IF r = "loop" THEN "boot" ELSE "idle"]
    /\ snap = [r \in Reloaders |-> IF r = "loop" THEN Bootstrap ELSE NoDomains]
    /\ armed = FALSE
    /\ certFP = [d \in Domains |-> None] /\ cache = None
    /\ alive = TRUE /\ lock = None /\ todo = {}
    /\ pools = <<>> /\ running = {} /\ listeners = <<>>
    /\ applied = NoDomains

Spend == events < MaxEvents /\ events' = events + 1

(* The EdgeDomain service: a client's write, a delete, and the periodic    *)
(* EnsureTunnelBase, each followed by a push to the edges.                 *)
Write(d, draft) ==
    LET row == Prepared(draft)
    IN  /\ Spend
        /\ CheckCertificate(draft)
        /\ ValidateDomain(d, row, stored)
        /\ stored' = [stored EXCEPT ![d] = row]
        /\ push' = TRUE
        /\ UNCHANGED <<backend, busy, nodeVars, edgeVars>>

Delete(d) ==
    /\ Spend /\ stored[d] # None
    /\ stored' = [stored EXCEPT ![d] = None]
    /\ push' = TRUE
    /\ UNCHANGED <<backend, busy, nodeVars, edgeVars>>

EnsureTunnelBase ==
    /\ stored[BaseRow] = None
    /\ ValidateDomain(BaseRow, Base, stored)
    /\ stored' = [stored EXCEPT ![BaseRow] = Base]
    /\ push' = TRUE
    /\ UNCHANGED <<backend, busy, events, nodeVars, edgeVars>>

-----------------------------------------------------------------------------
(* The edge node.  A push arms one timer; the timer clears reloadPending   *)
(* before it reloads, so the next push can start another reload meanwhile. *)
PushArrives ==
    /\ push /\ push' = FALSE
    /\ armed' = (armed \/ (alive /\ step["loop"] # "boot"))
    /\ UNCHANGED <<stored, backend, busy, events, step, snap, certFP, cache, edgeVars>>

PushLost ==
    /\ push /\ Spend /\ push' = FALSE
    /\ UNCHANGED <<stored, backend, busy, nodeVars, edgeVars>>

TimerFires(t) ==
    /\ armed /\ step[t] = "idle"
    /\ armed' = FALSE
    /\ step' = [step EXCEPT ![t] = "fetch"]
    /\ UNCHANGED <<tableVars, busy, events, snap, certFP, cache, edgeVars>>

\* Without the minute's re-read.
ResyncNever == FALSE /\ UNCHANGED configVars

Resync ==
    /\ alive /\ step["loop"] = "idle"
    /\ step' = [step EXCEPT !["loop"] = "fetch"]
    /\ UNCHANGED <<tableVars, busy, events, snap, armed, certFP, cache, edgeVars>>

\* loadCache puts the cached certificates beside the cached domains.
LoadCache == [d \in Domains |-> IF cache[d] # None /\ cache[d].cert # None
                                THEN cache[d].cert ELSE certFP[d]]

Fetch(r) ==
    /\ step[r] = "fetch"
    /\ IF backend \/ cache # None
       THEN /\ snap' = [snap EXCEPT ![r] = IF backend THEN stored ELSE cache]
            /\ step' = [step EXCEPT ![r] = IF backend THEN "fetched" ELSE "apply"]
       ELSE /\ step' = [step EXCEPT ![r] = "idle"]
            /\ UNCHANGED snap
    /\ certFP' = IF backend \/ cache = None THEN certFP ELSE LoadCache
    /\ UNCHANGED <<tableVars, busy, events, armed, cache, edgeVars>>

SiteCert(S, d) == IF d \in Rows(S) /\ S[d].kind = "SITE" THEN S[d].cert ELSE None

\* saveCache replaces the cache file by a rename.
SaveCache(S) == cache' = S

\* loadCerts fetches what changed, if the backend still answers, and drops the
\* certificates of sites that are gone; saveCache follows.
Keep(r) ==
    /\ step[r] = "fetched"
    /\ certFP' = [d \in Domains |-> IF SiteCert(snap[r], d) # None /\ ~backend
                                    THEN certFP[d] ELSE SiteCert(snap[r], d)]
    /\ SaveCache(snap[r])
    /\ step' = [step EXCEPT ![r] = "apply"]
    /\ UNCHANGED <<tableVars, busy, events, snap, armed, edgeVars>>

-----------------------------------------------------------------------------
(* Edge.Apply, under Edge.mu.  Listeners are opened one by one; a listener *)
(* accepts from the moment it is bound, and gets its routes after that.    *)
(* The order of the ports (a Go map's) makes no difference to the result;  *)
(* the model takes the lowest first.                                       *)
Enabled(S) == {r \in UNION {{d} \X S[d].fwds : d \in {e \in Rows(S) : S[e].on}} : r[2].on}

RoutesOn(S, p) == {r \in Enabled(S) : p \in PortsOf(r[2])}

PortsIn(S) == UNION {PortsOf(r[2]) : r \in Enabled(S)}

\* routes[0]: the protocol of one of the port's routes.
ProtoOn(S, p) == (CHOOSE r \in RoutesOn(S, p) : TRUE)[2].proto

ForwardKey(r) == <<r[1], r[2].id>>

PoolsFor(S) == [key \in {ForwardKey(r) : r \in Enabled(S)} |->
                    (CHOOSE r \in Enabled(S) : ForwardKey(r) = key)[2]]

PoolSet(ps) == {<<key, ps[key]>> : key \in DOMAIN ps}

\* Pools that are replaced keep running.
StoppedNone(ps, run) == run \cup PoolSet(ps)

\* A new pool starts its goroutine unless its targets are the relays; a pool that
\* is no longer in the map is stopped.
Started(ps, run) == (run \cap PoolSet(ps)) \cup {q \in PoolSet(ps) : q[2].mode # "RELAY"}

Restricted(f, S) == [p \in S |-> f[p]]

ApplyStart(r) ==
    /\ step[r] \in {"boot", "apply"} /\ lock = None /\ alive
    /\ lock' = r
    /\ pools' = PoolsFor(snap[r])
    /\ running' = Started(PoolsFor(snap[r]), running)
    /\ listeners' = Restricted(listeners, {p \in DOMAIN listeners \cap PortsIn(snap[r]) :
                                              listeners[p].proto = ProtoOn(snap[r], p)})
    /\ todo' = PortsIn(snap[r])
    /\ UNCHANGED <<tableVars, busy, events, nodeVars, alive, applied>>

With(f, p, v) == [q \in DOMAIN f \cup {p} |-> IF q = p THEN v ELSE f[q]]

Listen(p) ==
    /\ p \in todo \ DOMAIN listeners /\ p = Min(todo)
    /\ listeners' = With(listeners, p, [proto |-> ProtoOn(snap[lock], p),
                                        bound |-> p \notin busy, routes |-> None])
    /\ UNCHANGED <<tableVars, busy, events, nodeVars, alive, lock, todo, pools, running, applied>>

SetRoutes(p) ==
    /\ p \in todo \cap DOMAIN listeners /\ p = Min(todo)
    /\ listeners' = [listeners EXCEPT ![p].routes = RoutesOn(snap[lock], p)]
    /\ todo' = todo \ {p}
    /\ UNCHANGED <<tableVars, busy, events, nodeVars, alive, lock, pools, running, applied>>

\* After the bootstrap the loop reloads; any other reload is over.
ApplyEnd ==
    /\ lock # None /\ todo = {}
    /\ applied' = snap[lock]
    /\ step' = [step EXCEPT ![lock] = IF @ = "boot" THEN "fetch" ELSE "idle"]
    /\ snap' = [snap EXCEPT ![lock] = NoDomains]
    /\ lock' = None
    /\ UNCHANGED <<tableVars, busy, events, armed, certFP, cache, alive, todo, pools, running, listeners>>

-----------------------------------------------------------------------------
(* The process ends, and starts again with its cache; a connection served  *)
(* before the routes are set ends it too (a nil routeSet is dereferenced). *)
Stopped ==
    /\ alive' = FALSE /\ lock' = None /\ todo' = {}
    /\ pools' = <<>> /\ running' = {} /\ listeners' = <<>> /\ applied' = NoDomains
    /\ step' = [r \in Reloaders |-> "idle"] /\ snap' = [r \in Reloaders |-> NoDomains]
    /\ armed' = FALSE /\ certFP' = [d \in Domains |-> None]

Crash ==
    /\ alive /\ Spend /\ Stopped
    /\ UNCHANGED <<tableVars, busy, cache>>

ServedEarly(p) ==
    /\ p \in DOMAIN listeners /\ listeners[p].bound /\ listeners[p].routes = None
    /\ Spend /\ Stopped
    /\ UNCHANGED <<tableVars, busy, cache>>

Restart ==
    /\ ~alive /\ alive' = TRUE
    /\ step' = [step EXCEPT !["loop"] = "boot"]
    /\ snap' = [snap EXCEPT !["loop"] = Bootstrap]
    /\ UNCHANGED <<tableVars, busy, events, armed, certFP, cache, lock, todo, pools,
                   running, listeners, applied>>

\* The backend becomes unreachable or answers again; another process takes a port
\* the edge does not hold, or leaves it.
BackendStops == backend /\ Spend /\ backend' = FALSE
          /\ UNCHANGED <<stored, push, busy, nodeVars, edgeVars>>

BackendReturns == ~backend /\ backend' = TRUE
            /\ UNCHANGED <<stored, push, busy, events, nodeVars, edgeVars>>

Occupy(p) ==
    /\ p \in Contended \ (DOMAIN listeners \cup busy)
    /\ Spend
    /\ busy' = busy \cup {p}
    /\ UNCHANGED <<tableVars, nodeVars, edgeVars>>

Vacate(p) ==
    /\ p \in busy /\ busy' = busy \ {p}
    /\ UNCHANGED <<tableVars, events, nodeVars, edgeVars>>

AllPorts == UNION {PortsOf(f) : f \in BaseForwards \cup UNION {UNION {dr.fwds : dr \in Drafts[d]} : d \in Sites}}

ConfigNext ==
    \/ \E d \in Sites : \E draft \in Drafts[d] : Write(d, draft)
    \/ \E d \in Domains : Delete(d)
    \/ EnsureTunnelBase \/ PushArrives \/ PushLost \/ Resync
    \/ \E t \in Timers : TimerFires(t)
    \/ \E r \in Reloaders : Fetch(r) \/ Keep(r) \/ ApplyStart(r)
    \/ \E p \in AllPorts : Listen(p) \/ SetRoutes(p) \/ ServedEarly(p) \/ Occupy(p) \/ Vacate(p)
    \/ ApplyEnd \/ Crash \/ Restart \/ BackendStops \/ BackendReturns

\* A reload's goroutine until it waits for Edge.mu, and the one inside Apply.
NodeStep(r) == Fetch(r) \/ Keep(r)
ApplyStep == ApplyEnd \/ \E p \in AllPorts : Listen(p) \/ SetRoutes(p)

(* Every goroutine that can run does, the process is restarted, and the    *)
(* backend comes back: the resync ticker and Kubernetes see to it.  Of the *)
(* reloads that wait for Edge.mu, none is passed over for ever.            *)
ConfigFairness ==
    /\ WF_configVars(EnsureTunnelBase) /\ WF_configVars(PushArrives) /\ WF_configVars(Resync)
    /\ \A t \in Timers : WF_configVars(TimerFires(t))
    /\ \A r \in Reloaders : WF_configVars(NodeStep(r)) /\ SF_configVars(ApplyStart(r))
    /\ WF_configVars(ApplyStep) /\ WF_configVars(Restart) /\ WF_configVars(BackendReturns)

ConfigSpec == ConfigInit /\ [][ConfigNext]_configVars /\ ConfigFairness

-----------------------------------------------------------------------------
\* All routes of a listener speak its protocol, and a TCP listener has one route.
Unambiguous(l) ==
    /\ \A r \in l.routes : r[2].proto = l.proto
    /\ l.proto = "TCP" => Cardinality(l.routes) = 1

(* Between two Applies the edge is exactly what a fresh Apply of the same  *)
(* domains would have built: a listener with the right protocol and routes *)
(* on every port of an enabled forward and on no other, one pool for each  *)
(* enabled forward, and only their goroutines running (Edge.Apply).  What  *)
(* a listener serves is unambiguous, as Apply assumes when it takes the    *)
(* protocol of routes[0]: validating every write against the other rows,   *)
(* port ranges included, provides it.                                      *)
ApplyMatches ==
    alive /\ lock = None =>
        /\ DOMAIN listeners = PortsIn(applied)
        /\ \A p \in DOMAIN listeners : /\ listeners[p].routes = RoutesOn(applied, p)
                                       /\ listeners[p].proto = ProtoOn(applied, p)
                                       /\ Unambiguous(listeners[p])
        /\ PoolSet(pools) = {<<ForwardKey(r), r[2]>> : r \in Enabled(applied)}
        /\ running = {q \in PoolSet(pools) : q[2].mode # "RELAY"}

(* The edge ends up serving the stored domains, with the fingerprints of   *)
(* their certificates noted as loaded (EdgeCerts has the certificates),    *)
(* whatever pushes were lost and in whatever order overlapping reloads     *)
(* applied what they had read (the resync of Node.loop).                   *)
EdgeConverges ==
    <>[](alive /\ applied = stored /\ certFP = [d \in Domains |-> SiteCert(stored, d)])
=============================================================================
