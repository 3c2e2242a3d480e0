------------------------------- MODULE Cluster --------------------------------
(***************************************************************************)
(* The relays of a cluster and the registry process: go/tun/relaynode,     *)
(* go/tun/live and the cluster side of go/tunnel/relay, around the claims  *)
(* engine of module ClaimsEngine.                                          *)
(*                                                                         *)
(* Every call between two processes is a message in net.  Each is sent     *)
(* from a goroutine of its own, so messages arrive in any order; where     *)
(* Lossy, one may also be lost.  A request that timed out may still be     *)
(* handled later.  A session registers one tunnel, SpecOf[s], and a tunnel *)
(* ID stands for the session that opened it.                               *)
(***************************************************************************)
EXTENDS ClaimsEngine

CONSTANTS
  SpecOf,      \* the tunnel the agent of a session asks for
  Registering, \* the sessions whose agents go on to register their tunnel
  MayRestart,  \* the processes that restart: relays, or "registry"
  Beating,     \* the relays whose heartbeats the instance follows
  Revocable,   \* the tokens operators delete
  Lossy,       \* the vnet may lose a message
  MaxTries,    \* how often a claim is asked before claimRetry runs out
  MaxNet,      \* a goroutine that sends waits while so many are under way
  MaxEvents    \* how many orders and restarts there are

ASSUME ClusterConstants ==
  /\ SpecOf \in [Sessions -> TunnelSpec]
  /\ Registering \subseteq Sessions /\ MayRestart \subseteq Relays \cup {"registry"}
  /\ Beating \subseteq Relays /\ Revocable \subseteq Tokens
  /\ Lossy \in BOOLEAN
  /\ MaxTries \in Nat \ {0} /\ MaxNet \in Nat /\ MaxEvents \in Nat

VARIABLES
  phase,     \* what the goroutine of a session is doing (serveAgent)
  reason,    \* "open", or why the session's mux was closed
  tries,     \* the number of the claim attempt a session waits for
  draining,  \* Server.draining of each relay
  list,      \* the sessions the drain goroutine of a relay has yet to close
  revoked,   \* the tokens deleted from the management backend
  net,       \* the messages under way
  events,    \* the orders and restarts so far
  excused    \* history: the sessions whose record the registry gave up with reason

nodes == <<phase, reason, tries, draining, list, revoked, net, events, excused>>
cvars == <<vars, nodes>>

Phases == {"new", "accepted", "open", "claiming", "refused", "serving", "over"}
Reasons == {"AGENT_CLOSED", "HEARTBEAT", "DRAINED", "OPERATOR", "TAKEOVER", "TOKEN_REVOKED"}

Room == Cardinality(net) < MaxNet
On(r) == {s \in Sessions : RelayOf[s] = r}
Tracked == {s \in Sessions : phase[s] \notin {"new", "accepted", "over"}}
NameOf(s) == SpecOf[s].name

ClusterInit ==
  /\ Init
  /\ phase = [s \in Sessions |-> "new"]
  /\ reason = [s \in Sessions |-> "open"]
  /\ tries = [s \in Sessions |-> 0]
  /\ draining = [r \in Relays |-> FALSE]
  /\ list = [r \in Relays |-> {}]
  /\ revoked = {}
  /\ net = {}
  /\ events = 0
  /\ excused = {}

-------------------------------------------------------------------------------
(* What a relay sends.                                                     *)

ClaimMsg(s, i) == [kind |-> "CLAIM", session |-> s, try |-> i]
SessionMsg(kind, s) == [kind |-> kind, session |-> s]
\* The agents whose comings and goings the instance follows.
About(s, msgs) == IF s \in AgentReports THEN msgs ELSE {}
DownMsg(s, why) == [kind |-> "AGENT_DOWN", session |-> s, revoked |-> why = "TOKEN_REVOKED"]

\* A faulty variant of RelayState: a drained relay reports itself ready.
RelayStateReady(drains) == "READY"

\* relayRecord: the state a relay reports of itself.
RelayState(drains) == IF drains THEN "DRAINING" ELSE "READY"

\* Status: the sessions of r at this moment, and those of them with a tunnel.
Status(r) == [up |-> On(r) \cap Tracked, serving |-> {s \in On(r) \cap Tracked : phase[s] = "serving"}]

\* state: the record, tunnels and agents a relay reports.
StateMsg(kind, r, drains) ==
  [kind |-> kind, relay |-> r, state |-> RelayState(drains),
   serving |-> Status(r).serving, up |-> Status(r).up \cap AgentReports]

\* PushToRelays multicasts: every relay gets a command without a RelayId.
ToAll(kind) == {[kind |-> kind, relay |-> r] : r \in Relays}
TokenDeleted(t) == {[kind |-> "TOKEN_DELETED", relay |-> r, token |-> t] : r \in Relays}

\* close: the first closer's reason stays, except over the agent's own.
Closed(S, why) ==
  [s \in Sessions |->
     IF s \in S /\ reason[s] \in {"open", "AGENT_CLOSED"} THEN why ELSE reason[s]]

-------------------------------------------------------------------------------
(* Sessions on a relay: serveAgent, register, closeTunnels.                *)

\* serveAgent takes a connection unless the relay drains.
Accept(s) ==
  /\ phase[s] = "new" /\ ~draining[RelayOf[s]] /\ TokenOf[s] \notin revoked
  /\ phase' = [phase EXCEPT ![s] = "accepted"]
  /\ UNCHANGED <<vars, reason, tries, draining, list, revoked, net, events, excused>>

\* track, handshake and AgentUp: from here on close finds the session.
Track(s) ==
  /\ Room /\ phase[s] = "accepted" /\ TokenOf[s] \notin revoked
  /\ phase' = [phase EXCEPT ![s] = "open"]
  /\ net' = net \cup About(s, {SessionMsg("AGENT_UP", s)})
  /\ UNCHANGED <<vars, reason, tries, draining, list, revoked, events, excused>>

\* A relay's own registry holds the name for another connected agent.
HeldLocally(s) ==
  \E o \in (On(RelayOf[s]) \cap Tracked) \ {s} :
    /\ phase[o] \in {"claiming", "serving"}
    /\ NameOf(o) = NameOf(s) /\ AgentOf[o] # AgentOf[s]

\* register: openTunnel claims locally, then asks the registry (ClaimTunnel).
Register(s) ==
  /\ Room /\ s \in Registering
  /\ phase[s] = "open" /\ reason[s] = "open"
  /\ IF HeldLocally(s)
       THEN /\ phase' = [phase EXCEPT ![s] = "refused"]
            /\ UNCHANGED <<tries, net>>
       ELSE /\ phase' = [phase EXCEPT ![s] = "claiming"]
            /\ tries' = [tries EXCEPT ![s] = 1]
            /\ net' = net \cup {ClaimMsg(s, 1)}
  /\ UNCHANGED <<vars, reason, draining, list, revoked, events, excused>>

\* ask timed out or failed, and the deadline has not passed: ask again.
Retry(s) ==
  /\ Room /\ phase[s] = "claiming" /\ tries[s] < MaxTries
  /\ tries' = [tries EXCEPT ![s] = @ + 1]
  /\ net' = net \cup {ClaimMsg(s, tries[s] + 1)}
  /\ UNCHANGED <<vars, phase, reason, draining, list, revoked, events, excused>>

\* Sessions that are over, of which a relay keeps nothing.
Gone(S) ==
  /\ phase' = [s \in Sessions |-> IF s \in S THEN "over" ELSE phase[s]]
  /\ reason' = [s \in Sessions |-> IF s \in S THEN "open" ELSE reason[s]]
  /\ tries' = [s \in Sessions |-> IF s \in S THEN 0 ELSE tries[s]]

\* What a session sends as it ends: AgentDown, and closeTunnels' names.
Farewell(s) ==
  About(s, {DownMsg(s, reason[s])}) \cup
  (IF phase[s] # "serving" THEN {}
   ELSE {SessionMsg(IF reason[s] = "TOKEN_REVOKED" THEN "RELEASE" ELSE "PARK", s)})

\* ErrClusterUnavailable: register returns nil, and the session ends without
\* telling the registry about the tunnel it asked for.
GiveUp(s) ==
  /\ Room /\ phase[s] = "claiming" /\ tries[s] = MaxTries
  /\ Gone({s})
  /\ net' = net \cup Farewell(s)
  /\ UNCHANGED <<vars, draining, list, revoked, events, excused>>

\* ClaimTunnel returns: an answer to an earlier attempt finds nobody waiting.
Answered(m) ==
  LET s == m.session IN
  /\ m.kind = "ANSWER"
  /\ phase' = IF phase[s] = "claiming" /\ m.try = tries[s]
                THEN [phase EXCEPT ![s] = IF m.ok THEN "serving" ELSE "refused"] ELSE phase
  /\ net' = net \ {m}
  /\ UNCHANGED <<vars, reason, tries, draining, list, revoked, events, excused>>

\* The agent leaves, or the watchdog finds it silent.
Leave(s, why) ==
  /\ s \in Tracked /\ reason[s] = "open"
  /\ reason' = Closed({s}, why)
  /\ UNCHANGED <<vars, phase, tries, draining, list, revoked, net, events, excused>>

\* The control loop sees its mux closed; a claim under way is waited for.
End(s) ==
  /\ Room /\ phase[s] \in {"open", "refused", "serving"} /\ reason[s] # "open"
  /\ Gone({s})
  /\ net' = net \cup Farewell(s)
  /\ UNCHANGED <<vars, draining, list, revoked, events, excused>>
-------------------------------------------------------------------------------
(* A relay's own steps: heartbeats, the drain goroutine, pushed commands.  *)

\* loop: one heartbeat of a relay is under way at a time.
SendHeartbeat(r) ==
  /\ Room /\ r \in Beating
  /\ ~\E m \in net : m.kind = "HEARTBEAT" /\ m.relay = r
  /\ net' = net \cup {StateMsg("HEARTBEAT", r, draining[r])}
  /\ UNCHANGED <<vars, phase, reason, tries, draining, list, revoked, events, excused>>

\* The goroutine of Drain closes the next session, or stops once resumed.
DrainNext(r) ==
  /\ \E s \in list[r] :
       IF draining[r]
         THEN /\ reason' = IF s \in Tracked THEN Closed({s}, "DRAINED") ELSE reason
              /\ list' = [list EXCEPT ![r] = @ \ {s}]
         ELSE list' = [list EXCEPT ![r] = {}] /\ UNCHANGED reason
  /\ UNCHANGED <<vars, phase, tries, draining, revoked, net, events, excused>>

\* Drain and Resume, and the heartbeat that follows either.
SetDraining(m) ==
  LET r == m.relay
      drains == m.kind = "DRAIN"
  IN /\ m.kind \in {"DRAIN", "RESUME"}
     /\ draining' = [draining EXCEPT ![r] = drains]
     /\ list' = IF drains /\ ~draining[r] THEN [list EXCEPT ![r] = On(r) \cap Tracked] ELSE list
     /\ net' = (net \ {m}) \cup (IF r \in Beating THEN {StateMsg("HEARTBEAT", r, drains)} ELSE {})
     /\ UNCHANGED <<vars, phase, reason, tries, revoked, events, excused>>

\* announce takes its snapshot when it runs.
Reannounce(m) ==
  /\ m.kind = "REANNOUNCE"
  /\ net' = (net \ {m}) \cup {StateMsg("ANNOUNCE", m.relay, draining[m.relay])}
  /\ UNCHANGED <<vars, phase, reason, tries, draining, list, revoked, events, excused>>

\* The sessions a command closes: by tunnel (CloseTunnel), by agent
\* (DisconnectAgent), by token (DisconnectToken) or the announcement's conflicts.
Targets(m) ==
  {s \in On(m.relay) \cap Tracked :
     CASE m.kind \in {"TAKEN_OVER", "DISCONNECT_TUNNEL"} -> s = m.session /\ phase[s] = "serving"
       [] m.kind = "DISCONNECT_AGENT" -> AgentOf[s] = AgentOf[m.session]
       [] m.kind = "TOKEN_DELETED" -> TokenOf[s] = m.token
       [] m.kind = "CONFLICTS" -> s \in m.sessions /\ phase[s] = "serving"}

Why(kind) ==
  CASE kind \in {"TAKEN_OVER", "CONFLICTS"} -> "TAKEOVER"
    [] kind \in {"DISCONNECT_TUNNEL", "DISCONNECT_AGENT"} -> "OPERATOR"
    [] kind = "TOKEN_DELETED" -> "TOKEN_REVOKED"

Disconnect(m) ==
  /\ m.kind \in {"TAKEN_OVER", "DISCONNECT_TUNNEL", "DISCONNECT_AGENT", "TOKEN_DELETED", "CONFLICTS"}
  /\ reason' = Closed(Targets(m), Why(m.kind))
  /\ net' = net \ {m}
  /\ UNCHANGED <<vars, phase, tries, draining, list, revoked, events, excused>>

-------------------------------------------------------------------------------
(* The registry: ClaimHandler and CtlHandler call the engine; its commands *)
(* leave through the sink, each from a goroutine of its own.               *)

Grantable(s) == \E grant \in [1..1 -> PortOrNone] : Passes(s, <<SpecOf[s]>>, 1, grant)

Answer(m, ok) == [kind |-> "ANSWER", session |-> m.session, try |-> m.try, ok |-> ok]

\* sink.Command: the engine's commands leave for the relays.
Commanded(did) == IF did THEN cmds' ELSE {}

Quietly == UNCHANGED <<phase, reason, tries, draining, list, revoked, events, excused>>

HandleClaim(m) ==
  LET s == m.session IN
  /\ m.kind = "CLAIM"
  /\ IF Grantable(s) THEN Claim(s, <<SpecOf[s]>>) ELSE UNCHANGED vars
  /\ net' = (net \ {m}) \cup {Answer(m, Grantable(s))} \cup Commanded(Grantable(s))
  /\ excused' = IF Grantable(s) /\ NameOf(s) \in ActiveNames
                  THEN excused \cup {o \in {tunnels[NameOf(s)].session} : AgentOf[o] = AgentOf[s]}
                  ELSE excused
  /\ UNCHANGED <<phase, reason, tries, draining, list, revoked, events>>

\* park, release, agentUp and agentDown of a session.
HandleTold(m) ==
  LET s == m.session IN
  /\ \/ m.kind = "PARK" /\ Park(s, {NameOf(s)})
     \/ m.kind = "RELEASE" /\ Release(s, {NameOf(s)})
     \/ m.kind = "AGENT_UP" /\ AgentUp(s)
     \/ m.kind = "AGENT_DOWN" /\ AgentDown(s, m.revoked)
     \/ m.kind = "AGENT_DOWN" /\ ~ENABLED AgentDown(s, m.revoked) /\ UNCHANGED vars
  /\ net' = net \ {m}
  /\ Quietly

HandleHeartbeat(r) ==
  \E m \in net :
    /\ m.kind = "HEARTBEAT" /\ m.relay = r
    /\ Heartbeat(r, m.state, {NameOf(s) : s \in m.serving}, m.up)
    /\ net' = net \ {m}
    /\ Quietly

\* What a relay's snapshot says it serves: of two sessions under one name the
\* report has either.
ReportOf(S) ==
  {f \in [{NameOf(s) : s \in S} -> Served] :
     \A n \in DOMAIN f :
       /\ f[n].session \in S /\ NameOf(f[n].session) = n
       /\ f[n].port = 0 /\ f[n].domains = {}}
AgentsOf(S) ==
  {f \in [{AgentOf[s] : s \in S} -> S] : \A a \in DOMAIN f : AgentOf[f[a]] = a}

HandleAnnounce(m) ==
  LET r == m.relay IN
  /\ m.kind = "ANNOUNCE"
  /\ \E report \in ReportOf(m.serving), up \in AgentsOf(m.up) :
       /\ Announce(r, m.state, report, up)
       /\ net' = (net \ {m}) \cup {[kind |-> "CONFLICTS", relay |-> r,
                                   sessions |-> {report[n].session : n \in Conflicts(r, report)}]}
  /\ excused' = Sessions
  /\ UNCHANGED <<phase, reason, tries, draining, list, revoked, events>>

\* Sweep on its ticker; history keeps whose relay it found lost.
SweepTick ==
  /\ Sweep
  /\ excused' = excused \cup UNION {On(r) : r \in Lost}
  /\ UNCHANGED <<phase, reason, tries, draining, list, revoked, net, events>>

Clock == Tick /\ UNCHANGED nodes
-------------------------------------------------------------------------------
(* Operators, events, and the network.                                   *)

\* CtlHandler: a command an operator gives through the registry.
Operate ==
  /\ Room /\ events < MaxEvents
  /\ \/ \E r \in Relays, kind \in {"DRAIN", "RESUME"} \cap Orders : CommandRelay(r, kind)
     \/ \E r \in Relays : CommandReannounce(r)
     \/ \E a \in Agents : CommandAgent(a)
     \/ \E n \in Names : CommandTunnel(n)
  /\ net' = net \cup Commanded(TRUE)
  /\ events' = events + 1
  /\ UNCHANGED <<phase, reason, tries, draining, list, revoked, excused>>

\* An operator deletes a token: the change is pushed to every relay.
Revoke(t) ==
  /\ Room /\ t \in Revocable \ revoked
  /\ revoked' = revoked \cup {t}
  /\ net' = net \cup TokenDeleted(t)
  /\ UNCHANGED <<vars, phase, reason, tries, draining, list, events, excused>>

\* Start: an engine with nothing in it asks every relay for its state.
RegistryRestart ==
  /\ "registry" \in MayRestart
  /\ Room /\ events < MaxEvents
  /\ tunnels' = None /\ byPort' = None /\ byDomain' = None /\ agents' = None /\ relays' = None
  /\ Handle("start", "none", {}) /\ UNCHANGED dir
  /\ net' = net \cup ToAll("REANNOUNCE")
  /\ events' = events + 1 /\ excused' = Sessions
  /\ UNCHANGED <<phase, reason, tries, draining, list, revoked>>

\* A relay dies with its sessions and starts again: Run announces that it
\* serves nothing.
RelayRestart(r) ==
  /\ r \in MayRestart
  /\ Room /\ events < MaxEvents
  /\ Gone({s \in On(r) : phase[s] # "new"})
  /\ draining' = [draining EXCEPT ![r] = FALSE]
  /\ list' = [list EXCEPT ![r] = {}]
  /\ net' = net \cup {[kind |-> "ANNOUNCE", relay |-> r, state |-> "READY",
                       serving |-> {}, up |-> {}]}
  /\ events' = events + 1
  /\ UNCHANGED <<vars, revoked, excused>>

Lose(m) ==
  /\ Lossy
  /\ net' = net \ {m}
  /\ UNCHANGED <<vars, phase, reason, tries, draining, list, revoked, events, excused>>

\* A message reaches the process it is for.
Deliver(m) ==
  \/ Answered(m) \/ SetDraining(m) \/ Reannounce(m) \/ Disconnect(m)
  \/ HandleClaim(m) \/ HandleTold(m) \/ HandleAnnounce(m)

ClusterNext ==
  \/ \E s \in Sessions : Accept(s)
  \/ \E s \in Sessions : Track(s)
  \/ \E s \in Sessions : Register(s)
  \/ \E s \in Sessions : Retry(s)
  \/ \E s \in Sessions : GiveUp(s)
  \/ \E s \in Sessions, why \in {"AGENT_CLOSED", "HEARTBEAT"} : Leave(s, why)
  \/ \E s \in Sessions : End(s)
  \/ \E r \in Relays : SendHeartbeat(r)
  \/ \E r \in Relays : DrainNext(r)
  \/ \E r \in Relays : HandleHeartbeat(r)
  \/ \E m \in net : Deliver(m)
  \/ \E m \in net : Lose(m)
  \/ Operate
  \/ \E t \in Tokens : Revoke(t)
  \/ RegistryRestart
  \/ \E r \in Relays : RelayRestart(r)
  \/ SweepTick
  \/ Clock

ClusterSpec == ClusterInit /\ [][ClusterNext]_cvars

\* Goroutines are scheduled, tickers fire, and a heartbeat that is sent again
\* and again gets through.
ClusterFairSpec ==
  /\ ClusterSpec
  /\ \A s \in Sessions : WF_cvars(End(s)) /\ WF_cvars(Retry(s)) /\ WF_cvars(GiveUp(s))
  /\ \A r \in Relays : WF_cvars(SendHeartbeat(r)) /\ WF_cvars(DrainNext(r)) /\ SF_cvars(HandleHeartbeat(r))
  /\ WF_cvars(\E m \in net : Deliver(m))
  /\ WF_cvars(SweepTick) /\ WF_cvars(Clock)

-------------------------------------------------------------------------------
(* Properties.                                                             *)

\* Two agents never both serve one name: not through claims that are retried,
\* answered late or handled late, nor through late parks and releases.  It
\* happens only with a session the registry has replaced by another of the same
\* agent, one whose relay it found lost, or after a restart or an announcement
\* (claimInCluster, ClaimTunnel, Decide).
Exclusive ==
  \A s, o \in Sessions :
    /\ phase[s] = "serving" /\ phase[o] = "serving"
    /\ NameOf(s) = NameOf(o) /\ AgentOf[s] # AgentOf[o]
    => s \in excused \/ o \in excused

\* A tunnel its relay serves over an open session is the one the registry
\* shows, so the edges find it: no message of another session, late, repeated
\* or out of order, parks, frees or replaces it.
Listed ==
  \A s \in Sessions : phase[s] = "serving" /\ reason[s] = "open" /\ s \notin excused =>
    NameOf(s) \in ActiveNames /\ tunnels[NameOf(s)].session = s

\* The registry and the edges end up with what the relay itself says: once a
\* relay stays drained, or stays undrained, no heartbeat sent before that and
\* no command's own guess of the state is what the registry keeps.
StateSettles ==
  \A r \in Relays, drains \in BOOLEAN :
    <>[](draining[r] = drains) =>
      <>[](r \in DOMAIN relays => relays[r].state \in {"DOWN", IF drains THEN "DRAINING" ELSE "READY"})

\* What sweep.go says of a lost relay: its agents reconnect and reclaim their
\* names.  So a name parked under an agent that stays connected is taken back.
LostReclaimed ==
  \A s \in Sessions :
    <>[](/\ phase[s] = "serving" /\ reason[s] = "open"
         /\ RelayOf[s] \in DOMAIN relays /\ relays[RelayOf[s]].state = "READY") =>
      []<>(NameOf(s) \in ActiveNames)
===============================================================================
