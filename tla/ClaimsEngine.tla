----------------------------- MODULE ClaimsEngine -----------------------------
(***************************************************************************)
(* The cluster-wide claims engine of go/tunnel/claims.  One mutex          *)
(* serializes every method, so every method is one action.  Go maps are    *)
(* functions whose domain is the set of keys present.                      *)
(*                                                                         *)
(* Time is kept relative: a grace period is the time left until GraceUntil *)
(* and LastSeen is the age of the last report, both capped where the code  *)
(* stops telling values apart, so the clock runs for ever in finitely many *)
(* states.  Counters, wording and simulated (mock) records are left out.   *)
(***************************************************************************)
EXTENDS ClaimRules, Sequences, FiniteSets

CONSTANTS
  Relays, Agents, Tokens, Sessions, Names, Domains,
  RelayOf, AgentOf, TokenOf,  \* the relay, agent ID and token of a session
  MaxOf,                      \* MaxTunnels of a token's policy, 0 = no cap
  RangeOf,                    \* <<PortMin, PortMax>> a token's claims carry
  PortMin, PortMax,           \* the relay's port range (registry.Rules)
  BadNames,                   \* names CheckName refuses
  Batches,                    \* the spec lists a claim may carry
  Reports,                    \* the states a relay may announce
  AgentReports,               \* the sessions whose agents are reported
  RelayStates,                \* the states a relay reports of itself
  Directories,                \* the reservations and sites that may be cached
  Orders,                     \* the kinds of command operators give
  Grace, RelayTimeout, OfflineRetention, DownRetention,
  MaxAge                      \* the age past which no timeout tells ages apart

Ports == PortMin..PortMax
PortOrNone == Ports \cup {0}

TunnelSpec == [name : Names, hasPort : BOOLEAN, port : Nat, prev : Nat, domains : SUBSET Domains]

Reservation == [token : Tokens, port : PortOrNone]
Directory == [resv : UNION {[S -> Reservation] : S \in SUBSET Names}, sites : SUBSET Names]

\* A relay's announced state: the tunnel it serves under each of its names.
Served == [session : Sessions, port : PortOrNone, domains : SUBSET Domains]
Report == UNION {[S -> Served] : S \in SUBSET Names}

ASSUME EngineConstants ==
  /\ RelayOf \in [Sessions -> Relays]
  /\ AgentOf \in [Sessions -> Agents]
  /\ TokenOf \in [Sessions -> Tokens]
  /\ MaxOf \in [Tokens -> Nat]
  /\ RangeOf \in [Tokens -> Nat \X Nat]
  /\ PortMin \in Nat \ {0} /\ PortMax \in Nat
  /\ \A t \in Tokens : RangeOf[t][1] # 0 => RangeOf[t][1] >= PortMin /\ RangeOf[t][2] <= PortMax
  /\ Batches \subseteq Seq(TunnelSpec)
  /\ Reports \in [Relays -> SUBSET Report]
  /\ \A r \in Relays : \A f \in Reports[r] :
       IsFiniteSet(DOMAIN f) /\ \A n \in DOMAIN f : RelayOf[f[n].session] = r
  /\ AgentReports \subseteq Sessions
  /\ RelayStates \subseteq {"READY", "DRAINING"}
  /\ Directories \subseteq Directory
  /\ Orders \subseteq {"DRAIN", "RESUME", "REANNOUNCE", "DISCONNECT_AGENT", "DISCONNECT_TUNNEL"}
  /\ Grace \in Nat \ {0}
  /\ RelayTimeout \in Nat /\ OfflineRetention \in Nat /\ DownRetention \in Nat
  /\ MaxAge \in Nat
  /\ MaxAge > RelayTimeout /\ MaxAge > OfflineRetention /\ MaxAge > DownRetention

VARIABLES
  tunnels,   \* tunnels: name -> live tunnel record
  byPort,    \* byPort: public port -> name
  byDomain,  \* byDomain: custom domain -> name
  agents,    \* agents: agent ID -> record
  relays,    \* relays: relay ID -> record
  dir,       \* the Directory's cached reservations and site names
  cmds,      \* the control commands the last step handed to the sink
  last       \* history: what the last step handled, and from whom

vars == <<tunnels, byPort, byDomain, agents, relays, dir, cmds, last>>
\* The engine's own state: no step reads cmds or last.
engine == <<tunnels, byPort, byDomain, agents, relays, dir>>

Age == 0..MaxAge

Tunnel == [relay : Relays, agent : Agents, token : Tokens, session : Sessions,
           state : {"ACTIVE", "GRACE"}, port : PortOrNone, domains : SUBSET Domains,
           left : 0..Grace]
Agent == [relay : Relays, session : Sessions, state : {"ONLINE", "GRACE", "OFFLINE"},
          left : 0..Grace, age : Age]
Relay == [state : {"READY", "DRAINING", "DOWN"}, age : Age]
\* A command names the relay that must act and, where it is about one, the
\* session whose tunnel ID or agent ID it carries.
Command == [kind : {"TAKEN_OVER", "DISCONNECT_AGENT", "DISCONNECT_TUNNEL"},
            relay : Relays, session : Sessions]
             \cup [kind : {"DRAIN", "RESUME", "REANNOUNCE"}, relay : Relays]

Senders == Sessions \cup Relays \cup {"none"}
Handled == [op : {"start", "claim", "park", "release", "announce", "heartbeat", "agentUp",
                  "agentDown", "sweep", "command", "time"},
            by : Senders]

Init ==
  /\ tunnels = << >> /\ byPort = << >> /\ byDomain = << >>
  /\ agents = << >> /\ relays = << >>
  /\ dir \in Directories
  /\ cmds = {}
  /\ last = [op |-> "start", by |-> "none"]

-------------------------------------------------------------------------------
(* Storing records: setTunnel, deleteTunnel, unindex, setAgent, setRelay.  *)

\* f with g's entries written over it.
Over(f, g) == [k \in DOMAIN f \cup DOMAIN g |-> IF k \in DOMAIN g THEN g[k] ELSE f[k]]
Without(f, S) == [k \in DOMAIN f \ S |-> f[k]]

\* A faulty variant of PortDropped: records are rewritten without unindex.
PortDroppedNever(p, touched) == FALSE

\* unindex drops an index entry of a record it rewrites only when the entry
\* still points at that record's name.
PortDropped(p, touched) ==
  LET n == byPort[p] IN n \in touched /\ n \in DOMAIN tunnels /\ tunnels[n].port = p
DomainDropped(d, touched) ==
  LET n == byDomain[d] IN n \in touched /\ n \in DOMAIN tunnels /\ d \in tunnels[n].domains

\* setTunnel for every record of recs and deleteTunnel for every name of gone,
\* in an order the code does not fix (Go map order, or the request's order):
\* of several records with one port or domain, the last one stored is indexed.
Store(recs, gone) ==
  LET touched == DOMAIN recs \cup gone
      portsSet == {recs[n].port : n \in DOMAIN recs} \ {0}
      domainsSet == UNION {recs[n].domains : n \in DOMAIN recs}
  IN
  /\ tunnels' = Without(Over(tunnels, recs), gone)
  /\ \E final \in [portsSet -> DOMAIN recs] :
       /\ \A p \in portsSet : recs[final[p]].port = p
       /\ byPort' = Over(Without(byPort, {p \in DOMAIN byPort : PortDropped(p, touched)}), final)
  /\ \E final \in [domainsSet -> DOMAIN recs] :
       /\ \A d \in domainsSet : d \in recs[final[d]].domains
       /\ byDomain' = Over(Without(byDomain, {d \in DOMAIN byDomain : DomainDropped(d, touched)}), final)

\* The end of a step: what it handled, and the commands it sends.
Handle(op, by, sent) ==
  /\ last' = [op |-> op, by |-> by]
  /\ cmds' = sent

None == << >>

Parked(t) == [t EXCEPT !.state = "GRACE", !.left = Grace]

-------------------------------------------------------------------------------
(* claim: every tunnel of the request, or none of them.                    *)

ActiveNames == {n \in DOMAIN tunnels : tunnels[n].state = "ACTIVE"}

\* A faulty variant of Active: the request's earlier tunnels are not counted.
ActiveUnstaged(token, name, staged) ==
  Cardinality({n \in ActiveNames : tunnels[n].token = token /\ n # name})

\* active: the token's connected tunnels, not counting name, and those staged.
Active(token, name, staged) ==
  Cardinality({n \in ActiveNames : tunnels[n].token = token /\ n # name /\ n \notin staged})
    + Cardinality(staged)

\* The registry.Holder of a name, for a claim of session s.
HolderOf(name, s) ==
  {[token |-> tunnels[n].token, agent |-> tunnels[n].agent,
    connected |-> tunnels[n].state = "ACTIVE", sameSession |-> tunnels[n].session = s] :
      n \in {name} \cap DOMAIN tunnels}

\* A faulty variant of Free: the ports staged earlier in the request are free.
FreeOfOthers(p, name, stagedPorts) ==
  /\ p \in DOMAIN byPort => byPort[p] = name
  /\ \A n \in DOMAIN dir.resv : dir.resv[n].port = p => n = name

\* free: no other tunnel, no earlier tunnel of the request, and no other
\* name's reservation has port p.
Free(p, name, stagedPorts) ==
  /\ p \in DOMAIN byPort => byPort[p] = name
  /\ p \notin stagedPorts
  /\ \A n \in DOMAIN dir.resv : dir.resv[n].port = p => n = name

\* want: the requested port, else the reservation's, else the holder's.
Want(spec) ==
  LET n == spec.name IN
  IF spec.port # 0 THEN spec.port
  ELSE IF n \in DOMAIN dir.resv /\ dir.resv[n].port # 0 THEN dir.resv[n].port
  ELSE IF n \in DOMAIN tunnels THEN tunnels[n].port
  ELSE 0

\* The range a port is allocated from.
AllocRange(token) ==
  IF RangeOf[token][1] = 0 THEN Ports ELSE RangeOf[token][1]..RangeOf[token][2]

\* port: the ports it may return, which is the one port granted or none.
PortGranted(token, spec, stagedPorts) ==
  LET free(p) == Free(p, spec.name, stagedPorts)
      range == AllocRange(token)
      want == Want(spec)
  IN IF want # 0 THEN {p \in Ports : p = want /\ free(p)}
     ELSE IF spec.prev \in range /\ free(spec.prev) THEN {spec.prev}
     ELSE {p \in range : free(p) /\ \A q \in range : q < p => ~free(q)}

\* check: spec i passes, given that the specs before it got the ports of grant.
Passes(s, specs, i, grant) ==
  LET spec == specs[i]
      name == spec.name
      before == 1..(i - 1)
      staged == {specs[j].name : j \in before}
  IN /\ name \notin staged
     /\ name \notin BadNames
     /\ name \notin dir.sites
     /\ name \in DOMAIN dir.resv => dir.resv[name].token = TokenOf[s]
     /\ Decide(HolderOf(name, s), TokenOf[s], AgentOf[s],
               Active(TokenOf[s], name, staged), MaxOf[TokenOf[s]]) \notin Refusals
     /\ \A d \in spec.domains :
          /\ d \in DOMAIN byDomain => byDomain[d] = name
          /\ \A j \in before : d \notin specs[j].domains
     /\ IF spec.hasPort
          THEN grant[i] \in PortGranted(TokenOf[s], spec, {grant[j] : j \in before} \ {0})
          ELSE grant[i] = 0

ClaimRecord(s, spec, port) ==
  [relay |-> RelayOf[s], agent |-> AgentOf[s], token |-> TokenOf[s], session |-> s,
   state |-> "ACTIVE", port |-> port, domains |-> spec.domains, left |-> 0]

\* A faulty variant of TakenOver: the other relay is not told.
TakenOverSilently(s, names) == {}

\* The relays told to close a tunnel whose agent came back through another.
TakenOver(s, names) ==
  {[kind |-> "TAKEN_OVER", relay |-> tunnels[n].relay, session |-> tunnels[n].session] :
      n \in {m \in names \cap ActiveNames : tunnels[m].relay # RelayOf[s]}}

ClaimNames(specs) == {specs[i].name : i \in DOMAIN specs}

ClaimRecords(s, specs, grant) ==
  [n \in ClaimNames(specs) |->
     LET i == CHOOSE i \in DOMAIN specs : specs[i].name = n
     IN ClaimRecord(s, specs[i], grant[i])]

Claim(s, specs) ==
  /\ specs # << >>
  /\ \E grant \in [DOMAIN specs -> PortOrNone] :
       /\ \A i \in DOMAIN specs : Passes(s, specs, i, grant)
       /\ Store(ClaimRecords(s, specs, grant), {})
  /\ Handle("claim", s, TakenOver(s, ClaimNames(specs)))
  /\ UNCHANGED <<agents, relays, dir>>

-------------------------------------------------------------------------------
(* park, release, announce, heartbeat, agentUp, agentDown.                 *)

\* A faulty variant of OwnNames: the relay is checked, the session is not.
OwnNamesOfRelay(s, names) == {n \in names \cap DOMAIN tunnels : tunnels[n].relay = RelayOf[s]}

\* A session's own names among `names`: a tunnel another relay or session took
\* over meanwhile is left alone.
OwnNames(s, names) ==
  {n \in names \cap DOMAIN tunnels : tunnels[n].relay = RelayOf[s] /\ tunnels[n].session = s}

Park(s, names) ==
  /\ Store([n \in OwnNames(s, names) |-> Parked(tunnels[n])], {})
  /\ Handle("park", s, {})
  /\ UNCHANGED <<agents, relays, dir>>

Release(s, names) ==
  /\ Store(None, OwnNames(s, names))
  /\ Handle("release", s, {})
  /\ UNCHANGED <<agents, relays, dir>>

\* touchRelay: the relay's own state wins; a lost relay is back up.
Touched(r, state) ==
  Over(relays, [x \in {r} |-> [state |-> IF state = "DOWN" THEN "READY" ELSE state, age |-> 0]])

\* The names relay r may not take back: another relay serves them for
\* another agent.
Conflicts(r, report) ==
  {n \in DOMAIN report \cap ActiveNames :
     tunnels[n].relay # r /\ tunnels[n].agent # AgentOf[report[n].session]}

\* What announce stores: the tunnels relay r reports, and its records it no
\* longer serves, parked.
AnnounceRecords(r, report) ==
  LET taken == DOMAIN report \ Conflicts(r, report)
      unreported == {n \in ActiveNames : tunnels[n].relay = r /\ n \notin taken}
  IN [n \in taken \cup unreported |->
        IF n \in taken THEN ClaimRecord(report[n].session, report[n], report[n].port)
                       ELSE Parked(tunnels[n])]

\* announce: report is the tunnels relay r serves, up the session of each agent
\* it has.
Announce(r, state, report, up) ==
  /\ Store(AnnounceRecords(r, report), {})
  /\ relays' = Touched(r, state)
  /\ agents' = Over(agents, [a \in DOMAIN up |->
                               [relay |-> r, session |-> up[a], state |-> "ONLINE",
                                left |-> 0, age |-> MaxAge]])
  /\ Handle("announce", r, {})
  /\ UNCHANGED dir

\* heartbeat: rewrites (and so indexes again) the relay's own active tunnels
\* whose counters changed, and the agents whose session it names.
Heartbeat(r, state, changed, up) ==
  LET own == {n \in changed \cap ActiveNames : tunnels[n].relay = r}
      seen == {a \in DOMAIN agents : agents[a].relay = r /\ agents[a].session \in up}
  IN /\ Store([n \in own |-> tunnels[n]], {})
     /\ relays' = Touched(r, state)
     /\ agents' = Over(agents, [a \in seen |-> [agents[a] EXCEPT !.age = 0]])
     /\ Handle("heartbeat", r, {})
     /\ UNCHANGED dir

AgentUp(s) ==
  /\ agents' = Over(agents, [a \in {AgentOf[s]} |->
                               [relay |-> RelayOf[s], session |-> s, state |-> "ONLINE",
                                left |-> 0, age |-> 0]])
  /\ Handle("agentUp", s, {})
  /\ UNCHANGED <<tunnels, byPort, byDomain, relays, dir>>

\* downAgent: a revoked token's names are not held.
Down(a, revoked) ==
  [a EXCEPT !.state = IF revoked THEN "OFFLINE" ELSE "GRACE",
            !.left = IF revoked THEN 0 ELSE Grace, !.age = 0]

\* A faulty variant of AgentDown: an older session of the agent counts too.
AgentDownAnySession(s, revoked) ==
  LET id == AgentOf[s] IN
  /\ id \in DOMAIN agents
  /\ agents' = [agents EXCEPT ![id] = Down(agents[id], revoked)]
  /\ Handle("agentDown", s, {})
  /\ UNCHANGED <<tunnels, byPort, byDomain, relays, dir>>

AgentDown(s, revoked) ==
  LET id == AgentOf[s] IN
  /\ id \in DOMAIN agents
  /\ agents[id].relay = RelayOf[s] /\ agents[id].session = s
  /\ agents' = [agents EXCEPT ![id] = Down(agents[id], revoked)]
  /\ Handle("agentDown", s, {})
  /\ UNCHANGED <<tunnels, byPort, byDomain, relays, dir>>

-------------------------------------------------------------------------------
(* Sweep and Command.                                                      *)

Lost == {r \in DOMAIN relays : relays[r].state # "DOWN" /\ relays[r].age > RelayTimeout}
Forgotten == {r \in DOMAIN relays : relays[r].state = "DOWN" /\ relays[r].age > DownRetention}

\* A faulty variant of LostAgents: a lost relay's agents stay online.
LostAgentsNone == {}

\* The tunnels and agents lostRelay parks.
LostTunnels == {n \in ActiveNames : tunnels[n].relay \in Lost}
LostAgents == {a \in DOMAIN agents : agents[a].state = "ONLINE" /\ agents[a].relay \in Lost}
\* A faulty variant of ExpiredTunnels: every parked name is dropped.
ExpiredTunnelsEarly == {n \in DOMAIN tunnels : tunnels[n].state = "GRACE"}

ExpiredTunnels == {n \in DOMAIN tunnels : tunnels[n].state = "GRACE" /\ tunnels[n].left = 0}
ExpiredAgents == {a \in DOMAIN agents : agents[a].state = "GRACE" /\ agents[a].left = 0}
OldAgents == {a \in DOMAIN agents : agents[a].state = "OFFLINE" /\ agents[a].age > OfflineRetention}

Sweep ==
  /\ Store([n \in LostTunnels |-> Parked(tunnels[n])], ExpiredTunnels)
  /\ relays' = [r \in DOMAIN relays \ Forgotten |->
                  IF r \in Lost THEN [relays[r] EXCEPT !.state = "DOWN"] ELSE relays[r]]
  /\ agents' = [a \in DOMAIN agents \ OldAgents |->
                  IF a \in LostAgents THEN Down(agents[a], FALSE)
                  ELSE IF a \in ExpiredAgents
                    THEN [agents[a] EXCEPT !.state = "OFFLINE", !.left = 0]
                    ELSE agents[a]]
  /\ Handle("sweep", "none", {})
  /\ UNCHANGED dir

\* An operator drains or resumes a relay the engine believes up.
CommandRelay(r, kind) ==
  /\ r \in DOMAIN relays /\ relays[r].state # "DOWN"
  /\ relays' = [relays EXCEPT ![r].state = IF kind = "DRAIN" THEN "DRAINING" ELSE "READY"]
  /\ Handle("command", "none", {[kind |-> kind, relay |-> r]})
  /\ UNCHANGED <<tunnels, byPort, byDomain, agents, dir>>

CommandReannounce(r) ==
  /\ "REANNOUNCE" \in Orders
  /\ Handle("command", "none", {[kind |-> "REANNOUNCE", relay |-> r]})
  /\ UNCHANGED <<tunnels, byPort, byDomain, agents, relays, dir>>

CommandAgent(a) ==
  /\ "DISCONNECT_AGENT" \in Orders
  /\ a \in DOMAIN agents /\ agents[a].state = "ONLINE"
  /\ Handle("command", "none", {[kind |-> "DISCONNECT_AGENT", relay |-> agents[a].relay, session |-> agents[a].session]})
  /\ UNCHANGED <<tunnels, byPort, byDomain, agents, relays, dir>>

CommandTunnel(n) ==
  /\ "DISCONNECT_TUNNEL" \in Orders
  /\ n \in ActiveNames
  /\ Handle("command", "none", {[kind |-> "DISCONNECT_TUNNEL", relay |-> tunnels[n].relay, session |-> tunnels[n].session]})
  /\ UNCHANGED <<tunnels, byPort, byDomain, agents, relays, dir>>

-------------------------------------------------------------------------------
(* The environment: the clock, and the directory's refresh.                *)

Older(age) == IF age < MaxAge THEN age + 1 ELSE age
Less(left) == IF left > 0 THEN left - 1 ELSE 0

Tick ==
  /\ tunnels' = [n \in DOMAIN tunnels |-> [tunnels[n] EXCEPT !.left = Less(@)]]
  /\ agents' = [a \in DOMAIN agents |-> [agents[a] EXCEPT !.left = Less(@), !.age = Older(@)]]
  /\ relays' = [r \in DOMAIN relays |-> [relays[r] EXCEPT !.age = Older(@)]]
  /\ Handle("time", "none", {})
  /\ UNCHANGED <<byPort, byDomain, dir>>

Refresh ==
  /\ dir' \in Directories
  /\ Handle("time", "none", {})
  /\ UNCHANGED <<tunnels, byPort, byDomain, agents, relays>>

-------------------------------------------------------------------------------
(* Handle's dispatch, Sweep, Command and the environment.                  *)

SessionsOf(r) == {s \in AgentReports : RelayOf[s] = r}
AgentMaps(r) == {f \in UNION {[A -> SessionsOf(r)] : A \in SUBSET Agents} :
                   \A a \in DOMAIN f : AgentOf[f[a]] = a}

AnnounceOf(r) ==
  \E state \in RelayStates, report \in Reports[r], up \in AgentMaps(r) :
    Announce(r, state, report, up)

HeartbeatOf(r) ==
  \E state \in RelayStates, changed \in SUBSET Names, up \in SUBSET SessionsOf(r) :
    Heartbeat(r, state, changed, up)

Next ==
  \/ \E s \in Sessions, specs \in Batches : Claim(s, specs)
  \/ \E s \in Sessions, names \in SUBSET Names : Park(s, names)
  \/ \E s \in Sessions, names \in SUBSET Names : Release(s, names)
  \/ \E r \in Relays : AnnounceOf(r)
  \/ \E r \in Relays : HeartbeatOf(r)
  \/ \E s \in AgentReports : AgentUp(s)
  \/ \E s \in AgentReports, revoked \in BOOLEAN : AgentDown(s, revoked)
  \/ Sweep
  \/ \E r \in Relays, kind \in {"DRAIN", "RESUME"} \cap Orders : CommandRelay(r, kind)
  \/ \E r \in Relays : CommandReannounce(r)
  \/ \E a \in Agents : CommandAgent(a)
  \/ \E n \in Names : CommandTunnel(n)
  \/ Tick
  \/ Refresh

Spec == Init /\ [][Next]_vars

-------------------------------------------------------------------------------
(* Properties.                                                             *)

\* f is a Go map from keys of S to values of T.
IsMap(f, S, T) == DOMAIN f \subseteq S /\ f \in [DOMAIN f -> T]

\* Every map holds records of its kind (engine.go's Engine struct).
TypeOK ==
  /\ IsMap(tunnels, Names, Tunnel)
  /\ IsMap(byPort, Ports, Names)
  /\ IsMap(byDomain, Domains, Names)
  /\ IsMap(agents, Agents, Agent)
  /\ IsMap(relays, Relays, Relay)
  /\ dir \in Directories
  /\ cmds \subseteq Command
  /\ last \in Handled

\* No index entry outlives its tunnel: what byPort and byDomain name is a live
\* record that has that port or domain, whatever relays claim, park, release or
\* announce (setTunnel, deleteTunnel and unindex).  A stale entry would keep a
\* port or a domain from everyone for ever.
IndexSound ==
  /\ \A p \in DOMAIN byPort : byPort[p] \in DOMAIN tunnels /\ tunnels[byPort[p]].port = p
  /\ \A d \in DOMAIN byDomain :
       byDomain[d] \in DOMAIN tunnels /\ d \in tunnels[byDomain[d]].domains

\* Every tunnel is the one its port and its domains are indexed to, so no two
\* tunnels share a port or a domain.
Indexed ==
  /\ \A n \in DOMAIN tunnels : LET p == tunnels[n].port IN
       p # 0 => p \in DOMAIN byPort /\ byPort[p] = n
  /\ \A n \in DOMAIN tunnels : \A d \in tunnels[n].domains :
       d \in DOMAIN byDomain /\ byDomain[d] = n

\* Claims of several tunnels, parks, releases, heartbeats and sweeps never give
\* two tunnels one port or domain: only a relay's announcement can.
OnlyAnnounceCollides ==
  [][Indexed => Indexed' \/ last'.op = "announce"]_vars

\* A held name never passes to another token while it is held: a claim is
\* refused (Decide), so only a relay's announcement changes a record's token.
TokenKept ==
  \A n \in DOMAIN tunnels \cap DOMAIN tunnels' :
    tunnels'[n].token # tunnels[n].token => last'.op = "announce"

\* A held name never passes to another token, except by an announcement.
OnlyAnnounceChangesToken == [][TokenKept]_vars

ActiveOf(t) == Cardinality({n \in ActiveNames : tunnels[n].token = t})

\* No claim takes a token past its cap, however many tunnels it carries and
\* however many of them the token already had (active's count with staged).
CapHolds ==
  [][\A t \in Tokens : MaxOf[t] > 0 /\ ActiveOf(t)' > ActiveOf(t) =>
       ActiveOf(t)' <= MaxOf[t] \/ last'.op = "announce"]_vars

Silent(r) == r \in DOMAIN relays /\ relays[r].age > RelayTimeout

\* A served tunnel stops being served only because its own session ended, its
\* own relay announced a state without it, or its own relay fell silent: a late
\* park or release of an older session, or another relay's trouble, never
\* touches it.
OwnerStops ==
  \A n \in ActiveNames :
    LET t == tunnels[n] IN
    n \notin ActiveNames' =>
      \/ last'.op \in {"park", "release"} /\ last'.by = t.session
      \/ last'.op = "announce" /\ last'.by = t.relay
      \/ last'.op = "sweep" /\ Silent(t.relay)

\* A served tunnel stops only through its own session or its own relay.
OwnersOnlyStop == [][OwnerStops]_vars

\* A parked name is kept for its token for the whole grace period: it goes
\* before that only when its own session releases it.
GraceKept ==
  \A n \in DOMAIN tunnels :
    LET t == tunnels[n] IN
    t.state = "GRACE" /\ t.left > 0 /\ n \notin DOMAIN tunnels' =>
      last' = [op |-> "release", by |-> t.session]

\* No step takes a parked name from its token early.
GraceHonoured == [][GraceKept]_vars

\* A session that loses a served tunnel to another relay by a claim is told to
\* close it, in the same step (claim's takeovers).
TakeoverTells ==
  \A n \in ActiveNames \cap ActiveNames' :
    LET t == tunnels[n] IN
    tunnels'[n].relay # t.relay =>
      \/ [kind |-> "TAKEN_OVER", relay |-> t.relay, session |-> t.session] \in cmds'
      \/ last'.op = "announce"

\* No claim takes a tunnel from another relay without telling it.
TakeoverTold == [][TakeoverTells]_vars

OnlineAgents == {a \in DOMAIN agents : agents[a].state = "ONLINE"}

\* A connected agent is marked down only by the end of its own session or by
\* its own relay's silence: the late AgentDown of an older session, which
\* each relay sends from its own goroutine, is ignored.  (A registry that
\* restarts knows no agent.)
AgentOwnersOnlyStop ==
  [][\A a \in OnlineAgents :
       LET rec == agents[a] IN
       a \notin OnlineAgents' =>
         \/ last' = [op |-> "agentDown", by |-> rec.session]
         \/ last'.op = "sweep" /\ Silent(rec.relay)
         \/ last'.op = "start"]_vars

\* The step that marks a relay lost leaves it no served tunnel and no connected
\* agent, so nothing is routed to it (lostRelay).
LostRelayClears ==
  [][\A r \in DOMAIN relays \cap DOMAIN relays' :
       relays[r].state # "DOWN" /\ relays'[r].state = "DOWN" =>
         /\ \A n \in ActiveNames' : tunnels'[n].relay # r
         /\ \A a \in OnlineAgents' : agents'[a].relay # r]_vars
===============================================================================
