---------------------------- MODULE ClusterProofs -----------------------------
(***************************************************************************)
(* Proofs about Cluster, where the relays reach the claims engine with     *)
(* messages that are lost, late, repeated and out of order.                *)
(***************************************************************************)
EXTENDS Cluster, TLAPS

(* What the claims engine stores.                                          *)

\* Writing over a map, and dropping keys of one, gives a map again.
LEMMA OverMap ==
  ASSUME NEW f, NEW g, NEW S, NEW T, IsMap(f, S, T), IsMap(g, S, T)
  PROVE  IsMap(Over(f, g), S, T)
BY DEF IsMap, Over

\* Dropping keys of a map gives a map.
LEMMA WithoutMap ==
  ASSUME NEW f, NEW G, NEW S, NEW T, IsMap(f, S, T)
  PROVE  IsMap(Without(f, G), S, T)
BY DEF IsMap, Without

\* A record claimed by a session, or reported for one, is well typed.
LEMMA ClaimRecordType ==
  ASSUME NEW s \in Sessions, NEW spec, spec.domains \in SUBSET Domains, NEW p \in PortOrNone
  PROVE  ClaimRecord(s, spec, p) \in Tunnel
BY EngineConstants DEF ClaimRecord, Tunnel

\* A parked record is well typed.
LEMMA ParkedType ==
  ASSUME NEW t \in Tunnel
  PROVE  /\ Parked(t) \in Tunnel
         /\ Parked(t).port = t.port
         /\ Parked(t).domains = t.domains
         /\ Parked(t).token = t.token
<1>1. Grace \in 0..Grace
  BY EngineConstants
<1> QED
  BY <1>1, Zenon DEF Parked, Tunnel

\* The records after Store.
LEMMA StoreTunnels ==
  ASSUME NEW STATE recs, NEW STATE gone, Store(recs, gone)
  PROVE  /\ DOMAIN tunnels' = (DOMAIN tunnels \cup DOMAIN recs) \ gone
         /\ \A n \in DOMAIN tunnels' :
              tunnels'[n] = IF n \in DOMAIN recs THEN recs[n] ELSE tunnels[n]
<1>1. tunnels' = Without(Over(tunnels, recs), gone)
  BY DEF Store
<1> QED
  BY <1>1 DEF Without, Over

-------------------------------------------------------------------------------
(* The relays and the registry together.                                   *)

\* The registry shows the tunnel of session s as served.
Shown(s) == NameOf(s) \in ActiveNames /\ tunnels[NameOf(s)].session = s

\* What a message under way tells of the session it is about: a claim or an
\* answer belongs to an attempt already made, a granting answer that is waited
\* for is still true, and a name is given up only by a session that is over.
MsgOK(m) ==
  /\ m.kind \in {"CLAIM", "ANSWER"} =>
       /\ m.session \in Sessions /\ m.try \in Nat
       /\ phase[m.session] \notin {"new", "accepted", "open"}
       /\ phase[m.session] = "claiming" => m.try <= tries[m.session]
  /\ m.kind = "ANSWER" => m.ok \in BOOLEAN
  /\ m.kind = "ANSWER" /\ m.ok = TRUE /\ phase[m.session] = "claiming" /\ m.try = tries[m.session] =>
       m.session \in excused \/ Shown(m.session)
  /\ m.kind \in {"PARK", "RELEASE"} => m.session \in Sessions /\ phase[m.session] = "over"

\* The records are their sessions' own.
RecordsOK ==
  /\ IsMap(tunnels, Names, Tunnel)
  /\ \A n \in DOMAIN tunnels :
       /\ tunnels[n].relay = RelayOf[tunnels[n].session]
       /\ tunnels[n].agent = AgentOf[tunnels[n].session]

SessionsOK ==
  /\ phase \in [Sessions -> Phases] /\ tries \in [Sessions -> Nat]
  /\ \A s \in Sessions : phase[s] = "serving" => s \in excused \/ Shown(s)

\* Until a restart or an announcement excuses everyone.
Untouched == RecordsOK /\ SessionsOK /\ \A m \in net : MsgOK(m)
ClusterInv == Sessions \subseteq excused \/ Untouched

LEMMA ClusterInitInv == ClusterInit => ClusterInv
<1> SUFFICES ASSUME ClusterInit PROVE Untouched
  BY DEF ClusterInv
<1>1. DOMAIN tunnels = {}
  BY DEF ClusterInit, Init
<1>2. RecordsOK
  BY <1>1 DEF RecordsOK, IsMap
<1>3. SessionsOK
  BY DEF ClusterInit, SessionsOK, Phases
<1> QED BY <1>2, <1>3 DEF ClusterInit, Untouched

-------------------------------------------------------------------------------
(* What a step may do to what sessions rely on.                            *)

\* A session that is not over, and not excused, stays shown.
ShownKept ==
  /\ excused \subseteq excused'
  /\ \A s \in Sessions \ excused' : phase[s] # "over" /\ Shown(s) => Shown(s)'

\* No session starts to wait for an answer or to serve.
Advances(s) ==
  \/ phase'[s] = phase[s] /\ tries'[s] = tries[s]
  \/ phase'[s] = "over"
  \/ phase[s] \in {"new", "accepted", "open"} /\ phase'[s] \in {"accepted", "open", "refused"}
  \/ phase[s] = "claiming" /\ phase'[s] = "refused"

SessionsKept ==
  /\ phase' \in [Sessions -> Phases] /\ tries' \in [Sessions -> Nat]
  /\ \A s \in Sessions : Advances(s)

\* Messages that claim, answer and give up nothing.
Plain(S) == \A m \in S : m.kind \notin {"CLAIM", "ANSWER", "PARK", "RELEASE"}

LEMMA MessagesKept ==
  ASSUME Untouched, ShownKept, SessionsKept
  PROVE  SessionsOK' /\ \A m \in net : MsgOK(m)'
<1>1. SessionsOK'
  BY DEF Untouched, SessionsOK, ShownKept, SessionsKept, Advances
<1>2. ASSUME NEW m \in net PROVE MsgOK(m)'
  <2>1. MsgOK(m)
    BY DEF Untouched
  <2>2. CASE m.kind \in {"CLAIM", "ANSWER"}
    <3>1. m.session \in Sessions /\ Advances(m.session)
      BY <2>1, <2>2 DEF MsgOK, SessionsKept
    <3>2. /\ phase'[m.session] \notin {"new", "accepted", "open"}
          /\ phase'[m.session] = "claiming" =>
               phase[m.session] = "claiming" /\ tries'[m.session] = tries[m.session]
      BY <2>1, <2>2, <3>1 DEF MsgOK, Advances
    <3> QED BY <2>1, <2>2, <3>1, <3>2 DEF MsgOK, ShownKept
  <2>3. CASE m.kind \in {"PARK", "RELEASE"}
    <3>1. m.session \in Sessions /\ Advances(m.session) /\ phase[m.session] = "over"
      BY <2>1, <2>3 DEF MsgOK, SessionsKept
    <3> QED BY <2>3, <3>1 DEF MsgOK, Advances
  <2>4. CASE m.kind \notin {"CLAIM", "ANSWER", "PARK", "RELEASE"}
    BY <2>4 DEF MsgOK
  <2> QED BY <2>2, <2>3, <2>4
<1> QED BY <1>1, <1>2

\* A step that tells the registry nothing new.
LEMMA PlainStep ==
  ASSUME Untouched, RecordsOK', ShownKept, SessionsKept, NEW S, Plain(S), net' \subseteq net \cup S
  PROVE  Untouched'
<1>1. SessionsOK' /\ \A m \in net : MsgOK(m)'
  BY MessagesKept
<1>2. \A m \in S : MsgOK(m)'
  BY DEF Plain, MsgOK
<1> QED BY <1>1, <1>2 DEF Untouched

LEMMA SilentStep ==
  ASSUME Untouched, RecordsOK', ShownKept, SessionsKept, net' \subseteq net
  PROVE  Untouched'
<1>1. Plain({}) /\ net' \subseteq net \cup {}
  BY DEF Plain
<1> QED BY <1>1, PlainStep

\* What leaves the registry and the sessions alone keeps what is shown.
LEMMA RegistryKept ==
  ASSUME Untouched, UNCHANGED <<tunnels, excused>>
  PROVE  RecordsOK' /\ ShownKept
BY DEF Untouched, RecordsOK, ShownKept, Shown, ActiveNames

LEMMA PhasesKept ==
  ASSUME Untouched, UNCHANGED <<phase, tries>>
  PROVE  SessionsKept
BY DEF Untouched, SessionsOK, SessionsKept, Advances

-------------------------------------------------------------------------------
(* The steps of the relays.                                                *)

\* Steps that leave every session where it was.
LEMMA RelayStep ==
  ASSUME Untouched,
         \/ \E r \in Relays : SendHeartbeat(r) \/ DrainNext(r)
         \/ \E s \in Sessions, why \in {"AGENT_CLOSED", "HEARTBEAT"} : Leave(s, why)
         \/ \E m \in net : SetDraining(m) \/ Reannounce(m) \/ Disconnect(m) \/ Lose(m)
         \/ \E t \in Tokens : Revoke(t)
  PROVE  Untouched'
<1>1. UNCHANGED <<tunnels, excused, phase, tries>>
  BY Zenon DEF SendHeartbeat, DrainNext, Leave, SetDraining, Reannounce, Disconnect, Lose, Revoke, vars
<1>2. \E S : Plain(S) /\ net' \subseteq net \cup S
  <2>1. CASE \E r \in Relays : SendHeartbeat(r)
    <3>1. PICK r \in Relays : SendHeartbeat(r)
      BY <2>1
    <3>2. Plain({StateMsg("HEARTBEAT", r, draining[r])})
      BY DEF Plain, StateMsg
    <3> QED BY <3>1, <3>2 DEF SendHeartbeat
  <2>2. CASE \E m \in net : SetDraining(m)
    <3>1. PICK m \in net : SetDraining(m)
      BY <2>2
    <3>2. Plain({StateMsg("HEARTBEAT", m.relay, m.kind = "DRAIN")})
      BY DEF Plain, StateMsg
    <3> QED BY <3>1, <3>2 DEF SetDraining
  <2>3. CASE \E m \in net : Reannounce(m)
    <3>1. PICK m \in net : Reannounce(m)
      BY <2>3
    <3>2. Plain({StateMsg("ANNOUNCE", m.relay, draining[m.relay])})
      BY DEF Plain, StateMsg
    <3> QED BY <3>1, <3>2 DEF Reannounce
  <2>4. CASE \E t \in Tokens : Revoke(t)
    <3>1. PICK t \in Tokens : Revoke(t)
      BY <2>4
    <3>2. Plain(TokenDeleted(t))
      BY DEF Plain, TokenDeleted
    <3> QED BY <3>1, <3>2 DEF Revoke
  <2>5. CASE net' \subseteq net
    <3>1. Plain({}) /\ net' \subseteq net \cup {}
      BY <2>5 DEF Plain
    <3> QED BY <3>1
  <2>6. ASSUME \/ \E r \in Relays : DrainNext(r)
               \/ \E s \in Sessions, why \in {"AGENT_CLOSED", "HEARTBEAT"} : Leave(s, why)
               \/ \E m \in net : Disconnect(m) \/ Lose(m)
        PROVE  net' \subseteq net
    BY <2>6, Zenon DEF DrainNext, Leave, Disconnect, Lose
  <2> QED BY <2>1, <2>2, <2>3, <2>4, <2>5, <2>6
<1> QED BY <1>1, <1>2, RegistryKept, PhasesKept, PlainStep

LEMMA AcceptStep ==
  ASSUME Untouched, NEW s \in Sessions, Accept(s)
  PROVE  Untouched'
<1>1. RecordsOK' /\ ShownKept
  BY RegistryKept DEF Accept, vars
<1>2. SessionsKept
  BY DEF Accept, Untouched, SessionsOK, SessionsKept, Advances, Phases
<1> QED BY <1>1, <1>2, SilentStep DEF Accept

LEMMA TrackStep ==
  ASSUME Untouched, NEW s \in Sessions, Track(s)
  PROVE  Untouched'
<1>1. RecordsOK' /\ ShownKept
  BY RegistryKept DEF Track, vars
<1>2. SessionsKept
  BY DEF Track, Untouched, SessionsOK, SessionsKept, Advances, Phases
<1>3. Plain(About(s, {SessionMsg("AGENT_UP", s)}))
  BY DEF Plain, About, SessionMsg
<1> QED BY <1>1, <1>2, <1>3, PlainStep DEF Track

\* A session that registers waits for the answer to its first claim: no earlier
\* claim or answer of it is under way.
LEMMA RegisterStep ==
  ASSUME Untouched, NEW s \in Sessions, Register(s)
  PROVE  Untouched'
<1>0. /\ UNCHANGED <<tunnels, excused>> /\ phase[s] = "open"
      /\ phase \in [Sessions -> Phases] /\ tries \in [Sessions -> Nat]
  BY DEF Register, vars, Untouched, SessionsOK
<1>1. RecordsOK' /\ ShownKept
  BY <1>0, RegistryKept
<1>2. CASE HeldLocally(s)
  <2>1. SessionsKept
    BY <1>0, <1>2 DEF Register, SessionsKept, Advances, Phases
  <2>2. net' = net
    BY <1>2 DEF Register
  <2> QED BY <1>1, <2>1, <2>2, SilentStep
<1>3. CASE ~HeldLocally(s)
  <2>1. /\ phase' = [phase EXCEPT ![s] = "claiming"] /\ tries' = [tries EXCEPT ![s] = 1]
        /\ net' = net \cup {ClaimMsg(s, 1)}
    BY <1>3 DEF Register
  <2>2. SessionsOK'
    BY <1>0, <2>1, Zenon DEF Untouched, SessionsOK, Phases, Shown, ActiveNames
  <2>3. ASSUME NEW m \in net PROVE MsgOK(m)'
    <3>1. MsgOK(m)
      BY DEF Untouched
    <3>2. m.kind \in {"CLAIM", "ANSWER", "PARK", "RELEASE"} => m.session # s /\ m.session \in Sessions
      BY <1>0, <3>1, Zenon DEF MsgOK
    <3> QED BY <1>0, <2>1, <3>1, <3>2 DEF MsgOK, Shown, ActiveNames
  <2>4. MsgOK(ClaimMsg(s, 1))'
    BY <1>0, <2>1 DEF MsgOK, ClaimMsg
  <2> QED BY <1>1, <2>1, <2>2, <2>3, <2>4 DEF Untouched
<1> QED BY <1>2, <1>3

\* A session that asks again no longer waits for an earlier answer.
LEMMA RetryStep ==
  ASSUME Untouched, NEW s \in Sessions, Retry(s)
  PROVE  Untouched'
<1>0. /\ UNCHANGED <<tunnels, excused, phase>> /\ phase[s] = "claiming"
      /\ tries \in [Sessions -> Nat] /\ tries' = [tries EXCEPT ![s] = tries[s] + 1]
      /\ net' = net \cup {ClaimMsg(s, tries[s] + 1)}
  BY DEF Retry, vars, Untouched, SessionsOK
<1>1. RecordsOK'
  BY <1>0, RegistryKept
<1>2. SessionsOK'
  BY <1>0 DEF Untouched, SessionsOK, Shown, ActiveNames
<1>3. ASSUME NEW m \in net PROVE MsgOK(m)'
  <2>1. MsgOK(m)
    BY DEF Untouched
  <2>2. CASE m.kind \in {"CLAIM", "ANSWER"} /\ m.session = s
    <3>1. m.try \in Nat /\ m.try <= tries[s] /\ tries[s] \in Nat /\ tries'[s] = tries[s] + 1
      BY <1>0, <2>1, <2>2, Zenon DEF MsgOK
    <3>2. m.try <= tries'[s] /\ m.try # tries'[s]
      BY <3>1
    <3> QED BY <1>0, <2>1, <2>2, <3>1, <3>2, Zenon DEF MsgOK
  <2>3. CASE ~(m.kind \in {"CLAIM", "ANSWER"} /\ m.session = s)
    BY <1>0, <2>1, <2>3, Zenon DEF MsgOK, Shown, ActiveNames
  <2> QED BY <2>2, <2>3
<1>4. ASSUME NEW m, m = ClaimMsg(s, tries[s] + 1) PROVE MsgOK(m)'
  BY <1>0, <1>4 DEF MsgOK, ClaimMsg
<1> QED BY <1>0, <1>1, <1>2, <1>3, <1>4 DEF Untouched

\* The answer a session waits for is still true when it comes.
LEMMA AnsweredStep ==
  ASSUME Untouched, NEW m \in net, Answered(m)
  PROVE  Untouched'
<1> DEFINE s == m.session
<1>0. /\ UNCHANGED <<tunnels, excused, tries>> /\ m.kind = "ANSWER" /\ net' = net \ {m}
      /\ phase \in [Sessions -> Phases] /\ tries \in [Sessions -> Nat] /\ MsgOK(m)
  BY DEF Answered, vars, Untouched, SessionsOK
<1>1. RecordsOK' /\ ShownKept
  BY <1>0, RegistryKept
<1>2. s \in Sessions /\ m.ok \in BOOLEAN
  BY <1>0 DEF MsgOK
<1>3. CASE phase[s] = "claiming" /\ m.try = tries[s] /\ m.ok = TRUE
  <2>1. phase' = [phase EXCEPT ![s] = "serving"]
    BY <1>3, Zenon DEF Answered
  <2>2. s \in excused \/ Shown(s)
    BY <1>0, <1>3 DEF MsgOK
  <2>3. SessionsOK'
    BY <1>0, <1>2, <2>1, <2>2 DEF Untouched, SessionsOK, Phases, Shown, ActiveNames
  <2>4. ASSUME NEW x \in net PROVE MsgOK(x)'
    <3>1. MsgOK(x)
      BY DEF Untouched
    <3> QED BY <1>0, <1>2, <1>3, <2>1, <3>1, Zenon DEF MsgOK, Shown, ActiveNames
  <2> QED BY <1>0, <1>1, <2>3, <2>4 DEF Untouched
<1>4. CASE ~(phase[s] = "claiming" /\ m.try = tries[s] /\ m.ok = TRUE)
  <2>1. phase' = phase \/ (phase[s] = "claiming" /\ phase' = [phase EXCEPT ![s] = "refused"])
    BY <1>2, <1>4, Zenon DEF Answered
  <2>2. SessionsKept
    BY <1>0, <1>2, <2>1 DEF SessionsKept, Advances, Phases
  <2> QED BY <1>0, <1>1, <2>2, SilentStep
<1> QED BY <1>3, <1>4, Zenon

LEMMA GoneKept ==
  ASSUME Untouched, NEW S, Gone(S)
  PROVE  SessionsKept
BY DEF Untouched, SessionsOK, Gone, SessionsKept, Advances, Phases

\* A session that ends gives up its name as the last thing it says.
LEMMA EndStep ==
  ASSUME Untouched, NEW s \in Sessions, End(s) \/ GiveUp(s)
  PROVE  Untouched'
<1>1. RecordsOK' /\ ShownKept /\ Gone({s}) /\ net' = net \cup Farewell(s)
  BY RegistryKept, Zenon DEF End, GiveUp, vars
<1>2. SessionsKept /\ phase'[s] = "over"
  BY <1>1, GoneKept, Zenon DEF Gone
<1>3. SessionsOK' /\ \A m \in net : MsgOK(m)'
  BY <1>1, <1>2, MessagesKept
<1>4. ASSUME NEW m \in Farewell(s) PROVE MsgOK(m)'
  <2>1. m = DownMsg(s, reason[s]) \/ m = SessionMsg("RELEASE", s) \/ m = SessionMsg("PARK", s)
    BY Zenon DEF Farewell, About
  <2>2. m.kind \in {"AGENT_DOWN", "RELEASE", "PARK"} /\ m.session = s
    BY <2>1 DEF DownMsg, SessionMsg
  <2> QED BY <1>2, <2>2 DEF MsgOK
<1> QED BY <1>1, <1>3, <1>4 DEF Untouched

LEMMA RelayRestartStep ==
  ASSUME Untouched, NEW r \in Relays, RelayRestart(r)
  PROVE  Untouched'
<1> DEFINE a == [kind |-> "ANNOUNCE", relay |-> r, state |-> "READY", serving |-> {}, up |-> {}]
<1>1. RecordsOK' /\ ShownKept
  BY RegistryKept DEF RelayRestart, vars
<1>2. SessionsKept
  BY GoneKept, Zenon DEF RelayRestart
<1>3. Plain({a}) /\ net' = net \cup {a}
  BY DEF RelayRestart, Plain
<1> QED BY <1>1, <1>2, <1>3, PlainStep

-------------------------------------------------------------------------------
(* The steps of the registry.                                              *)

\* Records that are their sessions' own.
OwnRecords(recs) ==
  /\ IsMap(recs, Names, Tunnel)
  /\ \A n \in DOMAIN recs : /\ recs[n].relay = RelayOf[recs[n].session]
                            /\ recs[n].agent = AgentOf[recs[n].session]

LEMMA StoredOK ==
  ASSUME RecordsOK, NEW STATE recs, NEW STATE gone, OwnRecords(recs), Store(recs, gone)
  PROVE  /\ RecordsOK'
         /\ DOMAIN tunnels' = (DOMAIN tunnels \cup DOMAIN recs) \ gone
         /\ \A n \in DOMAIN tunnels' :
              tunnels'[n] = IF n \in DOMAIN recs THEN recs[n] ELSE tunnels[n]
<1>1. tunnels' = Without(Over(tunnels, recs), gone)
  BY DEF Store
<1>2. IsMap(tunnels', Names, Tunnel)
  BY <1>1, OverMap, WithoutMap, Zenon DEF RecordsOK, OwnRecords
<1>3. /\ DOMAIN tunnels' = (DOMAIN tunnels \cup DOMAIN recs) \ gone
      /\ \A n \in DOMAIN tunnels' :
           tunnels'[n] = IF n \in DOMAIN recs THEN recs[n] ELSE tunnels[n]
  BY StoreTunnels, Zenon
<1>4. \A n \in DOMAIN tunnels' : /\ tunnels'[n].relay = RelayOf[tunnels'[n].session]
                                 /\ tunnels'[n].agent = AgentOf[tunnels'[n].session]
  BY <1>3 DEF RecordsOK, OwnRecords
<1> QED BY <1>2, <1>3, <1>4, Zenon DEF RecordsOK

\* Parking keeps whose a record is.
LEMMA ParkedOwn ==
  ASSUME RecordsOK, NEW STATE P, P \subseteq DOMAIN tunnels
  PROVE  OwnRecords([n \in P |-> Parked(tunnels[n])])
<1>1. \A n \in P : n \in Names /\ tunnels[n] \in Tunnel
  BY DEF RecordsOK, IsMap
<1>2. \A t \in Tunnel : /\ Parked(t).relay = t.relay /\ Parked(t).agent = t.agent
                        /\ Parked(t).session = t.session
  BY DEF Parked, Tunnel
<1>3. \A n \in P : Parked(tunnels[n]) \in Tunnel
  BY <1>1, ParkedType
<1> QED BY <1>1, <1>2, <1>3 DEF OwnRecords, IsMap, RecordsOK

\* A name another agent serves is not granted, nor one the session itself holds.
LEMMA GrantedOwn ==
  ASSUME NEW s \in Sessions, NEW specs, NEW i, NEW grant, Passes(s, specs, i, grant),
         specs[i].name \in ActiveNames
  PROVE  /\ tunnels[specs[i].name].agent = AgentOf[s]
         /\ tunnels[specs[i].name].session # s
<1> DEFINE n == specs[i].name
           h == [token |-> tunnels[n].token, agent |-> tunnels[n].agent,
                 connected |-> tunnels[n].state = "ACTIVE", sameSession |-> tunnels[n].session = s]
<1>1. PICK active : Decide(HolderOf(n, s), TokenOf[s], AgentOf[s], active, MaxOf[TokenOf[s]]) \notin Refusals
  BY Zenon DEF Passes
<1>2. h \in HolderOf(n, s)
  BY Zenon DEF HolderOf, ActiveNames
<1>3. ~(h.connected /\ (h.agent # AgentOf[s] \/ h.sameSession))
  BY <1>1, <1>2, Zenon DEF Decide, Refusals
<1>4. tunnels[n].state = "ACTIVE"
  BY DEF ActiveNames
<1> QED BY <1>3, <1>4, Zenon

\* What a granted claim of a session does to the records.
LEMMA ClaimShows ==
  ASSUME RecordsOK, NEW s \in Sessions, Claim(s, <<SpecOf[s]>>)
  PROVE  /\ RecordsOK' /\ Shown(s)'
         /\ \A n \in DOMAIN tunnels \ {NameOf(s)} : n \in DOMAIN tunnels' /\ tunnels'[n] = tunnels[n]
         /\ NameOf(s) \in ActiveNames =>
              /\ tunnels[NameOf(s)].session \in Sessions
              /\ AgentOf[tunnels[NameOf(s)].session] = AgentOf[s]
<1> DEFINE specs == <<SpecOf[s]>>
           n == NameOf(s)
<1>1. PICK grant \in [DOMAIN specs -> PortOrNone] :
        /\ \A i \in DOMAIN specs : Passes(s, specs, i, grant)
        /\ Store(ClaimRecords(s, specs, grant), {})
  BY DEF Claim
<1> DEFINE recs == ClaimRecords(s, specs, grant)
           x == ClaimRecord(s, SpecOf[s], grant[1])
<1>2. DOMAIN specs = {1} /\ specs[1] = SpecOf[s]
  OBVIOUS
<1>3. DOMAIN recs = {n} /\ recs[n] = x /\ recs = [k \in {n} |-> recs[k]]
  <2>1. ClaimNames(specs) = {n}
    BY <1>2 DEF ClaimNames, NameOf
  <2>2. (CHOOSE i \in DOMAIN specs : specs[i].name = n) = 1
    BY <1>2 DEF NameOf
  <2> DEFINE made(k) == LET i == CHOOSE i \in DOMAIN specs : specs[i].name = k
                        IN ClaimRecord(s, specs[i], grant[i])
  <2>3. recs = [k \in {n} |-> made(k)]
    BY <2>1 DEF ClaimRecords
  <2>4. made(n) = x
    BY <1>2, <2>2, Zenon
  <2> HIDE DEF made, x, recs
  <2> QED BY <2>3, <2>4
<1>4. x \in Tunnel /\ n \in Names
  <2>1. SpecOf[s] \in TunnelSpec
    BY ClusterConstants
  <2>2. grant[1] \in PortOrNone
    BY <1>2
  <2> QED BY <2>1, <2>2, ClaimRecordType DEF TunnelSpec, NameOf
<1>5. x.session = s /\ x.state = "ACTIVE" /\ x.relay = RelayOf[s] /\ x.agent = AgentOf[s]
  BY Zenon DEF ClaimRecord
<1>6. Passes(s, specs, 1, grant) /\ Store(recs, {})
  BY <1>1, <1>2
<1>7. n \in ActiveNames => tunnels[n].agent = AgentOf[s] /\ tunnels[n].session \in Sessions
                           /\ AgentOf[tunnels[n].session] = tunnels[n].agent
  <2> SUFFICES ASSUME n \in ActiveNames
               PROVE  tunnels[n].agent = AgentOf[s] /\ tunnels[n].session \in Sessions
                      /\ AgentOf[tunnels[n].session] = tunnels[n].agent
    OBVIOUS
  <2>1. n \in DOMAIN tunnels /\ tunnels[n] \in Tunnel
    BY Zenon DEF ActiveNames, RecordsOK, IsMap
  <2>2. tunnels[n].agent = AgentOf[s]
    BY <1>2, <1>6, GrantedOwn DEF NameOf
  <2> QED BY <2>1, <2>2, Zenon DEF RecordsOK, Tunnel
<1> HIDE DEF recs, x, n
<1>8. OwnRecords(recs)
  BY <1>3, <1>4, <1>5 DEF OwnRecords, IsMap
<1>9. /\ RecordsOK' /\ DOMAIN tunnels' = DOMAIN tunnels \cup {n}
      /\ \A k \in DOMAIN tunnels' : tunnels'[k] = IF k = n THEN x ELSE tunnels[k]
  <2>1. /\ RecordsOK' /\ DOMAIN tunnels' = (DOMAIN tunnels \cup DOMAIN recs) \ {}
        /\ \A k \in DOMAIN tunnels' : tunnels'[k] = IF k \in DOMAIN recs THEN recs[k] ELSE tunnels[k]
    BY <1>6, <1>8, StoredOK, Zenon
  <2> QED BY <1>3, <2>1
<1> QED BY <1>5, <1>7, <1>9, Zenon DEF Shown, ActiveNames, n, NameOf

LEMMA HandleClaimStep ==
  ASSUME Untouched, NEW m \in net, HandleClaim(m)
  PROVE  Untouched'
<1> DEFINE s == m.session
           ok == Grantable(s)
<1>0. /\ m.kind = "CLAIM" /\ UNCHANGED <<phase, tries>> /\ MsgOK(m)
      /\ net' = (net \ {m}) \cup {Answer(m, Grantable(s))} \cup Commanded(Grantable(s))
  BY Zenon DEF HandleClaim, Untouched
<1>1. s \in Sessions /\ m.try \in Nat /\ SessionsKept /\ RecordsOK
  BY <1>0, PhasesKept, Zenon DEF MsgOK, Untouched
<1>2. CASE ~Grantable(s)
  <2>1. RecordsOK' /\ ShownKept
    BY <1>2, RegistryKept, Zenon DEF HandleClaim, vars
  <2>2. SessionsOK' /\ \A x \in net : MsgOK(x)'
    BY <1>1, <2>1, MessagesKept
  <2>3. ASSUME NEW x, x = [kind |-> "ANSWER", session |-> s, try |-> m.try, ok |-> FALSE]
        PROVE  MsgOK(x)'
    BY <1>0, <2>3, Zenon DEF MsgOK
  <2>4. net' \subseteq net \cup {[kind |-> "ANSWER", session |-> s, try |-> m.try, ok |-> FALSE]}
    BY <1>0, <1>2 DEF Answer, Commanded
  <2> QED BY <2>1, <2>2, <2>3, <2>4, Zenon DEF Untouched
<1>3. CASE Grantable(s)
  <2>1. /\ Claim(s, <<SpecOf[s]>>)
        /\ excused' = IF NameOf(s) \in ActiveNames
                        THEN excused \cup {o \in {tunnels[NameOf(s)].session} : AgentOf[o] = AgentOf[s]}
                        ELSE excused
    BY <1>3, Zenon DEF HandleClaim
  <2>2. /\ RecordsOK' /\ Shown(s)'
        /\ \A n \in DOMAIN tunnels \ {NameOf(s)} : n \in DOMAIN tunnels' /\ tunnels'[n] = tunnels[n]
        /\ NameOf(s) \in ActiveNames => AgentOf[tunnels[NameOf(s)].session] = AgentOf[s]
    BY <1>1, <2>1, ClaimShows, Zenon
  <2>3. ShownKept
    BY <2>1, <2>2 DEF ShownKept, Shown, ActiveNames
  <2>4. SessionsOK' /\ \A x \in net : MsgOK(x)'
    BY <1>1, <2>3, MessagesKept
  <2>5. ASSUME NEW x, x = [kind |-> "ANSWER", session |-> s, try |-> m.try, ok |-> TRUE]
        PROVE  MsgOK(x)'
    BY <1>0, <2>2, <2>5, Zenon DEF MsgOK
  <2>6. \A x \in cmds' : x.kind = "TAKEN_OVER"
    <3>1. cmds' = TakenOver(s, ClaimNames(<<SpecOf[s]>>))
      BY <2>1, Zenon DEF Claim, Handle
    <3>2. \A names : \A x \in TakenOver(s, names) : x.kind = "TAKEN_OVER"
      BY DEF TakenOver
    <3> QED BY <3>1, <3>2, Zenon
  <2>7. \A x \in cmds' : MsgOK(x)'
    BY <2>6 DEF MsgOK
  <2>8. net' \subseteq net \cup {[kind |-> "ANSWER", session |-> s, try |-> m.try, ok |-> TRUE]} \cup cmds'
    BY <1>0, <1>3 DEF Answer, Commanded
  <2> QED BY <2>2, <2>4, <2>5, <2>7, <2>8 DEF Untouched
<1> QED BY <1>2, <1>3

\* A session's park or release takes nobody else's name, and comes when that
\* session is over.
LEMMA GivenUp ==
  ASSUME Untouched, NEW s \in Sessions, phase[s] = "over", UNCHANGED excused,
         Park(s, {NameOf(s)}) \/ Release(s, {NameOf(s)})
  PROVE  RecordsOK' /\ ShownKept
<1> DEFINE own == OwnNames(s, {NameOf(s)})
<1>1. own \subseteq DOMAIN tunnels /\ \A n \in own : tunnels[n].session = s
  BY DEF OwnNames
<1>2. RecordsOK
  BY DEF Untouched
<1> HIDE DEF own
<1>3. /\ RecordsOK' /\ \A n \in DOMAIN tunnels \ own : n \in DOMAIN tunnels' /\ tunnels'[n] = tunnels[n]
  <2>1. CASE Park(s, {NameOf(s)})
    <3> DEFINE recs == [n \in own |-> Parked(tunnels[n])]
    <3>1. Store(recs, {}) /\ DOMAIN recs = own
      BY <2>1, Zenon DEF Park, own
    <3>2. OwnRecords(recs)
      BY <1>1, <1>2, ParkedOwn
    <3> HIDE DEF recs
    <3>3. /\ RecordsOK' /\ DOMAIN tunnels' = (DOMAIN tunnels \cup DOMAIN recs) \ {}
          /\ \A n \in DOMAIN tunnels' : tunnels'[n] = IF n \in DOMAIN recs THEN recs[n] ELSE tunnels[n]
      BY <1>2, <3>1, <3>2, StoredOK, Zenon
    <3> QED BY <3>1, <3>3, Zenon
  <2>2. CASE Release(s, {NameOf(s)})
    <3>1. Store(None, own)
      BY <2>2, Zenon DEF Release, own
    <3>2. DOMAIN None = {}
      BY DEF None
    <3>3. OwnRecords(None)
      BY <3>2 DEF OwnRecords, IsMap
    <3>4. /\ RecordsOK' /\ DOMAIN tunnels' = (DOMAIN tunnels \cup DOMAIN None) \ own
          /\ \A n \in DOMAIN tunnels' : tunnels'[n] = IF n \in DOMAIN None THEN None[n] ELSE tunnels[n]
      BY <1>2, <3>1, <3>3, StoredOK, Zenon
    <3> QED BY <3>2, <3>4, Zenon
  <2> QED BY <2>1, <2>2
<1>4. ASSUME NEW o \in Sessions, phase[o] # "over", Shown(o) PROVE Shown(o)'
  <2>1. NameOf(o) \in DOMAIN tunnels \ own
    BY <1>1, <1>4 DEF Shown, ActiveNames
  <2> QED BY <1>3, <1>4, <2>1, Zenon DEF Shown, ActiveNames, NameOf
<1> QED BY <1>3, <1>4, Zenon DEF ShownKept

LEMMA HandleToldStep ==
  ASSUME Untouched, NEW m \in net, HandleTold(m)
  PROVE  Untouched'
<1> DEFINE s == m.session
<1>1. net' = net \ {m} /\ UNCHANGED <<phase, tries, excused>> /\ MsgOK(m)
  BY DEF HandleTold, Quietly, Untouched
<1>2. SessionsKept
  BY <1>1, PhasesKept
<1>3. RecordsOK' /\ ShownKept
  <2>1. CASE m.kind \in {"PARK", "RELEASE"} /\ (Park(s, {NameOf(s)}) \/ Release(s, {NameOf(s)}))
    <3>1. s \in Sessions /\ phase[s] = "over"
      BY <1>1, <2>1, Zenon DEF MsgOK
    <3> QED BY <1>1, <2>1, <3>1, GivenUp
  <2>2. CASE tunnels' = tunnels
    BY <1>1, <2>2, RegistryKept
  <2>3. \/ m.kind \in {"PARK", "RELEASE"} /\ (Park(s, {NameOf(s)}) \/ Release(s, {NameOf(s)}))
        \/ tunnels' = tunnels
    BY Zenon DEF HandleTold, AgentUp, AgentDown, vars
  <2> QED BY <2>1, <2>2, <2>3, Zenon
<1> QED BY <1>1, <1>2, <1>3, SilentStep

\* A heartbeat writes the records it finds.
LEMMA HandleHeartbeatStep ==
  ASSUME Untouched, NEW r \in Relays, HandleHeartbeat(r)
  PROVE  Untouched'
<1>1. PICK m \in net :
        /\ Heartbeat(r, m.state, {NameOf(s) : s \in m.serving}, m.up)
        /\ net' = net \ {m} /\ Quietly
  BY Zenon DEF HandleHeartbeat
<1> DEFINE own == {n \in {NameOf(s) : s \in m.serving} \cap ActiveNames : tunnels[n].relay = r}
           recs == [n \in own |-> tunnels[n]]
<1>2. Store(recs, {}) /\ RecordsOK
  BY <1>1 DEF Heartbeat, Untouched
<1>3. own \subseteq DOMAIN tunnels
  BY Zenon DEF ActiveNames
<1> HIDE DEF own
<1>4. OwnRecords(recs) /\ DOMAIN recs = own /\ \A n \in own : recs[n] = tunnels[n]
  BY <1>2, <1>3 DEF OwnRecords, RecordsOK, IsMap
<1> HIDE DEF recs
<1>5. /\ RecordsOK' /\ DOMAIN tunnels' = (DOMAIN tunnels \cup DOMAIN recs) \ {}
      /\ \A n \in DOMAIN tunnels' : tunnels'[n] = IF n \in DOMAIN recs THEN recs[n] ELSE tunnels[n]
  BY <1>2, <1>4, StoredOK, Zenon
<1>6. DOMAIN tunnels' = DOMAIN tunnels /\ \A n \in DOMAIN tunnels : tunnels'[n] = tunnels[n]
  BY <1>3, <1>4, <1>5
<1>7. ShownKept
  BY <1>1, <1>6, Zenon DEF Quietly, ShownKept, Shown, ActiveNames, NameOf
<1>8. SessionsKept
  BY <1>1, PhasesKept, Zenon DEF Quietly
<1> QED BY <1>1, <1>5, <1>7, <1>8, SilentStep, Zenon

\* A sweep parks what was served through a lost relay, whose sessions it excuses,
\* and drops parked names.
LEMMA SweepTickStep ==
  ASSUME Untouched, SweepTick
  PROVE  Untouched'
<1> DEFINE recs == [n \in LostTunnels |-> Parked(tunnels[n])]
<1>1. /\ Store(recs, ExpiredTunnels) /\ RecordsOK /\ net' = net /\ UNCHANGED <<phase, tries>>
      /\ excused' = excused \cup UNION {On(r) : r \in Lost}
  BY Zenon DEF SweepTick, Sweep, Untouched
<1>2. LostTunnels \subseteq DOMAIN tunnels /\ DOMAIN recs = LostTunnels
  BY DEF LostTunnels, ActiveNames
<1>3. OwnRecords(recs)
  BY <1>1, <1>2, ParkedOwn
<1> HIDE DEF recs
<1>4. /\ RecordsOK' /\ DOMAIN tunnels' = (DOMAIN tunnels \cup DOMAIN recs) \ ExpiredTunnels
      /\ \A n \in DOMAIN tunnels' : tunnels'[n] = IF n \in DOMAIN recs THEN recs[n] ELSE tunnels[n]
  BY <1>1, <1>3, StoredOK, Zenon
<1>5. ASSUME NEW s \in Sessions \ excused', Shown(s) PROVE Shown(s)'
  <2> DEFINE n == NameOf(s)
  <2>1. n \in DOMAIN tunnels /\ tunnels[n].state = "ACTIVE" /\ tunnels[n].relay = RelayOf[s]
        /\ tunnels[n].session = s
    BY <1>1, <1>5, Zenon DEF Shown, ActiveNames, RecordsOK
  <2>2. RelayOf[s] \notin Lost
    BY <1>1 DEF On
  <2>3. n \notin LostTunnels /\ n \notin ExpiredTunnels
    BY <2>1, <2>2, Zenon DEF LostTunnels, ExpiredTunnels
  <2>4. n \in DOMAIN tunnels' /\ tunnels'[n] = tunnels[n]
    BY <1>2, <1>4, <2>1, <2>3
  <2> QED BY <2>1, <2>4 DEF Shown, ActiveNames, NameOf
<1>6. ShownKept
  BY <1>1, <1>5 DEF ShownKept
<1>7. SessionsKept
  BY <1>1, PhasesKept
<1> QED BY <1>1, <1>4, <1>6, <1>7, SilentStep, Zenon

LEMMA ClockStep ==
  ASSUME Untouched, Clock
  PROVE  Untouched'
<1>1. /\ tunnels' = [n \in DOMAIN tunnels |-> [tunnels[n] EXCEPT !.left = Less(@)]]
      /\ UNCHANGED <<phase, tries, net, excused>> /\ RecordsOK
  BY Zenon DEF Clock, Tick, nodes, Untouched
<1>2. ASSUME NEW t \in Tunnel
      PROVE  [t EXCEPT !.left = Less(@)] \in Tunnel
  <2>1. Less(t.left) \in 0..Grace
    BY EngineConstants DEF Less, Tunnel
  <2> QED BY <2>1 DEF Tunnel
<1>3. ASSUME NEW t \in Tunnel
      PROVE  LET u == [t EXCEPT !.left = Less(@)]
             IN u.relay = t.relay /\ u.agent = t.agent /\ u.session = t.session /\ u.state = t.state
  BY DEF Tunnel
<1>4. \A n \in DOMAIN tunnels : n \in Names /\ tunnels[n] \in Tunnel
  BY <1>1 DEF RecordsOK, IsMap
<1>5. /\ DOMAIN tunnels' = DOMAIN tunnels /\ IsMap(tunnels', Names, Tunnel)
  BY <1>1, <1>2, <1>4 DEF IsMap
<1>6. \A n \in DOMAIN tunnels :
        /\ tunnels'[n].relay = tunnels[n].relay /\ tunnels'[n].agent = tunnels[n].agent
        /\ tunnels'[n].session = tunnels[n].session /\ tunnels'[n].state = tunnels[n].state
  BY <1>1, <1>3, <1>4, Zenon
<1>7. RecordsOK'
  BY <1>1, <1>5, <1>6 DEF RecordsOK
<1>8. ShownKept
  BY <1>1, <1>5, <1>6 DEF ShownKept, Shown, ActiveNames, NameOf
<1>9. SessionsKept
  BY <1>1, PhasesKept
<1> QED BY <1>1, <1>7, <1>8, <1>9, SilentStep

LEMMA OperateStep ==
  ASSUME Untouched, Operate
  PROVE  Untouched'
<1>1. UNCHANGED <<tunnels, phase, tries, excused>> /\ net' = net \cup cmds'
  BY Zenon DEF Operate, CommandRelay, CommandReannounce, CommandAgent, CommandTunnel, Commanded
<1>2. Plain(cmds')
  BY DEF Operate, CommandRelay, CommandReannounce, CommandAgent, CommandTunnel, Handle, Plain
<1> QED BY <1>1, <1>2, RegistryKept, PhasesKept, PlainStep

-------------------------------------------------------------------------------
(* The theorems.                                                           *)

\* Nothing takes an excuse back.
LEMMA ExcusedStays ==
  ASSUME [ClusterNext]_cvars
  PROVE  excused \subseteq excused' \/ Sessions \subseteq excused'
<1>1. CASE UNCHANGED cvars
  BY <1>1 DEF cvars, nodes
<1>2. CASE \E m \in net : Deliver(m)
  BY <1>2, Zenon DEF Deliver, Answered, SetDraining, Reannounce, Disconnect, HandleClaim, HandleTold,
              HandleAnnounce, Quietly
<1>3. CASE SweepTick \/ Clock \/ Operate \/ RegistryRestart
  BY <1>3, Zenon DEF SweepTick, Clock, nodes, Operate, RegistryRestart
<1>4. CASE \E r \in Relays : SendHeartbeat(r) \/ DrainNext(r) \/ HandleHeartbeat(r) \/ RelayRestart(r)
  BY <1>4, Zenon DEF SendHeartbeat, DrainNext, HandleHeartbeat, RelayRestart, Quietly
<1>5. CASE \/ \E s \in Sessions : Accept(s) \/ Track(s) \/ Register(s) \/ Retry(s) \/ GiveUp(s) \/ End(s)
           \/ \E s \in Sessions, why \in {"AGENT_CLOSED", "HEARTBEAT"} : Leave(s, why)
           \/ \E t \in Tokens : Revoke(t)
           \/ \E m \in net : Lose(m)
  BY <1>5, Zenon DEF Accept, Track, Register, Retry, GiveUp, End, Leave, Revoke, Lose
<1> QED BY <1>1, <1>2, <1>3, <1>4, <1>5 DEF ClusterNext

LEMMA ClusterStep ==
  ASSUME ClusterInv, [ClusterNext]_cvars
  PROVE  ClusterInv'
<1>1. CASE Sessions \subseteq excused
  BY <1>1, ExcusedStays DEF ClusterInv
<1> SUFFICES ASSUME Untouched PROVE Sessions \subseteq excused' \/ Untouched'
  BY <1>1 DEF ClusterInv
<1>2. CASE \E s \in Sessions : Accept(s) \/ Track(s) \/ Register(s) \/ Retry(s) \/ GiveUp(s) \/ End(s)
  BY <1>2, AcceptStep, TrackStep, RegisterStep, RetryStep, EndStep
<1>3. CASE \/ \E r \in Relays : SendHeartbeat(r) \/ DrainNext(r)
           \/ \E s \in Sessions, why \in {"AGENT_CLOSED", "HEARTBEAT"} : Leave(s, why)
           \/ \E m \in net : Lose(m)
           \/ \E t \in Tokens : Revoke(t)
  BY <1>3, RelayStep
<1>4. CASE \E m \in net : Deliver(m)
  <2>1. PICK m \in net : Deliver(m)
    BY <1>4
  <2>2. CASE SetDraining(m) \/ Reannounce(m) \/ Disconnect(m)
    BY <2>2, RelayStep
  <2>3. CASE Answered(m) \/ HandleClaim(m) \/ HandleTold(m)
    BY <2>3, AnsweredStep, HandleClaimStep, HandleToldStep
  <2>4. CASE HandleAnnounce(m)
    BY <2>4 DEF HandleAnnounce
  <2> QED BY <2>1, <2>2, <2>3, <2>4 DEF Deliver
<1>5. CASE \E r \in Relays : HandleHeartbeat(r) \/ RelayRestart(r)
  BY <1>5, HandleHeartbeatStep, RelayRestartStep
<1>6. CASE Operate \/ SweepTick \/ Clock
  BY <1>6, OperateStep, SweepTickStep, ClockStep
<1>7. CASE RegistryRestart
  BY <1>7 DEF RegistryRestart
<1>8. CASE UNCHANGED cvars
  <2>1. UNCHANGED <<tunnels, excused, phase, tries, net>>
    BY <1>8 DEF cvars, vars, nodes
  <2> QED BY <2>1, RegistryKept, PhasesKept, SilentStep
<1> QED BY <1>2, <1>3, <1>4, <1>5, <1>6, <1>7, <1>8 DEF ClusterNext

LEMMA ClusterInvariant == ClusterSpec => []ClusterInv
BY ClusterInitInv, ClusterStep, PTL DEF ClusterSpec

\* Two agents never both serve one name: not through claims that are retried,
\* answered late or handled late, nor through late parks and releases.  It
\* happens only with a session the registry has replaced by another of the same
\* agent, one whose relay it found lost, or after a restart or an announcement
\* (claimInCluster, ClaimTunnel, Decide).
THEOREM NamesExclusive == ClusterSpec => []Exclusive
<1>1. ClusterInv => Exclusive
  BY DEF ClusterInv, Untouched, SessionsOK, Shown, Exclusive
<1> QED BY <1>1, ClusterInvariant, PTL

\* A tunnel its relay serves over an open session is the one the registry
\* shows, so the edges find it: no message of another session, late, repeated
\* or out of order, parks, frees or replaces it.
THEOREM ServedIsListed == ClusterSpec => []Listed
<1>1. ClusterInv => Listed
  BY DEF ClusterInv, Untouched, SessionsOK, Shown, Listed
<1> QED BY <1>1, ClusterInvariant, PTL

===============================================================================
