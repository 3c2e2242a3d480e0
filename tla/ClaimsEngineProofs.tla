-------------------------- MODULE ClaimsEngineProofs --------------------------
(***************************************************************************)
(* Proofs about ClaimsEngine, for every set of relays, sessions, names,    *)
(* ports and domains and for every request.                                *)
(***************************************************************************)
EXTENDS ClaimsEngine, TLAPS

\* The records a batch of setTunnel and deleteTunnel calls may carry.
Storable(recs, gone) ==
  /\ IsMap(recs, Names, Tunnel)
  /\ gone \cap DOMAIN recs = {}

\* Writing over a map, and dropping keys of one, gives a map again.
LEMMA OverMap ==
  ASSUME NEW f, NEW g, NEW S, NEW T, IsMap(f, S, T), IsMap(g, S, T)
  PROVE  IsMap(Over(f, g), S, T)
BY DEF IsMap, Over

\* Dropping keys of a map gives a map.
LEMMA WithoutMap ==
  ASSUME NEW f, NEW G, NEW S, NEW T, IsMap(f, S, T)
  PROVE  IsMap(Without(f, G), S, T)
BY DEF IsMap, Without

\* What Store does to the three maps it writes, with the records indexed last.
Written(recs, gone) == DOMAIN recs \cup gone
PortsSet(recs) == {recs[n].port : n \in DOMAIN recs} \ {0}
DomainsSet(recs) == UNION {recs[n].domains : n \in DOMAIN recs}

Stored(recs, gone, lastP, lastD) ==
  /\ tunnels' = Without(Over(tunnels, recs), gone)
  /\ lastP \in [PortsSet(recs) -> DOMAIN recs]
  /\ \A p \in PortsSet(recs) : recs[lastP[p]].port = p
  /\ byPort' = Over(Without(byPort, {p \in DOMAIN byPort : PortDropped(p, Written(recs, gone))}), lastP)
  /\ lastD \in [DomainsSet(recs) -> DOMAIN recs]
  /\ \A d \in DomainsSet(recs) : d \in recs[lastD[d]].domains
  /\ byDomain' = Over(Without(byDomain, {d \in DOMAIN byDomain : DomainDropped(d, Written(recs, gone))}), lastD)

\* What Store does to the three maps, as one conjunction.
LEMMA StoreEffect ==
  ASSUME NEW STATE recs, NEW STATE gone, Store(recs, gone)
  PROVE  \E lastP, lastD : Stored(recs, gone, lastP, lastD)
BY Zenon DEF Store, Stored, Written, PortsSet, DomainsSet

\* Store keeps the three maps well typed.
LEMMA StoreType ==
  ASSUME NEW STATE recs, NEW STATE gone, TypeOK, Storable(recs, gone), Store(recs, gone)
  PROVE  /\ IsMap(tunnels', Names, Tunnel)
         /\ IsMap(byPort', Ports, Names)
         /\ IsMap(byDomain', Domains, Names)
<1>1. PICK lastP, lastD : Stored(recs, gone, lastP, lastD)
  BY StoreEffect
<1>2. IsMap(recs, Names, Tunnel) /\ IsMap(tunnels, Names, Tunnel)
      /\ IsMap(byPort, Ports, Names) /\ IsMap(byDomain, Domains, Names)
  BY DEF Storable, TypeOK
<1>3. \A n \in DOMAIN recs : recs[n].port \in PortOrNone /\ recs[n].domains \subseteq Domains
  BY <1>2 DEF IsMap, Tunnel
<1>4. IsMap(lastP, Ports, Names)
  BY <1>1, <1>2, <1>3 DEF IsMap, PortOrNone, Stored, PortsSet
<1>5. IsMap(lastD, Domains, Names)
  BY <1>1, <1>2, <1>3 DEF IsMap, Stored, DomainsSet
<1>6. IsMap(tunnels', Names, Tunnel)
  BY <1>1, <1>2, OverMap, WithoutMap DEF Stored
<1>7. IsMap(byPort', Ports, Names)
  BY <1>1, <1>2, <1>4, OverMap, WithoutMap DEF Stored
<1>8. IsMap(byDomain', Domains, Names)
  BY <1>1, <1>2, <1>5, OverMap, WithoutMap DEF Stored
<1> QED
  BY <1>6, <1>7, <1>8

\* Store leaves no index entry behind.
LEMMA StoreSound ==
  ASSUME NEW STATE recs, NEW STATE gone, TypeOK, IndexSound, Storable(recs, gone), Store(recs, gone)
  PROVE  IndexSound'
<1>1. PICK lastP, lastD : Stored(recs, gone, lastP, lastD)
  BY StoreEffect
<1>2. \A n \in DOMAIN recs : n \in DOMAIN tunnels' /\ tunnels'[n] = recs[n]
  BY <1>1 DEF Storable, Over, Without, Stored
<1>3. \A n \in DOMAIN tunnels \ Written(recs, gone) : n \in DOMAIN tunnels' /\ tunnels'[n] = tunnels[n]
  BY <1>1 DEF Over, Without, Stored, Written
<1>4. ASSUME NEW p \in DOMAIN byPort'
      PROVE  byPort'[p] \in DOMAIN tunnels' /\ tunnels'[byPort'[p]].port = p
  <2>1. CASE p \in PortsSet(recs)
    BY <1>1, <1>2, <2>1, Zenon DEF Over, Stored
  <2>2. CASE p \notin PortsSet(recs)
    <3>1. p \in DOMAIN byPort /\ byPort'[p] = byPort[p] /\ ~PortDropped(p, Written(recs, gone))
      BY <1>1, <1>4, <2>2 DEF Over, Without, Stored
    <3>2. byPort[p] \in DOMAIN tunnels /\ tunnels[byPort[p]].port = p
      BY <3>1 DEF IndexSound
    <3>3. byPort[p] \notin Written(recs, gone)
      BY <3>1, <3>2 DEF PortDropped
    <3> QED BY <1>3, <3>1, <3>2, <3>3
  <2> QED BY <2>1, <2>2
<1>5. ASSUME NEW d \in DOMAIN byDomain'
      PROVE  byDomain'[d] \in DOMAIN tunnels' /\ d \in tunnels'[byDomain'[d]].domains
  <2>1. CASE d \in DomainsSet(recs)
    BY <1>1, <1>2, <2>1, Zenon DEF Over, Stored
  <2>2. CASE d \notin DomainsSet(recs)
    <3>1. d \in DOMAIN byDomain /\ byDomain'[d] = byDomain[d] /\ ~DomainDropped(d, Written(recs, gone))
      BY <1>1, <1>5, <2>2 DEF Over, Without, Stored
    <3>2. byDomain[d] \in DOMAIN tunnels /\ d \in tunnels[byDomain[d]].domains
      BY <3>1 DEF IndexSound
    <3>3. byDomain[d] \notin Written(recs, gone)
      BY <3>1, <3>2 DEF DomainDropped
    <3> QED BY <1>3, <3>1, <3>2, <3>3
  <2> QED BY <2>1, <2>2
<1> QED
  BY <1>4, <1>5 DEF IndexSound

\* The records keep the index complete: no two of them share a port or a domain
\* and none takes one that is indexed to another name.
Fits(recs) ==
  /\ \A n \in DOMAIN recs : LET p == recs[n].port IN
       p # 0 => /\ p \in DOMAIN byPort => byPort[p] = n
                /\ \A m \in DOMAIN recs : recs[m].port = p => m = n
  /\ \A n \in DOMAIN recs : \A d \in recs[n].domains :
       /\ d \in DOMAIN byDomain => byDomain[d] = n
       /\ \A m \in DOMAIN recs : d \in recs[m].domains => m = n

\* Storing records that fit keeps every tunnel indexed.
LEMMA StoreIndexed ==
  ASSUME NEW STATE recs, NEW STATE gone, TypeOK, Indexed, Storable(recs, gone), Fits(recs),
         Store(recs, gone)
  PROVE  Indexed'
<1>1. PICK lastP, lastD : Stored(recs, gone, lastP, lastD)
  BY StoreEffect
<1>2. DOMAIN tunnels' = (DOMAIN tunnels \cup DOMAIN recs) \ gone
  BY <1>1 DEF Over, Without, Stored
<1>3. \A n \in DOMAIN tunnels' : tunnels'[n] = IF n \in DOMAIN recs THEN recs[n] ELSE tunnels[n]
  BY <1>1 DEF Over, Without, Stored
<1>4. ASSUME NEW n \in DOMAIN tunnels', NEW p, p = tunnels'[n].port, p # 0
      PROVE  p \in DOMAIN byPort' /\ byPort'[p] = n
  <2>1. CASE n \in DOMAIN recs
    <3>1. p = recs[n].port /\ p \in PortsSet(recs)
      BY <1>3, <1>4, <2>1 DEF PortsSet
    <3>2. lastP[p] \in DOMAIN recs /\ recs[lastP[p]].port = p
      BY <1>1, <3>1 DEF Stored
    <3>3. lastP[p] = n
      BY <1>4, <2>1, <3>1, <3>2 DEF Fits
    <3> QED BY <1>1, <3>1, <3>3 DEF Over, Stored
  <2>2. CASE n \notin DOMAIN recs
    <3>1. n \in DOMAIN tunnels /\ n \notin Written(recs, gone) /\ p = tunnels[n].port
      BY <1>2, <1>3, <1>4, <2>2 DEF Written
    <3>2. p \in DOMAIN byPort /\ byPort[p] = n
      BY <1>4, <3>1 DEF Indexed
    <3>3. p \notin PortsSet(recs)
      BY <1>4, <2>2, <3>2 DEF Fits, PortsSet
    <3>4. ~PortDropped(p, Written(recs, gone))
      BY <3>1, <3>2 DEF PortDropped
    <3> QED BY <1>1, <3>2, <3>3, <3>4 DEF Over, Without, Stored
  <2> QED BY <2>1, <2>2
<1>5. ASSUME NEW n \in DOMAIN tunnels', NEW d \in tunnels'[n].domains
      PROVE  d \in DOMAIN byDomain' /\ byDomain'[d] = n
  <2>1. CASE n \in DOMAIN recs
    <3>1. d \in recs[n].domains /\ d \in DomainsSet(recs)
      BY <1>3, <1>5, <2>1 DEF DomainsSet
    <3>2. lastD[d] \in DOMAIN recs /\ d \in recs[lastD[d]].domains
      BY <1>1, <3>1 DEF Stored
    <3>3. lastD[d] = n
      BY <2>1, <3>1, <3>2 DEF Fits
    <3> QED BY <1>1, <3>1, <3>3 DEF Over, Stored
  <2>2. CASE n \notin DOMAIN recs
    <3>1. n \in DOMAIN tunnels /\ n \notin Written(recs, gone) /\ d \in tunnels[n].domains
      BY <1>2, <1>3, <1>5, <2>2 DEF Written
    <3>2. d \in DOMAIN byDomain /\ byDomain[d] = n
      BY <3>1 DEF Indexed
    <3>3. d \notin DomainsSet(recs)
      BY <2>2, <3>2 DEF Fits, DomainsSet
    <3>4. ~DomainDropped(d, Written(recs, gone))
      BY <3>1, <3>2 DEF DomainDropped
    <3> QED BY <1>1, <3>2, <3>3, <3>4 DEF Over, Without, Stored
  <2> QED BY <2>1, <2>2
<1> QED
  BY <1>4, <1>5 DEF Indexed

-------------------------------------------------------------------------------
(* What each handler stores.                                               *)

\* A record claimed by a session, or reported for one, is well typed.
LEMMA ClaimRecordType ==
  ASSUME NEW s \in Sessions, NEW spec, spec.domains \in SUBSET Domains, NEW p \in PortOrNone
  PROVE  ClaimRecord(s, spec, p) \in Tunnel
BY EngineConstants DEF ClaimRecord, Tunnel

\* A parked record is well typed.
LEMMA ParkedType ==
  ASSUME NEW t \in Tunnel
  PROVE  /\ Parked(t) \in Tunnel
         /\ Parked(t).port = t.port
         /\ Parked(t).domains = t.domains
         /\ Parked(t).token = t.token
<1>1. Grace \in 0..Grace
  BY EngineConstants
<1> QED
  BY <1>1, Zenon DEF Parked, Tunnel

\* What a claim stores is well typed.
LEMMA ClaimStorable ==
  ASSUME NEW s \in Sessions, NEW specs \in Batches, NEW grant \in [DOMAIN specs -> PortOrNone]
  PROVE  Storable(ClaimRecords(s, specs, grant), {})
<1>1. specs \in [1..Len(specs) -> TunnelSpec]
  BY EngineConstants
<1>2. \A i \in DOMAIN specs : specs[i].name \in Names /\ specs[i].domains \in SUBSET Domains
  BY <1>1 DEF TunnelSpec
<1>3. ASSUME NEW n \in ClaimNames(specs)
      PROVE  n \in Names /\ ClaimRecords(s, specs, grant)[n] \in Tunnel
  <2>1. PICK i \in DOMAIN specs : specs[i].name = n
    BY DEF ClaimNames
  <2> DEFINE k == CHOOSE j \in DOMAIN specs : specs[j].name = n
  <2>2. k \in DOMAIN specs
    BY <2>1
  <2>3. ClaimRecord(s, specs[k], grant[k]) \in Tunnel
    BY <1>2, <2>2, ClaimRecordType
  <2> QED BY <1>2, <2>1, <2>3 DEF ClaimRecords
<1> QED
  BY <1>3, Zenon DEF Storable, IsMap, ClaimRecords

\* A granted port is free for the name.
LEMMA GrantedFree ==
  ASSUME NEW token, NEW spec, NEW STATE staged, NEW p \in PortGranted(token, spec, staged)
  PROVE  Free(p, spec.name, staged)
BY DEF PortGranted

\* What check grants to a batch fits the index: its ports and domains are not
\* another tunnel's, and not those of an earlier tunnel of the batch.
LEMMA ClaimFits ==
  ASSUME NEW s \in Sessions, NEW specs \in Batches, NEW grant \in [DOMAIN specs -> PortOrNone],
         \A i \in DOMAIN specs : Passes(s, specs, i, grant)
  PROVE  Fits(ClaimRecords(s, specs, grant))
<1> DEFINE recs == ClaimRecords(s, specs, grant)
           idx(n) == CHOOSE j \in DOMAIN specs : specs[j].name = n
<1>1. specs \in [1..Len(specs) -> TunnelSpec] /\ Len(specs) \in Nat
  BY EngineConstants
<1>2. ASSUME NEW n \in DOMAIN recs
      PROVE  /\ idx(n) \in DOMAIN specs
             /\ specs[idx(n)].name = n
             /\ recs[n].port = grant[idx(n)]
             /\ recs[n].domains = specs[idx(n)].domains
  <2>1. n \in ClaimNames(specs)
    BY DEF ClaimRecords
  <2>2. PICK i \in DOMAIN specs : specs[i].name = n
    BY <2>1 DEF ClaimNames
  <2>3. idx(n) \in DOMAIN specs /\ specs[idx(n)].name = n
    BY <2>2
  <2>4. recs[n] = ClaimRecord(s, specs[idx(n)], grant[idx(n)])
    BY <2>1 DEF ClaimRecords
  <2> QED BY <2>3, <2>4 DEF ClaimRecord
<1>3. ASSUME NEW i \in DOMAIN specs, grant[i] # 0
      PROVE  /\ grant[i] \in DOMAIN byPort => byPort[grant[i]] = specs[i].name
             /\ \A j \in DOMAIN specs : j < i => grant[j] # grant[i]
  <2> DEFINE stagedPorts == {grant[j] : j \in 1..(i - 1)} \ {0}
  <2>1. Passes(s, specs, i, grant)
    BY Zenon
  <2>2. grant[i] \in PortGranted(TokenOf[s], specs[i], stagedPorts)
    BY <1>3, <2>1 DEF Passes
  <2>3. Free(grant[i], specs[i].name, stagedPorts)
    BY <2>2, GrantedFree
  <2>4. grant[i] \notin stagedPorts
    BY <2>3 DEF Free
  <2>5. \A j \in DOMAIN specs : j < i => j \in 1..(i - 1)
    BY <1>1
  <2> QED BY <1>3, <2>3, <2>4, <2>5 DEF Free
<1>4. ASSUME NEW i \in DOMAIN specs, NEW d \in specs[i].domains
      PROVE  /\ d \in DOMAIN byDomain => byDomain[d] = specs[i].name
             /\ \A j \in DOMAIN specs : j < i => d \notin specs[j].domains
  <2>1. Passes(s, specs, i, grant)
    OBVIOUS
  <2>2. \A j \in DOMAIN specs : j < i => j \in 1..(i - 1)
    BY <1>1
  <2> QED BY <2>1, <2>2 DEF Passes
<1>5. \A i, j \in DOMAIN specs : i = j \/ i < j \/ j < i
  BY <1>1
<1>6. ASSUME NEW n \in DOMAIN recs, NEW m \in DOMAIN recs, recs[n].port # 0,
             recs[m].port = recs[n].port
      PROVE  m = n
  BY <1>2, <1>3, <1>5, <1>6
<1>7. ASSUME NEW n \in DOMAIN recs, NEW m \in DOMAIN recs, NEW d \in recs[n].domains,
             d \in recs[m].domains
      PROVE  m = n
  BY <1>2, <1>4, <1>5, <1>7
<1>8. ASSUME NEW n \in DOMAIN recs, recs[n].port # 0, recs[n].port \in DOMAIN byPort
      PROVE  byPort[recs[n].port] = n
  BY <1>2, <1>3, <1>8
<1>9. ASSUME NEW n \in DOMAIN recs, NEW d \in recs[n].domains, d \in DOMAIN byDomain
      PROVE  byDomain[d] = n
  BY <1>2, <1>4, <1>9
<1> HIDE DEF recs
<1> QED
  BY <1>6, <1>7, <1>8, <1>9 DEF Fits, recs

\* Records rewritten with the port and the domains they had fit the index.
LEMMA KeptFits ==
  ASSUME TypeOK, Indexed, NEW STATE recs, DOMAIN recs \subseteq DOMAIN tunnels,
         \A n \in DOMAIN recs : /\ recs[n].port = tunnels[n].port
                                /\ recs[n].domains = tunnels[n].domains
  PROVE  Fits(recs)
BY DEF Fits, Indexed

\* What an announcement stores is well typed.
LEMMA AnnounceStorable ==
  ASSUME TypeOK, NEW r \in Relays, NEW report \in Reports[r]
  PROVE  Storable(AnnounceRecords(r, report), {})
<1>1. report \in Report
  BY EngineConstants
<1>2. DOMAIN report \subseteq Names /\ \A n \in DOMAIN report : report[n] \in Served
  BY <1>1 DEF Report
<1>3. ASSUME NEW n \in DOMAIN report
      PROVE  ClaimRecord(report[n].session, report[n], report[n].port) \in Tunnel
  <2>1. report[n].session \in Sessions /\ report[n].port \in PortOrNone
        /\ report[n].domains \in SUBSET Domains
    BY <1>2 DEF Served
  <2> QED BY <2>1, ClaimRecordType
<1>4. ASSUME NEW n \in DOMAIN tunnels
      PROVE  n \in Names /\ Parked(tunnels[n]) \in Tunnel
  BY ParkedType DEF TypeOK, IsMap
<1> QED
  BY <1>2, <1>3, <1>4 DEF Storable, IsMap, AnnounceRecords, ActiveNames

-------------------------------------------------------------------------------
(* Types of the agents and the relays.                                     *)

\* The clock changes no port, no domain and no state, and keeps the types.
LEMMA TickType ==
  ASSUME TypeOK, Tick
  PROVE  /\ TypeOK'
         /\ DOMAIN tunnels' = DOMAIN tunnels
         /\ \A n \in DOMAIN tunnels :
              /\ tunnels'[n].port = tunnels[n].port
              /\ tunnels'[n].domains = tunnels[n].domains
              /\ tunnels'[n].token = tunnels[n].token
         /\ UNCHANGED <<byPort, byDomain>>
<1>1. \A t \in Tunnel : LET u == [t EXCEPT !.left = Less(@)] IN
        u \in Tunnel /\ u.port = t.port /\ u.domains = t.domains /\ u.token = t.token
  <2>1. \A x \in 0..Grace : Less(x) \in 0..Grace
    BY EngineConstants DEF Less
  <2> QED BY <2>1 DEF Tunnel
<1>2. \A x \in Age : Older(x) \in Age
  BY EngineConstants DEF Older, Age
<1>3. \A a \in Agent : [a EXCEPT !.left = Less(@), !.age = Older(@)] \in Agent
  <2>1. \A x \in 0..Grace : Less(x) \in 0..Grace
    BY EngineConstants DEF Less
  <2> QED BY <1>2, <2>1, Zenon DEF Agent
<1>4. \A x \in Relay : [x EXCEPT !.age = Older(@)] \in Relay
  BY <1>2 DEF Relay
<1>5. IsMap(tunnels, Names, Tunnel) /\ IsMap(agents, Agents, Agent) /\ IsMap(relays, Relays, Relay)
  BY DEF TypeOK
<1>6. IsMap(tunnels', Names, Tunnel)
  BY <1>1, <1>5, Zenon DEF Tick, IsMap
<1>7. IsMap(agents', Agents, Agent)
  BY <1>3, <1>5, Zenon DEF Tick, IsMap
<1>8. IsMap(relays', Relays, Relay)
  BY <1>4, <1>5, Zenon DEF Tick, IsMap
<1>9. TypeOK'
  BY <1>6, <1>7, <1>8, Zenon DEF Tick, TypeOK, Handle, Handled, Senders
<1>10. \A n \in DOMAIN tunnels : tunnels[n] \in Tunnel
  BY <1>5 DEF IsMap
<1> QED
  BY <1>1, <1>9, <1>10, Zenon DEF Tick

\* The tables of relays and agents after a report.
LEMMA TouchedType ==
  ASSUME TypeOK, NEW r \in Relays, NEW state \in RelayStates
  PROVE  IsMap(Touched(r, state), Relays, Relay)
<1>1. state \in {"READY", "DRAINING", "DOWN"} /\ 0 \in Age
  BY EngineConstants DEF Age
<1>2. IsMap([x \in {r} |-> [state |-> IF state = "DOWN" THEN "READY" ELSE state, age |-> 0]], Relays, Relay)
  BY <1>1 DEF IsMap, Relay
<1>3. IsMap(relays, Relays, Relay)
  BY DEF TypeOK
<1> QED
  BY <1>2, <1>3, OverMap DEF Touched

\* An agent marked down is a well typed agent.
LEMMA DownType ==
  ASSUME NEW a \in Agent, NEW denied \in BOOLEAN
  PROVE  Down(a, denied) \in Agent
<1>1. Grace \in 0..Grace /\ 0 \in 0..Grace /\ 0 \in Age
  BY EngineConstants DEF Age
<1> QED
  BY <1>1, Zenon DEF Down, Agent

-------------------------------------------------------------------------------
(* One lemma per handler.                                                  *)

\* The inductive invariant: Store keeps IndexSound only where the records are
\* well typed.
IInv == TypeOK /\ IndexSound

\* The empty engine satisfies the inductive invariant.
LEMMA InitIInv == Init => IInv
BY DEF Init, IInv, TypeOK, IndexSound, IsMap, Handled, Senders

\* A claim keeps the inductive invariant and the index complete.
LEMMA ClaimStep ==
  ASSUME IInv, NEW s \in Sessions, NEW specs \in Batches, Claim(s, specs)
  PROVE  IInv' /\ (Indexed => Indexed')
<1>1. PICK grant \in [DOMAIN specs -> PortOrNone] :
        /\ \A i \in DOMAIN specs : Passes(s, specs, i, grant)
        /\ Store(ClaimRecords(s, specs, grant), {})
  BY DEF Claim
<1>2. Storable(ClaimRecords(s, specs, grant), {})
  BY ClaimStorable
<1>3. TypeOK /\ IndexSound
  BY DEF IInv
<1>4. TakenOver(s, ClaimNames(specs)) \subseteq Command
  BY <1>3 DEF TakenOver, Command, TypeOK, IsMap, ActiveNames, Tunnel
<1>5. TypeOK'
  BY <1>1, <1>2, <1>3, <1>4, StoreType DEF Claim, TypeOK, Handle, Handled, Senders
<1>6. IndexSound'
  BY <1>1, <1>2, <1>3, StoreSound
<1>7. Indexed => Indexed'
  BY <1>1, <1>2, <1>3, ClaimFits, StoreIndexed
<1> QED
  BY <1>5, <1>6, <1>7 DEF IInv

\* A step that rewrites some of the records with the ports and domains they
\* had, and drops others.
LEMMA KeepStep ==
  ASSUME IInv, NEW STATE recs, NEW STATE gone,
         DOMAIN recs \subseteq DOMAIN tunnels, recs \in [DOMAIN recs -> Tunnel],
         \A n \in DOMAIN recs : /\ recs[n].port = tunnels[n].port
                                /\ recs[n].domains = tunnels[n].domains,
         gone \cap DOMAIN recs = {}, Store(recs, gone)
  PROVE  /\ IsMap(tunnels', Names, Tunnel)
         /\ IsMap(byPort', Ports, Names)
         /\ IsMap(byDomain', Domains, Names)
         /\ IndexSound'
         /\ Indexed => Indexed'
<1>1. TypeOK /\ IndexSound
  BY DEF IInv
<1>2. Storable(recs, gone)
  BY <1>1 DEF Storable, IsMap, TypeOK
<1>3. Indexed => Fits(recs)
  BY <1>1, KeptFits
<1> QED
  BY <1>1, <1>2, <1>3, StoreType, StoreSound, StoreIndexed

\* A park keeps the inductive invariant and the index complete.
LEMMA ParkStep ==
  ASSUME IInv, NEW s \in Sessions, NEW names \in SUBSET Names, Park(s, names)
  PROVE  IInv' /\ (Indexed => Indexed')
<1> DEFINE recs == [n \in OwnNames(s, names) |-> Parked(tunnels[n])]
<1>1. DOMAIN recs = OwnNames(s, names) /\ OwnNames(s, names) \subseteq DOMAIN tunnels
  BY DEF OwnNames
<1>2. \A n \in DOMAIN tunnels : tunnels[n] \in Tunnel
  BY DEF IInv, TypeOK, IsMap
<1>3. /\ recs \in [DOMAIN recs -> Tunnel]
      /\ \A n \in DOMAIN recs : recs[n].port = tunnels[n].port /\ recs[n].domains = tunnels[n].domains
  BY <1>1, <1>2, ParkedType
<1>4. Store(recs, {})
  BY DEF Park
<1> HIDE DEF recs
<1>5. /\ IsMap(tunnels', Names, Tunnel) /\ IsMap(byPort', Ports, Names)
      /\ IsMap(byDomain', Domains, Names) /\ IndexSound' /\ (Indexed => Indexed')
  BY <1>1, <1>3, <1>4, KeepStep
<1> QED
  BY <1>5 DEF Park, IInv, TypeOK, Handle, Handled, Senders

\* A release keeps the inductive invariant and the index complete.
LEMMA ReleaseStep ==
  ASSUME IInv, NEW s \in Sessions, NEW names \in SUBSET Names, Release(s, names)
  PROVE  IInv' /\ (Indexed => Indexed')
<1>1. DOMAIN None = {} /\ None \in [DOMAIN None -> Tunnel]
  BY DEF None
<1>2. Store(None, OwnNames(s, names))
  BY DEF Release
<1>3. /\ IsMap(tunnels', Names, Tunnel) /\ IsMap(byPort', Ports, Names)
      /\ IsMap(byDomain', Domains, Names) /\ IndexSound' /\ (Indexed => Indexed')
  BY <1>1, <1>2, KeepStep, Zenon
<1> QED
  BY <1>3 DEF Release, IInv, TypeOK, Handle, Handled, Senders

\* An announcement keeps the inductive invariant.
LEMMA AnnounceStep ==
  ASSUME IInv, NEW r \in Relays, AnnounceOf(r)
  PROVE  IInv' /\ last'.op = "announce"
<1>1. PICK state \in RelayStates, report \in Reports[r], up \in AgentMaps(r) :
        Announce(r, state, report, up)
  BY DEF AnnounceOf
<1>2. TypeOK /\ IndexSound
  BY Zenon DEF IInv
<1>3. Storable(AnnounceRecords(r, report), {}) /\ Store(AnnounceRecords(r, report), {})
  BY <1>1, <1>2, AnnounceStorable, Zenon DEF Announce
<1>4. IsMap(relays', Relays, Relay)
  BY <1>1, <1>2, TouchedType, Zenon DEF Announce
<1> DEFINE ups == [a \in DOMAIN up |-> [relay |-> r, session |-> up[a], state |-> "ONLINE",
                                       left |-> 0, age |-> MaxAge]]
<1>5. IsMap(ups, Agents, Agent)
  <2>1. DOMAIN up \subseteq Agents /\ \A a \in DOMAIN up : up[a] \in Sessions
    BY EngineConstants DEF AgentMaps, SessionsOf
  <2>2. 0 \in 0..Grace /\ MaxAge \in Age
    BY EngineConstants DEF Age
  <2> QED BY <2>1, <2>2, Zenon DEF IsMap, Agent
<1>6. IsMap(agents, Agents, Agent)
  BY <1>2, Zenon DEF TypeOK
<1>7. agents' = Over(agents, ups)
  BY <1>1 DEF Announce
<1> HIDE DEF ups
<1>8. IsMap(agents', Agents, Agent)
  BY <1>5, <1>6, <1>7, OverMap
<1>9. TypeOK'
  BY <1>1, <1>2, <1>3, <1>4, <1>8, StoreType, Zenon DEF Announce, TypeOK, Handle, Handled, Senders
<1>10. IndexSound'
  BY <1>2, <1>3, StoreSound, Zenon
<1>11. last'.op = "announce"
  BY <1>1 DEF Announce, Handle
<1> QED
  BY <1>9, <1>10, <1>11 DEF IInv

\* A heartbeat keeps the inductive invariant and the index complete.
LEMMA HeartbeatStep ==
  ASSUME IInv, NEW r \in Relays, HeartbeatOf(r)
  PROVE  IInv' /\ (Indexed => Indexed')
<1>1. PICK state \in RelayStates, changed \in SUBSET Names, up \in SUBSET SessionsOf(r) :
        Heartbeat(r, state, changed, up)
  BY DEF HeartbeatOf
<1>2. TypeOK
  BY DEF IInv
<1> DEFINE own == {n \in changed \cap ActiveNames : tunnels[n].relay = r}
           recs == [n \in own |-> tunnels[n]]
           seen == {a \in DOMAIN agents : agents[a].relay = r /\ agents[a].session \in up}
           beats == [a \in seen |-> [agents[a] EXCEPT !.age = 0]]
<1>3. /\ DOMAIN recs \subseteq DOMAIN tunnels
      /\ recs \in [DOMAIN recs -> Tunnel]
      /\ \A n \in DOMAIN recs : recs[n].port = tunnels[n].port /\ recs[n].domains = tunnels[n].domains
  BY <1>2 DEF ActiveNames, TypeOK, IsMap
<1>4. Store(recs, {}) /\ agents' = Over(agents, beats)
  BY <1>1 DEF Heartbeat
<1>5. IsMap(beats, Agents, Agent)
  <2>1. 0 \in Age
    BY EngineConstants DEF Age
  <2>2. \A a \in Agent : [a EXCEPT !.age = 0] \in Agent
    BY <2>1 DEF Agent
  <2> QED BY <1>2, <2>2 DEF IsMap, TypeOK
<1> HIDE DEF recs, beats
<1>6. /\ IsMap(tunnels', Names, Tunnel) /\ IsMap(byPort', Ports, Names)
      /\ IsMap(byDomain', Domains, Names) /\ IndexSound' /\ (Indexed => Indexed')
  BY <1>3, <1>4, KeepStep
<1>7. IsMap(relays', Relays, Relay)
  BY <1>1, <1>2, TouchedType DEF Heartbeat
<1>8. IsMap(agents, Agents, Agent)
  BY <1>2 DEF TypeOK
<1>9. IsMap(agents', Agents, Agent)
  BY <1>4, <1>5, <1>8, OverMap
<1> QED
  BY <1>1, <1>2, <1>6, <1>7, <1>9 DEF Heartbeat, IInv, TypeOK, Handle, Handled, Senders

\* A sweep keeps the inductive invariant and the index complete.
LEMMA SweepStep ==
  ASSUME IInv, Sweep
  PROVE  IInv' /\ (Indexed => Indexed')
<1> DEFINE recs == [n \in LostTunnels |-> Parked(tunnels[n])]
<1>1. /\ IsMap(tunnels, Names, Tunnel) /\ IsMap(agents, Agents, Agent)
      /\ IsMap(relays, Relays, Relay) /\ dir \in Directories
  BY DEF IInv, TypeOK
<1>2. DOMAIN recs = LostTunnels /\ LostTunnels \subseteq DOMAIN tunnels
      /\ ExpiredTunnels \cap LostTunnels = {}
  BY DEF LostTunnels, ActiveNames, ExpiredTunnels
<1>3. /\ recs \in [DOMAIN recs -> Tunnel]
      /\ \A n \in DOMAIN recs : recs[n].port = tunnels[n].port /\ recs[n].domains = tunnels[n].domains
  BY <1>1, <1>2, ParkedType DEF IsMap
<1>4. Store(recs, ExpiredTunnels)
  BY Zenon DEF Sweep
<1> HIDE DEF recs
<1>5. /\ IsMap(tunnels', Names, Tunnel) /\ IsMap(byPort', Ports, Names)
      /\ IsMap(byDomain', Domains, Names) /\ IndexSound' /\ (Indexed => Indexed')
  BY <1>2, <1>3, <1>4, KeepStep
<1>6. IsMap(relays', Relays, Relay)
  <2>1. \A x \in Relay : [x EXCEPT !.state = "DOWN"] \in Relay
    BY DEF Relay
  <2> QED BY <1>1, <2>1, Zenon DEF Sweep, IsMap
<1>7. IsMap(agents', Agents, Agent)
  <2>1. 0 \in 0..Grace
    BY EngineConstants
  <2>2. \A a \in Agent : [a EXCEPT !.state = "OFFLINE", !.left = 0] \in Agent
    BY <2>1, Zenon DEF Agent
  <2>3. \A a \in Agent : Down(a, FALSE) \in Agent
    BY DownType, Zenon
  <2> QED BY <1>1, <2>2, <2>3, Zenon DEF Sweep, IsMap
<1> QED
  BY <1>1, <1>5, <1>6, <1>7, Zenon DEF Sweep, IInv, TypeOK, Handle, Handled, Senders

\* An agent's arrival touches the agents only.
LEMMA AgentUpStep ==
  ASSUME IInv, NEW s \in AgentReports, AgentUp(s)
  PROVE  IInv'
<1> DEFINE ups == [a \in {AgentOf[s]} |-> [relay |-> RelayOf[s], session |-> s, state |-> "ONLINE",
                                          left |-> 0, age |-> 0]]
<1>1. s \in Sessions /\ RelayOf[s] \in Relays /\ AgentOf[s] \in Agents /\ 0 \in 0..Grace /\ 0 \in Age
  BY EngineConstants DEF Age
<1>2. IsMap(ups, Agents, Agent)
  BY <1>1, Zenon DEF IsMap, Agent
<1>3. agents' = Over(agents, ups) /\ IsMap(agents, Agents, Agent)
  BY Zenon DEF AgentUp, IInv, TypeOK, Handle, Handled, Senders
<1> HIDE DEF ups
<1>4. IsMap(agents', Agents, Agent)
  BY <1>2, <1>3, OverMap, Zenon
<1> QED
  BY <1>1, <1>4 DEF AgentUp, IInv, TypeOK, IndexSound, Handle, Handled, Senders

\* An agent's end touches the agents only.
LEMMA AgentDownStep ==
  ASSUME IInv, NEW s \in AgentReports, NEW denied \in BOOLEAN, AgentDown(s, denied)
  PROVE  IInv'
<1>1. IsMap(agents, Agents, Agent) /\ AgentOf[s] \in DOMAIN agents /\ s \in Sessions
  BY EngineConstants DEF AgentDown, IInv, TypeOK
<1>2. Down(agents[AgentOf[s]], denied) \in Agent
  BY <1>1, DownType DEF IsMap
<1>3. IsMap(agents', Agents, Agent)
  BY <1>1, <1>2 DEF AgentDown, IsMap
<1> QED
  BY <1>1, <1>3 DEF AgentDown, IInv, TypeOK, IndexSound, Handle, Handled, Senders

\* An operator's command touches at most the state of a relay.
LEMMA CommandStep ==
  ASSUME IInv,
         \/ \E r \in Relays, kind \in {"DRAIN", "RESUME"} \cap Orders : CommandRelay(r, kind)
         \/ \E r \in Relays : CommandReannounce(r)
         \/ \E a \in Agents : CommandAgent(a)
         \/ \E n \in Names : CommandTunnel(n)
  PROVE  IInv' /\ UNCHANGED <<tunnels, byPort, byDomain>>
<1>1. TypeOK /\ IndexSound
  BY DEF IInv
<1>2. ASSUME NEW r \in Relays, NEW kind \in {"DRAIN", "RESUME"} \cap Orders, CommandRelay(r, kind)
      PROVE  IInv' /\ UNCHANGED <<tunnels, byPort, byDomain>>
  <2>1. \A x \in Relay, st \in {"DRAINING", "READY"} : [x EXCEPT !.state = st] \in Relay
    BY DEF Relay
  <2>2. IsMap(relays', Relays, Relay)
    BY <1>1, <1>2, <2>1, Zenon DEF CommandRelay, TypeOK, IsMap
  <2>3. [kind |-> kind, relay |-> r] \in Command
    BY DEF Command
  <2>4. cmds' = {[kind |-> kind, relay |-> r]}
    BY <1>2 DEF CommandRelay, Handle
  <2>5. cmds' \subseteq Command
    BY <2>3, <2>4
  <2> QED BY <1>1, <1>2, <2>2, <2>5, Zenon DEF CommandRelay, IInv, TypeOK, IndexSound, Handle, Handled, Senders
<1>3. ASSUME NEW r \in Relays, CommandReannounce(r)
      PROVE  IInv' /\ UNCHANGED <<tunnels, byPort, byDomain>>
  <2>1. [kind |-> "REANNOUNCE", relay |-> r] \in Command
    BY DEF Command
  <2>2. cmds' = {[kind |-> "REANNOUNCE", relay |-> r]}
    BY <1>3 DEF CommandReannounce, Handle
  <2>3. cmds' \subseteq Command
    BY <2>1, <2>2
  <2> QED BY <1>1, <1>3, <2>3, Zenon DEF CommandReannounce, IInv, TypeOK, IndexSound, Handle, Handled, Senders
<1>4. ASSUME NEW a \in Agents, CommandAgent(a)
      PROVE  IInv' /\ UNCHANGED <<tunnels, byPort, byDomain>>
  <2>1. cmds' \subseteq Command
    BY <1>1, <1>4 DEF CommandAgent, Command, TypeOK, IsMap, Agent, Handle
  <2> QED BY <1>1, <1>4, <2>1, Zenon DEF CommandAgent, IInv, TypeOK, IndexSound, Handle, Handled, Senders
<1>5. ASSUME NEW n \in Names, CommandTunnel(n)
      PROVE  IInv' /\ UNCHANGED <<tunnels, byPort, byDomain>>
  <2>1. cmds' \subseteq Command
    BY <1>1, <1>5 DEF CommandTunnel, Command, TypeOK, IsMap, Tunnel, ActiveNames, Handle
  <2> QED BY <1>1, <1>5, <2>1, Zenon DEF CommandTunnel, IInv, TypeOK, IndexSound, Handle, Handled, Senders
<1> QED
  BY <1>2, <1>3, <1>4, <1>5

\* The clock keeps the inductive invariant and the index complete.
LEMMA TickStep ==
  ASSUME IInv, Tick
  PROVE  IInv' /\ (Indexed => Indexed')
<1>1. TypeOK /\ IndexSound
  BY DEF IInv
<1>2. IndexSound'
  BY <1>1, TickType DEF IndexSound
<1>3. Indexed => Indexed'
  BY <1>1, TickType, Zenon DEF Indexed
<1> QED
  BY <1>1, <1>2, <1>3, TickType DEF IInv

-------------------------------------------------------------------------------
(* What a step may do to a tunnel it finds.                                *)

\* The four step properties of the runs, proved together, action by action.
Conduct == TokenKept /\ OwnerStops /\ GraceKept /\ TakeoverTells

\* A step that rewrites no record.
LEMMA IdleConduct ==
  ASSUME tunnels' = tunnels
  PROVE  Conduct
BY DEF Conduct, TokenKept, OwnerStops, GraceKept, TakeoverTells, ActiveNames

\* The records after Store.
LEMMA StoreTunnels ==
  ASSUME NEW STATE recs, NEW STATE gone, Store(recs, gone)
  PROVE  /\ DOMAIN tunnels' = (DOMAIN tunnels \cup DOMAIN recs) \ gone
         /\ \A n \in DOMAIN tunnels' :
              tunnels'[n] = IF n \in DOMAIN recs THEN recs[n] ELSE tunnels[n]
<1>1. tunnels' = Without(Over(tunnels, recs), gone)
  BY Zenon DEF Store
<1> QED
  BY <1>1 DEF Without, Over

\* A claim passes only for the token that holds the name.
LEMMA ClaimSameToken ==
  ASSUME NEW s \in Sessions, NEW specs, NEW i, NEW grant, Passes(s, specs, i, grant),
         specs[i].name \in DOMAIN tunnels
  PROVE  tunnels[specs[i].name].token = TokenOf[s]
<1> DEFINE n == specs[i].name
           h == [token |-> tunnels[n].token, agent |-> tunnels[n].agent,
                 connected |-> tunnels[n].state = "ACTIVE", sameSession |-> tunnels[n].session = s]
<1>1. PICK active : Decide(HolderOf(n, s), TokenOf[s], AgentOf[s], active, MaxOf[TokenOf[s]]) \notin Refusals
  BY Zenon DEF Passes
<1>2. h \in HolderOf(n, s)
  BY Zenon DEF HolderOf
<1> QED
  BY <1>1, <1>2 DEF Decide, Refusals

\* A claim gives every name it writes to a session of the same token, parks
\* and drops nothing, and tells every other relay whose tunnel it takes.
LEMMA ClaimConduct ==
  ASSUME IInv, NEW s \in Sessions, NEW specs \in Batches, Claim(s, specs)
  PROVE  Conduct
<1>1. PICK grant \in [DOMAIN specs -> PortOrNone] :
        /\ \A i \in DOMAIN specs : Passes(s, specs, i, grant)
        /\ Store(ClaimRecords(s, specs, grant), {})
  BY DEF Claim
<1> DEFINE recs == ClaimRecords(s, specs, grant)
<1>2. /\ DOMAIN recs = ClaimNames(specs)
      /\ \A n \in DOMAIN recs : \E i \in DOMAIN specs :
           specs[i].name = n /\ recs[n] = ClaimRecord(s, specs[i], grant[i])
  BY Zenon DEF ClaimRecords, ClaimNames
<1>3. /\ DOMAIN tunnels' = DOMAIN tunnels \cup DOMAIN recs
      /\ \A n \in DOMAIN tunnels' : tunnels'[n] = IF n \in DOMAIN recs THEN recs[n] ELSE tunnels[n]
  <2>1. Store(recs, {})
    BY <1>1
  <2> HIDE DEF recs
  <2>2. /\ DOMAIN tunnels' = (DOMAIN tunnels \cup DOMAIN recs) \ {}
        /\ \A n \in DOMAIN tunnels' : tunnels'[n] = IF n \in DOMAIN recs THEN recs[n] ELSE tunnels[n]
    BY <2>1, StoreTunnels, Zenon
  <2> QED BY <2>2
<1>4. \A n \in DOMAIN recs : /\ recs[n].state = "ACTIVE" /\ recs[n].relay = RelayOf[s]
                             /\ recs[n].token = TokenOf[s]
                             /\ n \in DOMAIN tunnels => tunnels[n].token = TokenOf[s]
  <2> HIDE DEF recs
  <2> SUFFICES ASSUME NEW n \in DOMAIN recs
               PROVE  /\ recs[n].state = "ACTIVE" /\ recs[n].relay = RelayOf[s]
                      /\ recs[n].token = TokenOf[s]
                      /\ n \in DOMAIN tunnels => tunnels[n].token = TokenOf[s]
    OBVIOUS
  <2>1. PICK i \in DOMAIN specs : specs[i].name = n /\ recs[n] = ClaimRecord(s, specs[i], grant[i])
    BY <1>2
  <2>2. Passes(s, specs, i, grant)
    BY <1>1, Zenon
  <2>3. n \in DOMAIN tunnels => tunnels[n].token = TokenOf[s]
    BY <2>1, <2>2, ClaimSameToken
  <2> QED
    BY <2>1, <2>3 DEF ClaimRecord
<1> HIDE DEF recs
<1>5. TokenKept
  BY <1>3, <1>4, Zenon DEF TokenKept
<1>6. OwnerStops /\ GraceKept
  BY <1>3, <1>4 DEF OwnerStops, GraceKept, ActiveNames
<1>7. cmds' = TakenOver(s, DOMAIN recs)
  BY <1>2, Zenon DEF Claim, Handle
<1>8. TakeoverTells
  BY <1>3, <1>4, <1>7 DEF TakeoverTells, TakenOver, ActiveNames
<1> QED
  BY <1>5, <1>6, <1>8 DEF Conduct

\* A step that parks records and drops others, for a reason OwnerStops and
\* GraceKept allow.
LEMMA StopConduct ==
  ASSUME IInv, NEW STATE recs, NEW STATE gone,
         DOMAIN recs \subseteq DOMAIN tunnels,
         \A n \in DOMAIN recs : recs[n] = Parked(tunnels[n]),
         Store(recs, gone),
         \A n \in (DOMAIN recs \cup gone) \cap ActiveNames :
           \/ last'.op \in {"park", "release"} /\ last'.by = tunnels[n].session
           \/ last'.op = "sweep" /\ Silent(tunnels[n].relay),
         \A n \in gone \cap DOMAIN tunnels :
           \/ last' = [op |-> "release", by |-> tunnels[n].session]
           \/ tunnels[n].state = "GRACE" /\ tunnels[n].left = 0
  PROVE  Conduct
<1>1. /\ DOMAIN tunnels' = (DOMAIN tunnels \cup DOMAIN recs) \ gone
      /\ \A n \in DOMAIN tunnels' : tunnels'[n] = IF n \in DOMAIN recs THEN recs[n] ELSE tunnels[n]
  BY StoreTunnels, Zenon
<1>2. \A n \in DOMAIN tunnels : tunnels[n] \in Tunnel
  BY DEF IInv, TypeOK, IsMap
<1>3. ASSUME NEW n \in DOMAIN recs
      PROVE  recs[n].token = tunnels[n].token /\ recs[n].relay = tunnels[n].relay
  <2>1. recs[n] = Parked(tunnels[n]) /\ tunnels[n] \in Tunnel
    BY <1>2, Zenon
  <2> QED BY <2>1, Zenon DEF Parked, Tunnel
<1>5. TokenKept /\ TakeoverTells
  BY <1>1, <1>3, Zenon DEF TokenKept, TakeoverTells, ActiveNames
<1>6. OwnerStops
  <2> SUFFICES ASSUME NEW n \in ActiveNames, n \notin ActiveNames'
               PROVE  n \in DOMAIN recs \cup gone
    BY DEF OwnerStops
  <2> QED BY <1>1, Zenon DEF ActiveNames
<1>7. GraceKept
  <2> SUFFICES ASSUME NEW n \in DOMAIN tunnels, n \notin DOMAIN tunnels', tunnels[n].left > 0
               PROVE  last' = [op |-> "release", by |-> tunnels[n].session]
    BY Zenon DEF GraceKept
  <2>1. n \in gone
    BY <1>1
  <2>2. ~(tunnels[n].left = 0)
    <3>1. ASSUME tunnels[n].left = 0
          PROVE  FALSE
      <4>1. 0 > 0
        BY <3>1, Zenon
      <4> QED BY <4>1
    <3> QED BY <3>1
  <2> QED BY <2>1, <2>2, Zenon
<1> QED
  BY <1>5, <1>6, <1>7, Zenon DEF Conduct

\* Only the session that has a name can park it.
LEMMA ParkConduct ==
  ASSUME IInv, NEW s \in Sessions, NEW names \in SUBSET Names, Park(s, names)
  PROVE  Conduct
<1>1. /\ OwnNames(s, names) \subseteq DOMAIN tunnels
      /\ \A n \in OwnNames(s, names) : tunnels[n].session = s
  BY DEF OwnNames
<1> DEFINE recs == [n \in OwnNames(s, names) |-> Parked(tunnels[n])]
<1>2. last' = [op |-> "park", by |-> s] /\ Store(recs, {})
  BY DEF Park, Handle
<1>3. DOMAIN recs = OwnNames(s, names) /\ \A n \in DOMAIN recs : recs[n] = Parked(tunnels[n])
  OBVIOUS
<1> HIDE DEF recs
<1> QED
  BY <1>1, <1>2, <1>3, StopConduct

\* Only the session that has a name can release it.
LEMMA ReleaseConduct ==
  ASSUME IInv, NEW s \in Sessions, NEW names \in SUBSET Names, Release(s, names)
  PROVE  Conduct
<1>1. \A n \in OwnNames(s, names) : tunnels[n].session = s
  BY DEF OwnNames
<1>2. last' = [op |-> "release", by |-> s] /\ Store(None, OwnNames(s, names))
  BY DEF Release, Handle
<1>3. DOMAIN None = {}
  BY DEF None
<1> QED
  BY <1>1, <1>2, <1>3, StopConduct, Zenon

\* A sweep parks what silent relays served, and drops what ran out of grace.
LEMMA SweepConduct ==
  ASSUME IInv, Sweep
  PROVE  Conduct
<1>1. /\ LostTunnels \subseteq ActiveNames
      /\ ActiveNames \subseteq DOMAIN tunnels
      /\ \A n \in LostTunnels : Silent(tunnels[n].relay)
  BY DEF LostTunnels, ActiveNames, Lost, Silent
<1>2. \A n \in ExpiredTunnels : tunnels[n].state = "GRACE" /\ tunnels[n].left = 0 /\ n \notin ActiveNames
  BY DEF ExpiredTunnels, ActiveNames
<1> DEFINE recs == [n \in LostTunnels |-> Parked(tunnels[n])]
<1>3. last'.op = "sweep" /\ Store(recs, ExpiredTunnels)
  BY Zenon DEF Sweep, Handle
<1>4. DOMAIN recs = LostTunnels /\ \A n \in DOMAIN recs : recs[n] = Parked(tunnels[n])
  OBVIOUS
<1> HIDE DEF recs
<1> QED
  BY <1>1, <1>2, <1>3, <1>4, StopConduct, Zenon

\* An announcement stops only the announcing relay's own tunnels.
LEMMA AnnounceConduct ==
  ASSUME IInv, NEW r \in Relays, AnnounceOf(r)
  PROVE  Conduct
<1>1. PICK state \in RelayStates, report \in Reports[r], up \in AgentMaps(r) :
        Announce(r, state, report, up)
  BY DEF AnnounceOf
<1> DEFINE recs == AnnounceRecords(r, report)
<1>2. last' = [op |-> "announce", by |-> r] /\ Store(recs, {})
  BY <1>1, Zenon DEF Announce, Handle
<1>3. \A n \in DOMAIN recs : recs[n].state = "ACTIVE" \/ (n \in ActiveNames => tunnels[n].relay = r)
  BY Zenon DEF AnnounceRecords, ClaimRecord
<1> HIDE DEF recs
<1>4. /\ DOMAIN tunnels' = (DOMAIN tunnels \cup DOMAIN recs) \ {}
      /\ \A n \in DOMAIN tunnels' : tunnels'[n] = IF n \in DOMAIN recs THEN recs[n] ELSE tunnels[n]
  BY <1>2, StoreTunnels, Zenon
<1>5. OwnerStops
  BY <1>2, <1>3, <1>4 DEF OwnerStops, ActiveNames
<1> QED
  BY <1>2, <1>4, <1>5, Zenon DEF Conduct, TokenKept, GraceKept, TakeoverTells

\* A heartbeat writes back the records it found.
LEMMA HeartbeatConduct ==
  ASSUME IInv, NEW r \in Relays, HeartbeatOf(r)
  PROVE  Conduct
<1>1. PICK state \in RelayStates, changed \in SUBSET Names, up \in SUBSET SessionsOf(r) :
        Heartbeat(r, state, changed, up)
  BY DEF HeartbeatOf
<1> DEFINE own == {n \in changed \cap ActiveNames : tunnels[n].relay = r}
           recs == [n \in own |-> tunnels[n]]
<1>2. Store(recs, {})
  BY <1>1 DEF Heartbeat
<1>3. DOMAIN recs \subseteq DOMAIN tunnels /\ \A n \in DOMAIN recs : recs[n] = tunnels[n]
  BY DEF ActiveNames
<1> HIDE DEF recs
<1>4. /\ DOMAIN tunnels' = (DOMAIN tunnels \cup DOMAIN recs) \ {}
      /\ \A n \in DOMAIN tunnels' : tunnels'[n] = IF n \in DOMAIN recs THEN recs[n] ELSE tunnels[n]
  BY <1>2, StoreTunnels, Zenon
<1>5. DOMAIN tunnels' = DOMAIN tunnels /\ \A n \in DOMAIN tunnels : tunnels'[n] = tunnels[n]
  BY <1>3, <1>4
<1> QED
  BY <1>5, Zenon DEF Conduct, TokenKept, OwnerStops, GraceKept, TakeoverTells, ActiveNames

\* The clock changes only the grace left.
LEMMA TickConduct ==
  ASSUME IInv, Tick
  PROVE  Conduct
<1>1. \A n \in DOMAIN tunnels : tunnels[n] \in Tunnel
  BY DEF IInv, TypeOK, IsMap
<1>2. /\ DOMAIN tunnels' = DOMAIN tunnels
      /\ \A n \in DOMAIN tunnels : /\ tunnels'[n].state = tunnels[n].state
                                   /\ tunnels'[n].token = tunnels[n].token
                                   /\ tunnels'[n].relay = tunnels[n].relay
  BY <1>1, Zenon DEF Tick, Tunnel
<1> QED
  BY <1>2, Zenon DEF Conduct, TokenKept, OwnerStops, GraceKept, TakeoverTells, ActiveNames

\* Every step conducts itself.
LEMMA NextConduct ==
  ASSUME IInv, [Next]_vars
  PROVE  Conduct
<1>1. CASE \E s \in Sessions, specs \in Batches : Claim(s, specs)
  BY <1>1, ClaimConduct
<1>2. CASE \E s \in Sessions, names \in SUBSET Names : Park(s, names) \/ Release(s, names)
  BY <1>2, ParkConduct, ReleaseConduct
<1>3. CASE \E r \in Relays : AnnounceOf(r) \/ HeartbeatOf(r)
  BY <1>3, AnnounceConduct, HeartbeatConduct
<1>4. CASE Sweep \/ Tick
  BY <1>4, SweepConduct, TickConduct
<1>5. CASE UNCHANGED tunnels
  BY <1>5, IdleConduct, Zenon
<1> QED
  BY <1>1, <1>2, <1>3, <1>4, <1>5, Zenon
  DEF Next, AgentUp, AgentDown, CommandRelay, CommandReannounce, CommandAgent, CommandTunnel,
      Refresh, vars

-------------------------------------------------------------------------------
(* The theorems.                                                           *)

\* Every step keeps the invariant, and every step but an announcement keeps
\* the index complete.
LEMMA NextStep ==
  ASSUME IInv, [Next]_vars
  PROVE  IInv' /\ (Indexed => Indexed' \/ last'.op = "announce")
<1>1. CASE \E s \in Sessions, specs \in Batches : Claim(s, specs)
  BY <1>1, ClaimStep
<1>2. CASE \E s \in Sessions, names \in SUBSET Names : Park(s, names)
  BY <1>2, ParkStep
<1>3. CASE \E s \in Sessions, names \in SUBSET Names : Release(s, names)
  BY <1>3, ReleaseStep
<1>4. CASE \E r \in Relays : AnnounceOf(r)
  BY <1>4, AnnounceStep
<1>5. CASE \E r \in Relays : HeartbeatOf(r)
  BY <1>5, HeartbeatStep
<1>6. CASE \E s \in AgentReports : AgentUp(s)
  BY <1>6, AgentUpStep, Zenon DEF AgentUp, Indexed
<1>7. CASE \E s \in AgentReports, denied \in BOOLEAN : AgentDown(s, denied)
  BY <1>7, AgentDownStep, Zenon DEF AgentDown, Indexed
<1>8. CASE Sweep
  BY <1>8, SweepStep
<1>9. CASE \/ \E r \in Relays, kind \in {"DRAIN", "RESUME"} \cap Orders : CommandRelay(r, kind)
           \/ \E r \in Relays : CommandReannounce(r)
           \/ \E a \in Agents : CommandAgent(a)
           \/ \E n \in Names : CommandTunnel(n)
  BY <1>9, CommandStep, Zenon DEF Indexed
<1>10. CASE Tick
  BY <1>10, TickStep
<1>11. CASE Refresh
  BY <1>11, Zenon DEF Refresh, IInv, TypeOK, IndexSound, Indexed, Handle, Handled, Senders
<1>12. CASE UNCHANGED vars
  BY <1>12, Zenon DEF vars, IInv, TypeOK, IndexSound, Indexed
<1> QED
  BY <1>1, <1>2, <1>3, <1>4, <1>5, <1>6, <1>7, <1>8, <1>9, <1>10, <1>11, <1>12 DEF Next

\* Spec never leaves the inductive invariant.
LEMMA Inductive == Spec => []IInv
BY InitIInv, NextStep, PTL DEF Spec

\* The engine's maps are well typed in every state.
THEOREM TypeCorrect == Spec => []TypeOK
<1>1. IInv => TypeOK
  BY DEF IInv
<1> QED
  BY Inductive, <1>1, PTL

\* No index entry outlives its tunnel.
THEOREM IndexNeverStale == Spec => []IndexSound
<1>1. IInv => IndexSound
  BY DEF IInv
<1> QED
  BY Inductive, <1>1, PTL

\* Only an announcement can give two tunnels one port or one domain.
THEOREM ClaimsNeverCollide == Spec => OnlyAnnounceCollides
<1>1. IInv /\ [Next]_vars => [Indexed => Indexed' \/ last'.op = "announce"]_vars
  BY NextStep
<1> QED
  BY Inductive, <1>1, PTL DEF Spec, OnlyAnnounceCollides

\* A held name never passes to another token, except by an announcement.
THEOREM NameKeepsToken == Spec => OnlyAnnounceChangesToken
<1>1. IInv /\ [Next]_vars => [TokenKept]_vars
  BY NextConduct DEF Conduct
<1> QED
  BY Inductive, <1>1, PTL DEF Spec, OnlyAnnounceChangesToken

\* A served tunnel stops only through its own session or its own relay.
THEOREM ServedUntilOwnerStops == Spec => OwnersOnlyStop
<1>1. IInv /\ [Next]_vars => [OwnerStops]_vars
  BY NextConduct DEF Conduct
<1> QED
  BY Inductive, <1>1, PTL DEF Spec, OwnersOnlyStop

\* A parked name is kept for its whole grace period.
THEOREM GraceIsHonoured == Spec => GraceHonoured
<1>1. IInv /\ [Next]_vars => [GraceKept]_vars
  BY NextConduct DEF Conduct
<1> QED
  BY Inductive, <1>1, PTL DEF Spec, GraceHonoured

\* A relay that loses a served tunnel to a claim is told.
THEOREM TakeoverIsTold == Spec => TakeoverTold
<1>1. IInv /\ [Next]_vars => [TakeoverTells]_vars
  BY NextConduct DEF Conduct
<1> QED
  BY Inductive, <1>1, PTL DEF Spec, TakeoverTold

-------------------------------------------------------------------------------
(* Agents and lost relays.                                                 *)

\* A connected agent is marked down only by its own session or its own relay's
\* silence.
LEMMA AgentConduct ==
  ASSUME IInv, [Next]_vars, NEW a \in OnlineAgents, a \notin OnlineAgents'
  PROVE  \/ last' = [op |-> "agentDown", by |-> agents[a].session]
         \/ last'.op = "sweep" /\ Silent(agents[a].relay)
<1>1. /\ a \in DOMAIN agents /\ agents[a].state = "ONLINE"
      /\ \A b \in DOMAIN agents : agents[b] \in Agent
  BY DEF OnlineAgents, IInv, TypeOK, IsMap
<1>2. ~(a \in DOMAIN agents' /\ agents'[a].state = "ONLINE")
  BY DEF OnlineAgents
<1>3. CASE \E r \in Relays : AnnounceOf(r)
  <2>1. PICK r, up :
          agents' = Over(agents, [b \in DOMAIN up |->
                                    [relay |-> r, session |-> up[b], state |-> "ONLINE",
                                     left |-> 0, age |-> MaxAge]])
    BY <1>3, Zenon DEF AnnounceOf, Announce
  <2> QED BY <1>1, <1>2, <2>1, Zenon DEF Over
<1>4. CASE \E r \in Relays : HeartbeatOf(r)
  <2>1. PICK seen \in SUBSET DOMAIN agents :
          agents' = Over(agents, [b \in seen |-> [agents[b] EXCEPT !.age = 0]])
    BY <1>4, Zenon DEF HeartbeatOf, Heartbeat
  <2>2. [agents[a] EXCEPT !.age = 0].state = "ONLINE"
    BY <1>1 DEF Agent
  <2> QED BY <1>1, <1>2, <2>1, <2>2 DEF Over
<1>5. CASE \E s \in AgentReports : AgentUp(s)
  <2>1. PICK s \in AgentReports :
          agents' = Over(agents, [b \in {AgentOf[s]} |->
                                    [relay |-> RelayOf[s], session |-> s, state |-> "ONLINE",
                                     left |-> 0, age |-> 0]])
    BY <1>5, Zenon DEF AgentUp
  <2> QED BY <1>1, <1>2, <2>1, Zenon DEF Over
<1>6. CASE \E s \in AgentReports, denied \in BOOLEAN : AgentDown(s, denied)
  <2>1. PICK s \in AgentReports, denied \in BOOLEAN : AgentDown(s, denied)
    BY <1>6, Zenon
  <2>2. a = AgentOf[s]
    BY <1>1, <1>2, <2>1, Zenon DEF AgentDown
  <2> QED BY <2>1, <2>2, Zenon DEF AgentDown, Handle
<1>7. CASE Sweep
  <2>1. a \notin OldAgents /\ a \notin ExpiredAgents
    BY <1>1 DEF OldAgents, ExpiredAgents
  <2>2. a \in LostAgents
    BY <1>1, <1>2, <1>7, <2>1, Zenon DEF Sweep
  <2>3. Silent(agents[a].relay)
    BY <2>2 DEF LostAgents, Lost, Silent
  <2> QED BY <1>7, <2>3, Zenon DEF Sweep, Handle
<1>8. CASE Tick
  <2>1. /\ DOMAIN agents' = DOMAIN agents
        /\ agents'[a] = [agents[a] EXCEPT !.left = Less(@), !.age = Older(@)]
    BY <1>1, <1>8, Zenon DEF Tick
  <2>2. agents'[a].state = agents[a].state
    BY <1>1, <2>1, Zenon DEF Agent
  <2> QED BY <1>1, <1>2, <2>1, <2>2
<1>9. CASE UNCHANGED agents
  BY <1>1, <1>2, <1>9
<1> QED
  BY <1>3, <1>4, <1>5, <1>6, <1>7, <1>8, <1>9, Zenon
  DEF Next, Claim, Park, Release, CommandRelay, CommandReannounce, CommandAgent, CommandTunnel,
      Refresh, vars

\* Only a sweep marks a relay lost.
LEMMA LostConduct ==
  ASSUME IInv, [Next]_vars, NEW r \in DOMAIN relays \cap DOMAIN relays',
         relays[r].state # "DOWN", relays'[r].state = "DOWN"
  PROVE  Sweep /\ r \in Lost
<1>1. \A q \in DOMAIN relays : relays[q] \in Relay
  BY Zenon DEF IInv, TypeOK, IsMap
<1>2. ASSUME NEW q, NEW state \in RelayStates, relays' = Touched(q, state) PROVE FALSE
  <2>1. state # "DOWN"
    BY EngineConstants, Zenon
  <2> QED BY <1>2, <2>1 DEF Touched, Over
<1>3. CASE \E q \in Relays : AnnounceOf(q) \/ HeartbeatOf(q)
  BY <1>2, <1>3, Zenon DEF AnnounceOf, Announce, HeartbeatOf, Heartbeat
<1>4. CASE Sweep
  BY <1>4, Zenon DEF Sweep
<1>5. CASE \E q \in Relays, kind \in {"DRAIN", "RESUME"} \cap Orders : CommandRelay(q, kind)
  <2>1. PICK q \in Relays, kind \in {"DRAIN", "RESUME"} : CommandRelay(q, kind)
    BY <1>5
  <2>2. CASE q = r
    <3>1. relays'[r].state = IF kind = "DRAIN" THEN "DRAINING" ELSE "READY"
      BY <1>1, <2>1, <2>2 DEF CommandRelay, Relay
    <3> QED BY <3>1
  <2>3. CASE q # r
    BY <2>1, <2>3 DEF CommandRelay
  <2> QED BY <2>2, <2>3, Zenon
<1>6. CASE Tick
  <2>1. relays'[r] = [relays[r] EXCEPT !.age = Older(@)]
    BY <1>6, Zenon DEF Tick
  <2> QED BY <1>1, <2>1 DEF Relay
<1>7. CASE UNCHANGED relays
  BY <1>7
<1> QED
  BY <1>3, <1>4, <1>5, <1>6, <1>7, Zenon
  DEF Next, Claim, Park, Release, AgentUp, AgentDown, CommandReannounce, CommandAgent,
      CommandTunnel, Refresh, vars

\* A sweep leaves a lost relay nothing.
LEMMA SweepClears ==
  ASSUME IInv, Sweep, NEW r \in Lost
  PROVE  /\ \A n \in ActiveNames' : tunnels'[n].relay # r
         /\ \A a \in OnlineAgents' : agents'[a].relay # r
<1> DEFINE recs == [n \in LostTunnels |-> Parked(tunnels[n])]
<1>1. Store(recs, ExpiredTunnels) /\ DOMAIN recs = LostTunnels
  BY Zenon DEF Sweep
<1>2. \A n \in LostTunnels : recs[n].state = "GRACE"
  BY Zenon DEF Parked, LostTunnels, ActiveNames, IInv, TypeOK, IsMap, Tunnel
<1> HIDE DEF recs
<1>3. /\ DOMAIN tunnels' = (DOMAIN tunnels \cup DOMAIN recs) \ ExpiredTunnels
      /\ \A n \in DOMAIN tunnels' : tunnels'[n] = IF n \in DOMAIN recs THEN recs[n] ELSE tunnels[n]
  BY <1>1, StoreTunnels, Zenon
<1>4. ASSUME NEW n \in ActiveNames' PROVE tunnels'[n].relay # r
  <2>1. n \notin LostTunnels /\ n \in ActiveNames /\ tunnels'[n] = tunnels[n]
    BY <1>1, <1>2, <1>3 DEF ActiveNames
  <2> QED BY <2>1 DEF LostTunnels
<1>5. ASSUME NEW a \in OnlineAgents' PROVE agents'[a].relay # r
  <2>1. a \in DOMAIN agents \ OldAgents /\ agents[a] \in Agent /\ agents'[a].state = "ONLINE"
    BY Zenon DEF OnlineAgents, Sweep, IInv, TypeOK, IsMap
  <2>2. a \notin LostAgents
    <3>1. Down(agents[a], FALSE).state = "GRACE"
      BY <2>1 DEF Down, Agent
    <3> QED BY <2>1, <3>1, Zenon DEF Sweep
  <2>3. a \notin ExpiredAgents
    <3>1. [agents[a] EXCEPT !.state = "OFFLINE", !.left = 0].state = "OFFLINE"
      BY <2>1 DEF Agent
    <3> QED BY <2>1, <2>2, <3>1, Zenon DEF Sweep
  <2>4. agents'[a] = agents[a]
    BY <2>1, <2>2, <2>3, Zenon DEF Sweep
  <2> QED BY <2>1, <2>2, <2>4 DEF LostAgents
<1> QED BY <1>4, <1>5

\* A connected agent is marked down only by the end of its own session or by its
\* own relay's silence (agentDown's check of the session, lostRelay).
THEOREM AgentsUntilOwnerStops == Spec => AgentOwnersOnlyStop
<1>1. IInv /\ [Next]_vars =>
        [\A a \in OnlineAgents :
           LET rec == agents[a] IN
           a \notin OnlineAgents' =>
             \/ last' = [op |-> "agentDown", by |-> rec.session]
             \/ last'.op = "sweep" /\ Silent(rec.relay)
             \/ last'.op = "start"]_vars
  BY AgentConduct
<1> QED
  BY Inductive, <1>1, PTL DEF Spec, AgentOwnersOnlyStop

\* The step that marks a relay lost leaves it no served tunnel and no connected
\* agent (lostRelay).
THEOREM LostRelayIsCleared == Spec => LostRelayClears
<1>1. IInv /\ [Next]_vars =>
        [\A r \in DOMAIN relays \cap DOMAIN relays' :
           relays[r].state # "DOWN" /\ relays'[r].state = "DOWN" =>
             /\ \A n \in ActiveNames' : tunnels'[n].relay # r
             /\ \A a \in OnlineAgents' : agents'[a].relay # r]_vars
  BY LostConduct, SweepClears
<1> QED
  BY Inductive, <1>1, PTL DEF Spec, LostRelayClears

-------------------------------------------------------------------------------
(* The cap of a token: no claim takes a token over it.                     *)

\* The engine holds finitely many tunnels, so they can be counted.
FewTunnels == IsFiniteSet(DOMAIN tunnels)

\* The names of the first k tunnels of a request.
NamesTo(specs, k) == {specs[i].name : i \in 1..k}

LEMMA NamesGrow ==
  ASSUME NEW specs, NEW k \in Nat \ {0}
  PROVE  k - 1 \in Nat /\ NamesTo(specs, k) = NamesTo(specs, k - 1) \cup {specs[k].name}
<1>1. k - 1 \in Nat /\ 1..k = (1..(k - 1)) \cup {k}
  OBVIOUS
<1> QED BY <1>1, Zenon DEF NamesTo

\* The arithmetic of the cap.
LEMMA LessNothing == \A a, b \in Nat : a + b - 0 = a + b
  OBVIOUS

LEMMA RoomForOne ==
  ASSUME NEW a \in Nat, NEW b \in Nat, NEW m \in Nat, m > 0, ~(m > 0 /\ a + b >= m)
  PROVE  a + b + 1 <= m
  OBVIOUS

\* A request that is not refused leaves the token below its cap.
LEMMA AcceptedFits ==
  ASSUME NEW holder, NEW token, NEW agent, NEW active, NEW max,
         Decide(holder, token, agent, active, max) \notin Refusals
  PROVE  ~(max > 0 /\ active >= max)
  BY Zenon DEF Decide, Refusals

\* No tunnel starts to be served.
NoneStarts ==
  \A n \in ActiveNames' : n \in ActiveNames /\ tunnels'[n].token = tunnels[n].token

\* Rewriting records that were there, none of them served that was not.
LEMMA StoreStartsNone ==
  ASSUME NEW STATE recs, NEW STATE gone, Store(recs, gone), DOMAIN recs \subseteq DOMAIN tunnels,
         \A n \in DOMAIN recs : \/ recs[n].state # "ACTIVE"
                                \/ recs[n] = tunnels[n]
  PROVE  NoneStarts /\ DOMAIN tunnels' \subseteq DOMAIN tunnels
<1>1. /\ DOMAIN tunnels' = (DOMAIN tunnels \cup DOMAIN recs) \ gone
      /\ \A n \in DOMAIN tunnels' : tunnels'[n] = IF n \in DOMAIN recs THEN recs[n] ELSE tunnels[n]
  BY StoreTunnels, Zenon
<1> QED BY <1>1 DEF NoneStarts, ActiveNames

\* Only claims and announcements start one.
LEMMA StartsNone ==
  ASSUME IInv, [Next]_vars, ~\E s \in Sessions, specs \in Batches : Claim(s, specs),
         ~\E r \in Relays : AnnounceOf(r)
  PROVE  NoneStarts /\ DOMAIN tunnels' \subseteq DOMAIN tunnels
<1>0. \A n \in DOMAIN tunnels : tunnels[n] \in Tunnel
  BY DEF IInv, TypeOK, IsMap
<1>1. \A t \in Tunnel : Parked(t).state = "GRACE"
  BY DEF Parked, Tunnel
<1>2. ASSUME NEW s \in Sessions, NEW names \in SUBSET Names, Park(s, names)
      PROVE  NoneStarts /\ DOMAIN tunnels' \subseteq DOMAIN tunnels
  <2> DEFINE recs == [n \in OwnNames(s, names) |-> Parked(tunnels[n])]
  <2>1. DOMAIN recs \subseteq DOMAIN tunnels /\ \A n \in DOMAIN recs : recs[n].state # "ACTIVE"
    BY <1>0, <1>1 DEF OwnNames
  <2>2. Store(recs, {})
    BY <1>2, Zenon DEF Park
  <2> HIDE DEF recs
  <2> QED BY <2>1, <2>2, StoreStartsNone, Zenon
<1>3. ASSUME NEW s \in Sessions, NEW names \in SUBSET Names, Release(s, names)
      PROVE  NoneStarts /\ DOMAIN tunnels' \subseteq DOMAIN tunnels
  <2>1. Store(None, OwnNames(s, names)) /\ DOMAIN None = {}
    BY <1>3 DEF Release, None
  <2> QED BY <2>1, StoreStartsNone
<1>4. ASSUME NEW r \in Relays, HeartbeatOf(r)
      PROVE  NoneStarts /\ DOMAIN tunnels' \subseteq DOMAIN tunnels
  <2>1. PICK changed \in SUBSET Names :
          Store([n \in {m \in changed \cap ActiveNames : tunnels[m].relay = r} |-> tunnels[n]], {})
    BY <1>4, Zenon DEF HeartbeatOf, Heartbeat
  <2> DEFINE recs == [n \in {m \in changed \cap ActiveNames : tunnels[m].relay = r} |-> tunnels[n]]
  <2>2. DOMAIN recs \subseteq DOMAIN tunnels /\ \A n \in DOMAIN recs : recs[n] = tunnels[n]
    BY DEF ActiveNames
  <2>3. Store(recs, {})
    BY <2>1
  <2> HIDE DEF recs
  <2> QED BY <2>2, <2>3, StoreStartsNone
<1>5. CASE Sweep
  <2> DEFINE recs == [n \in LostTunnels |-> Parked(tunnels[n])]
  <2>1. DOMAIN recs \subseteq DOMAIN tunnels /\ \A n \in DOMAIN recs : recs[n].state # "ACTIVE"
    BY <1>0, <1>1, Zenon DEF LostTunnels, ActiveNames
  <2>2. Store(recs, ExpiredTunnels)
    BY <1>5, Zenon DEF Sweep
  <2> HIDE DEF recs
  <2> QED BY <2>1, <2>2, StoreStartsNone, Zenon
<1>6. CASE Tick
  <2>1. /\ DOMAIN tunnels' = DOMAIN tunnels
        /\ \A n \in DOMAIN tunnels :
             tunnels'[n].state = tunnels[n].state /\ tunnels'[n].token = tunnels[n].token
    BY <1>0, <1>6, Zenon DEF Tick, Tunnel
  <2> QED BY <2>1 DEF NoneStarts, ActiveNames
<1>7. CASE UNCHANGED tunnels
  BY <1>7 DEF NoneStarts, ActiveNames
<1> QED
  BY <1>2, <1>3, <1>4, <1>5, <1>6, <1>7, Zenon
  DEF Next, AgentUp, AgentDown, CommandRelay, CommandReannounce, CommandAgent, CommandTunnel,
      Refresh, vars

LEMMA ClaimedNames ==
  ASSUME NEW s, NEW specs \in Batches, NEW grant
  PROVE  Len(specs) \in Nat /\ DOMAIN ClaimRecords(s, specs, grant) = NamesTo(specs, Len(specs))
<1>1. specs \in Seq(TunnelSpec)
  BY EngineConstants
<1>2. Len(specs) \in Nat /\ DOMAIN specs = 1..Len(specs)
  BY <1>1
<1>3. DOMAIN ClaimRecords(s, specs, grant) = ClaimNames(specs)
  BY DEF ClaimRecords
<1>4. ClaimNames(specs) = NamesTo(specs, Len(specs))
  BY <1>2, Zenon DEF ClaimNames, NamesTo
<1> QED BY <1>2, <1>3, <1>4, Zenon

LEMMA AnnounceIsLast ==
  ASSUME NEW r \in Relays, AnnounceOf(r)
  PROVE  last'.op = "announce"
<1>1. last' = [op |-> "announce", by |-> r]
  BY Zenon DEF AnnounceOf, Announce, Handle
<1> QED BY <1>1

\* What a claim does to the tunnels its token and others have served.
LEMMA ClaimStarts ==
  ASSUME IInv, NEW s \in Sessions, NEW specs \in Batches, Claim(s, specs)
  PROVE  /\ {n \in ActiveNames : tunnels[n].token = TokenOf[s]}'
              \subseteq {n \in ActiveNames : tunnels[n].token = TokenOf[s]} \cup NamesTo(specs, Len(specs))
         /\ \A t \in Tokens \ {TokenOf[s]} :
              {n \in ActiveNames : tunnels[n].token = t}' \subseteq {n \in ActiveNames : tunnels[n].token = t}
<1>1. PICK grant \in [DOMAIN specs -> PortOrNone] : Store(ClaimRecords(s, specs, grant), {})
  BY DEF Claim
<1> DEFINE recs == ClaimRecords(s, specs, grant)
<1>2. DOMAIN recs = NamesTo(specs, Len(specs))
  BY ClaimedNames
<1>3. \A n \in DOMAIN recs : recs[n].token = TokenOf[s]
  BY Zenon DEF ClaimRecords, ClaimRecord
<1>4. Store(recs, {})
  BY <1>1
<1> HIDE DEF recs
<1>5. /\ DOMAIN tunnels' = (DOMAIN tunnels \cup DOMAIN recs) \ {}
      /\ \A n \in DOMAIN tunnels' : tunnels'[n] = IF n \in DOMAIN recs THEN recs[n] ELSE tunnels[n]
  BY <1>4, StoreTunnels, Zenon
<1> QED BY <1>2, <1>3, <1>5, Zenon DEF ActiveNames

INSTANCE FiniteSetTheorems

LEMMA FiniteNames ==
  ASSUME NEW specs, NEW k \in Nat
  PROVE  IsFiniteSet(NamesTo(specs, k))
<1> DEFINE f == [i \in 1..k |-> specs[i].name]
<1>1. f \in Surjection(1..k, NamesTo(specs, k))
  BY DEF Surjection, NamesTo
<1>2. IsFiniteSet(1..k)
  BY FS_Interval
<1> QED BY <1>1, <1>2, FS_Surjection, Zenon

\* The last tunnel of a request that passes: with it, the token's tunnels stay
\* within the cap.
LEMMA LastPasses ==
  ASSUME IInv, FewTunnels, NEW s \in Sessions, NEW specs \in Seq(TunnelSpec), specs # << >>,
         NEW grant, Passes(s, specs, Len(specs), grant), MaxOf[TokenOf[s]] > 0
  PROVE  Cardinality({n \in ActiveNames : tunnels[n].token = TokenOf[s]}
                       \cup NamesTo(specs, Len(specs))) <= MaxOf[TokenOf[s]]
<1> DEFINE k == Len(specs)
           t == TokenOf[s]
           name == specs[k].name
           staged == NamesTo(specs, k - 1)
           others == {n \in ActiveNames : tunnels[n].token = t /\ n # name /\ n \notin staged}
<1>1. k \in Nat \ {0} /\ MaxOf[t] \in Nat
  BY EngineConstants
<1>2. k - 1 \in Nat /\ NamesTo(specs, k) = staged \cup {name}
  BY <1>1, NamesGrow, Zenon
<1>3. /\ name \notin staged
      /\ Decide(HolderOf(name, s), t, AgentOf[s], Active(t, name, staged), MaxOf[t]) \notin Refusals
  BY Zenon DEF Passes, NamesTo
<1>4. Active(t, name, staged) = Cardinality(others) + Cardinality(staged)
  BY Zenon DEF Active
<1>5. IsFiniteSet(staged) /\ IsFiniteSet(others)
  <2>1. others \in SUBSET DOMAIN tunnels
    BY Zenon DEF ActiveNames
  <2> QED BY <1>2, <2>1, FiniteNames, FS_Subset, Zenon DEF FewTunnels
<1>6. {n \in ActiveNames : tunnels[n].token = t} \cup NamesTo(specs, k) = (others \cup staged) \cup {name}
  BY <1>2, Zenon
<1>7. name \notin others \cup staged /\ others \cap staged = {}
  BY <1>3, Zenon
<1> HIDE DEF others, staged, name, t, k
<1>8. Cardinality(others) \in Nat /\ Cardinality(staged) \in Nat
  BY <1>5, FS_CardinalityType, Zenon
<1>9. Cardinality(others) + Cardinality(staged) + 1 <= MaxOf[t]
  <2>1. ~(MaxOf[t] > 0 /\ Cardinality(others) + Cardinality(staged) >= MaxOf[t])
    BY <1>3, <1>4, AcceptedFits, Zenon
  <2> QED BY <1>1, <1>8, <2>1, RoomForOne, Zenon DEF t
<1>10. /\ IsFiniteSet(others \cup staged)
       /\ Cardinality(others \cup staged) = Cardinality(others) + Cardinality(staged)
  <2>1. /\ IsFiniteSet(others \cup staged)
        /\ Cardinality(others \cup staged) =
             Cardinality(others) + Cardinality(staged) - Cardinality(others \cap staged)
    BY <1>5, FS_Union, Zenon
  <2>2. Cardinality(others \cap staged) = 0
    BY <1>7, FS_EmptySet, Zenon
  <2> QED BY <1>8, <2>1, <2>2, LessNothing, Zenon
<1>11. Cardinality((others \cup staged) \cup {name}) = Cardinality(others) + Cardinality(staged) + 1
  BY <1>7, <1>10, FS_AddElement, Zenon
<1> QED BY <1>6, <1>9, <1>11, Zenon DEF k, t

LEMMA FewTunnelsStep ==
  ASSUME IInv, FewTunnels, [Next]_vars
  PROVE  FewTunnels'
<1>1. ASSUME NEW STATE recs, IsFiniteSet(DOMAIN recs), Store(recs, {})
      PROVE  FewTunnels'
  <2>1. DOMAIN tunnels' = (DOMAIN tunnels \cup DOMAIN recs) \ {}
    BY <1>1, StoreTunnels, Zenon
  <2>2. DOMAIN tunnels' = DOMAIN tunnels \cup DOMAIN recs
    BY <2>1
  <2> QED BY <1>1, <2>2, FS_Union, Zenon DEF FewTunnels
<1>2. ASSUME NEW s \in Sessions, NEW specs \in Batches, Claim(s, specs)
      PROVE  FewTunnels'
  <2>1. PICK grant \in [DOMAIN specs -> PortOrNone] : Store(ClaimRecords(s, specs, grant), {})
    BY <1>2 DEF Claim
  <2>2. DOMAIN ClaimRecords(s, specs, grant) = NamesTo(specs, Len(specs)) /\ Len(specs) \in Nat
    BY ClaimedNames
  <2>3. IsFiniteSet(DOMAIN ClaimRecords(s, specs, grant))
    BY <2>2, FiniteNames, Zenon
  <2> QED BY <1>1, <2>1, <2>3, Zenon
<1>3. ASSUME NEW r \in Relays, AnnounceOf(r)
      PROVE  FewTunnels'
  <2>1. PICK report \in Reports[r] : Store(AnnounceRecords(r, report), {})
    BY <1>3, Zenon DEF AnnounceOf, Announce
  <2>2. DOMAIN AnnounceRecords(r, report) \in SUBSET (DOMAIN report \cup DOMAIN tunnels)
    BY Zenon DEF AnnounceRecords, ActiveNames
  <2>3. IsFiniteSet(DOMAIN report \cup DOMAIN tunnels)
    BY EngineConstants, FS_Union, Zenon DEF FewTunnels
  <2>4. IsFiniteSet(DOMAIN AnnounceRecords(r, report))
    BY <2>2, <2>3, FS_Subset, Zenon
  <2> QED BY <1>1, <2>1, <2>4
<1>4. CASE DOMAIN tunnels' \subseteq DOMAIN tunnels
  BY <1>4, FS_Subset, Zenon DEF FewTunnels
<1> QED BY <1>2, <1>3, <1>4, StartsNone, Zenon

LEMMA CapStep ==
  ASSUME IInv, FewTunnels, [Next]_vars, NEW t \in Tokens, MaxOf[t] > 0, ActiveOf(t)' > ActiveOf(t)
  PROVE  ActiveOf(t)' <= MaxOf[t] \/ last'.op = "announce"
<1> DEFINE A == {n \in ActiveNames : tunnels[n].token = t}
           B == {n \in ActiveNames' : tunnels'[n].token = t}
<1>0. ActiveOf(t) = Cardinality(A) /\ ActiveOf(t)' = Cardinality(B)
  BY Zenon DEF ActiveOf
<1>1. IsFiniteSet(A)
  <2>1. A \in SUBSET DOMAIN tunnels
    BY DEF ActiveNames
  <2> QED BY <2>1, FS_Subset, Zenon DEF FewTunnels
<1> HIDE DEF A, B
<1>2. ~(B \subseteq A)
  <2> SUFFICES ASSUME B \subseteq A PROVE FALSE
    BY Zenon
  <2>1. Cardinality(B) <= Cardinality(A) /\ Cardinality(A) \in Nat /\ Cardinality(B) \in Nat
    BY <1>1, FS_Subset, FS_CardinalityType, Zenon
  <2> QED BY <1>0, <2>1
<1>3. CASE \E r \in Relays : AnnounceOf(r)
  BY <1>3, AnnounceIsLast, Zenon
<1>4. CASE \E s \in Sessions, specs \in Batches : Claim(s, specs)
  <2>1. PICK s \in Sessions, specs \in Batches : Claim(s, specs)
    BY <1>4
  <2>2. t = TokenOf[s] /\ B \subseteq A \cup NamesTo(specs, Len(specs))
    BY <1>2, <2>1, ClaimStarts, Zenon DEF A, B
  <2>3. PICK grant \in [DOMAIN specs -> PortOrNone] : \A i \in DOMAIN specs : Passes(s, specs, i, grant)
    BY <2>1, Zenon DEF Claim
  <2>4. specs \in Seq(TunnelSpec) /\ specs # << >> /\ Len(specs) \in DOMAIN specs /\ Len(specs) \in Nat
    BY <2>1, EngineConstants DEF Claim
  <2>5. Cardinality(A \cup NamesTo(specs, Len(specs))) <= MaxOf[t]
    <3>1. Passes(s, specs, Len(specs), grant) /\ MaxOf[TokenOf[s]] > 0
      BY <2>2, <2>3, <2>4, Zenon
    <3>2. Cardinality({n \in ActiveNames : tunnels[n].token = TokenOf[s]}
                        \cup NamesTo(specs, Len(specs))) <= MaxOf[TokenOf[s]]
      BY <2>4, <3>1, LastPasses, Zenon
    <3> QED BY <2>2, <3>2, Zenon DEF A
  <2>6. IsFiniteSet(A \cup NamesTo(specs, Len(specs)))
    BY <1>1, <2>4, FiniteNames, FS_Union, Zenon
  <2>7. /\ Cardinality(B) <= Cardinality(A \cup NamesTo(specs, Len(specs))) /\ Cardinality(B) \in Nat
        /\ Cardinality(A \cup NamesTo(specs, Len(specs))) \in Nat
    BY <2>2, <2>6, FS_Subset, FS_CardinalityType, Zenon
  <2>8. MaxOf[t] \in Nat
    BY EngineConstants
  <2> QED BY <1>0, <2>5, <2>7, <2>8
<1>5. CASE NoneStarts
  BY <1>2, <1>5, Zenon DEF NoneStarts, A, B
<1> QED BY <1>3, <1>4, <1>5, StartsNone, Zenon

\* No claim takes a token past its cap, however many tunnels it carries and
\* however many of them the token already had (active's count with staged).
THEOREM CapIsHeld == Spec => CapHolds
<1>1. Init => FewTunnels
  <2> SUFFICES ASSUME Init PROVE FewTunnels
    OBVIOUS
  <2>1. DOMAIN tunnels = {}
    BY DEF Init
  <2> QED BY <2>1, FS_EmptySet DEF FewTunnels
<1>2. IInv /\ FewTunnels /\ [Next]_vars => FewTunnels'
  BY FewTunnelsStep
<1>3. IInv /\ FewTunnels /\ [Next]_vars =>
        [\A t \in Tokens : MaxOf[t] > 0 /\ ActiveOf(t)' > ActiveOf(t) =>
           ActiveOf(t)' <= MaxOf[t] \/ last'.op = "announce"]_vars
  BY CapStep
<1> QED
  BY Inductive, <1>1, <1>2, <1>3, PTL DEF Spec, CapHolds

===============================================================================
