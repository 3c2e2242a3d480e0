----------------------------- MODULE RelayProofs -----------------------------
(***************************************************************************)
(* Theorems about one relay and its agents, for any number of connections, *)
(* requests, tokens, names, restarts, exchanges and viewers: when Close    *)
(* has returned nothing of the server is left (RelayServer); a certificate *)
(* that was issued stays accepted (AgentIdentity); no admin request leaves *)
(* a name behind that has no row in the store (Standalone); and a viewer   *)
(* of the agent's inspector misses no request but at a full channel        *)
(* (Inspector).                                                            *)
(***************************************************************************)
EXTENDS RelayServer, AgentIdentity, Standalone, Inspector, TLAPS

(* The server's life.                                                      *)

Visitor == [kind : Kinds \cup {"none"},
            at : {"none", "serving", "pushing", "handed", "entered", "session", "ending",
                  "joined", "login", "away"},
            of : Visitors \cup {"none"}]

\* What a connection may be while the server is in a phase: only WebSocket agents and
\* HTTP clients are handed over, the latter not to a proxy that is closed, and nothing
\* wg counts is left when it has been waited for.
VisitorOK(v, ph) ==
    /\ v.at \in {"pushing", "handed"} => v.kind \in {"ws", "page"}
    /\ ph \in {"waiting", "returned"} => ~(v.at = "handed" /\ v.kind = "page")
    /\ ph = "returned" => v.at \in {"none", "handed"}

\* The inductive invariant.
ServerInv ==
    /\ visitor \in [Visitors -> Visitor]
    /\ \A c \in Visitors : VisitorOK(visitor[c], phase)
    /\ Closed => listening = {}
    /\ phase = "returned" => parkedBy = {}

LEMMA NoVisitorOK == NoVisitor \in Visitor /\ \A ph : VisitorOK(NoVisitor, ph)
  BY DEF NoVisitor, Visitor, VisitorOK

LEMMA ServerInitInv == ServerInit => ServerInv
  BY NoVisitorOK DEF ServerInit, ServerInv, Closed

\* One connection moves on, in whatever phase the server is.
LEMMA OneVisitor ==
    ASSUME ServerInv, Inside, NEW c \in Visitors, NEW v \in Visitor, VisitorOK(v, phase),
           visitor' = [visitor EXCEPT ![c] = v], phase = "returned" => parkedBy' = {}
    PROVE  ServerInv'
  BY DEF ServerInv, Inside, Closed

\* The common ends of a step: the connection is gone, or at another stage.
LEMMA GoneInv ==
    ASSUME ServerInv, Inside, NEW c \in Visitors, Gone(c), phase = "returned" => parkedBy' = {}
    PROVE  ServerInv'
  BY NoVisitorOK, OneVisitor, Zenon DEF Gone

LEMMA ToInv ==
    ASSUME ServerInv, Inside, NEW c \in Visitors, UNCHANGED parkedBy,
           NEW at \in {"serving", "pushing", "handed", "entered", "session", "ending",
                       "joined", "login", "away"},
           To(c, at), phase # "returned",
           at \in {"pushing", "handed"} => visitor[c].kind \in {"ws", "page"},
           at = "handed" => phase # "waiting"
    PROVE  ServerInv'
<1> DEFINE v == [visitor[c] EXCEPT !.at = at]
<1>1. v \in Visitor /\ v.at = at /\ v.kind = visitor[c].kind
  BY DEF ServerInv, Visitor
<1>2. VisitorOK(v, phase)
  BY <1>1 DEF VisitorOK
<1>3. visitor' = [visitor EXCEPT ![c] = v]
  BY DEF To, ServerInv
<1> QED BY <1>1, <1>2, <1>3, OneVisitor, Zenon DEF ServerInv

\* What a step of a connection knows of it.
LEMMA OneKnown ==
    ASSUME ServerInv, NEW c \in Visitors
    PROVE  /\ visitor[c] \in Visitor /\ VisitorOK(visitor[c], phase)
           /\ phase = "returned" => parkedBy = {}
           /\ visitor[c].at \notin {"none", "handed"} => phase # "returned"
  BY DEF ServerInv, VisitorOK

LEMMA VisitorStep ==
    ASSUME ServerInv, NEW c \in Visitors, ServerStep(c) \/ Leaves(c)
    PROVE  ServerInv'
<1>0. /\ VisitorOK(visitor[c], phase) /\ visitor[c] \in Visitor
      /\ phase = "returned" => parkedBy = {}
      /\ visitor[c].at \notin {"none", "handed"} => phase # "returned"
  BY OneKnown
<1>1. CASE Rejected(c)
  BY <1>0, <1>1, GoneInv DEF Rejected
<1>2. CASE Track(c)
  BY <1>0, <1>2, GoneInv, ToInv DEF Track, Closed
<1>3. CASE Hand(c)
  BY <1>0, <1>3, ToInv DEF Hand
<1>4. CASE Pushed(c)
  BY <1>0, <1>4, GoneInv, ToInv DEF Pushed, VisitorOK
<1>5. CASE Enter(c)
  BY <1>0, <1>5, GoneInv, ToInv DEF Enter, Closed
<1>6. CASE Forward(c)
  BY <1>0, <1>6, ToInv DEF Forward
<1>7. CASE GatewayLogin(c)
  BY <1>0, <1>7, ToInv DEF GatewayLogin
<1>8. CASE StreamEnds(c)
  BY <1>0, <1>8, GoneInv DEF StreamEnds
<1>9. CASE SessionEnds(c)
  BY <1>0, <1>9, GoneInv DEF SessionEnds
<1>10. ASSUME NEW s \in Visitors, Join(c, s)
       PROVE  ServerInv'
  <2> DEFINE v == [visitor[c] EXCEPT !.at = "joined", !.of = s]
  <2>1. v \in Visitor /\ v.at = "joined"
    BY <1>0, Zenon DEF Visitor
  <2>2. VisitorOK(v, phase)
    BY <1>0, <1>10, <2>1 DEF Join, VisitorOK
  <2>3. visitor' = [visitor EXCEPT ![c] = v]
    BY <1>10, Zenon DEF Join, ServerInv
  <2> QED BY <1>0, <1>10, <2>1, <2>2, <2>3, OneVisitor, Zenon DEF Join
<1>11. CASE Leaves(c)
  BY <1>0, <1>11, GoneInv, ToInv DEF Leaves
<1> QED BY <1>1, <1>2, <1>3, <1>4, <1>5, <1>6, <1>7, <1>8, <1>9, <1>10, <1>11 DEF ServerStep

LEMMA ServerNextStep ==
    ASSUME ServerInv, [ServerNext]_serverVars
    PROVE  ServerInv'
<1>1. CASE Start
  BY <1>1 DEF Start, ServerInv, VisitorOK, Closed
<1>2. CASE Opens
  BY <1>2 DEF Opens, ServerInv, VisitorOK, Closed
<1>3. CASE OpenFails
  BY <1>3 DEF OpenFails, ServerInv, VisitorOK, Closed
<1>4. CASE StartDone
  BY <1>4 DEF StartDone, ServerInv, VisitorOK, Closed
<1>5. CASE Close
  <2>1. ASSUME NEW c \in Visitors
        PROVE  visitor'[c] \in Visitor /\ VisitorOK(visitor'[c], "closing")
    <3>1. CASE visitor[c].at = "session"
      <4>1. visitor'[c] = [visitor[c] EXCEPT !.at = "ending"]
        BY <1>5, <3>1 DEF Close
      <4> QED BY <4>1 DEF ServerInv, Visitor, VisitorOK
    <3>2. CASE visitor[c].at = "login"
      <4>1. visitor'[c] = NoVisitor
        BY <1>5, <3>2 DEF Close
      <4> QED BY <4>1, NoVisitorOK
    <3>3. CASE visitor[c].at \notin {"session", "login"}
      <4>1. visitor'[c] = visitor[c]
        BY <1>5, <3>3 DEF Close
      <4> QED BY <4>1 DEF ServerInv, VisitorOK
    <3> QED BY <3>1, <3>2, <3>3
  <2>2. visitor' \in [Visitors -> Visitor]
    BY <1>5, <2>1 DEF Close
  <2> QED BY <1>5, <2>1, <2>2 DEF Close, ServerInv
<1>6. CASE CloseServers
  <2>1. ASSUME NEW c \in Visitors
        PROVE  visitor'[c] \in Visitor /\ VisitorOK(visitor'[c], "waiting")
    <3>1. CASE visitor[c].at = "handed" /\ visitor[c].kind = "page"
      <4>1. visitor'[c] = NoVisitor
        BY <1>6, <3>1 DEF CloseServers
      <4> QED BY <4>1, NoVisitorOK
    <3>2. CASE ~(visitor[c].at = "handed" /\ visitor[c].kind = "page")
      <4>1. visitor'[c] = visitor[c]
        BY <1>6, <3>2 DEF CloseServers
      <4> QED BY <3>2, <4>1 DEF ServerInv, VisitorOK
    <3> QED BY <3>1, <3>2
  <2>2. visitor' \in [Visitors -> Visitor]
    BY <1>6, <2>1 DEF CloseServers
  <2> QED BY <1>6, <2>1, <2>2 DEF CloseServers, ServerInv, Closed
<1>7. CASE CloseReturns
  <2>1. ASSUME NEW c \in Visitors
        PROVE  VisitorOK(visitor[c], "returned")
    BY <1>7 DEF CloseReturns, Counted, ServerInv, Visitor, VisitorOK
  <2> QED BY <1>7, <2>1 DEF CloseReturns, ServerInv, Closed
<1>8. ASSUME NEW c \in Visitors, NEW k \in Kinds,
             Accept(c, k) \/ AcceptGateway(c)
      PROVE  ServerInv'
  <2>1. PICK v \in Visitor : v.at = "serving" /\ visitor' = [visitor EXCEPT ![c] = v]
    <3>1. "login" \in Kinds
      BY DEF Kinds, Via
    <3> QED BY <1>8, <3>1, Zenon DEF Accept, AcceptGateway, Visitor
  <2>2. Inside /\ UNCHANGED parkedBy /\ listening # {}
    BY <1>8 DEF Accept, AcceptGateway
  <2>3. phase \notin {"waiting", "returned"}
    BY <2>2 DEF ServerInv, Closed
  <2> QED BY <2>1, <2>2, <2>3, OneVisitor, Zenon DEF VisitorOK
<1>9. ASSUME NEW c \in Visitors, ParkExpires(c)
      PROVE  ServerInv'
  BY <1>9 DEF ParkExpires, Inside, ServerInv, Closed
<1>10. CASE UNCHANGED serverVars
  BY <1>10 DEF serverVars, ServerInv, Closed
<1>11. Kinds # {}
  BY DEF Kinds, Via
<1> QED BY <1>1, <1>2, <1>3, <1>4, <1>5, <1>6, <1>7, <1>8, <1>9, <1>10, <1>11, VisitorStep DEF ServerNext

\* When Close has returned no listener, no connection being served, no session and no
\* parked name is left, whatever was being accepted, upgraded or handed over when it
\* was called (Close, track, enter and Push).
THEOREM CloseLeavesNothing == ServerSpec => []NothingLeft
<1>1. ServerInv => NothingLeft
  BY DEF ServerInv, VisitorOK, NothingLeft, Closed, Visitor
<1> QED BY ServerInitInv, ServerNextStep, <1>1, PTL DEF ServerSpec

-----------------------------------------------------------------------------
(* Agent certificates.                                                     *)

IssueRequest == [stage : {"none", "issue", "answer"}, tok : AgentTokens \cup {"none"},
                 ca : Nat, serial : Nat]

\* A certificate of the store's CA whose serial is in its token's record, if that is
\* still there.
OfStore(ca, t, serial) ==
    /\ ca = storedCA /\ storedCA # 0
    /\ t \in DOMAIN records => serial \in records[t]

\* An export, or the cluster that runs on one, has the store's CA once it is read.
MovedOK(m) ==
    /\ m = [stage |-> m.stage, ca |-> m.ca, records |-> m.records]
    /\ m.stage = "done" => m.ca = storedCA /\ storedCA # 0

\* The inductive invariant: there is one CA ever, and a serial is in its record before
\* its certificate is handed out.
IdentityInv ==
    /\ storedCA \in Nat /\ casMade \in Nat /\ serialsMade \in Nat /\ trusted \in {0, storedCA}
    /\ records \in [DOMAIN records -> SUBSET Nat]
    /\ issuing \in [Issuers -> IssueRequest]
    /\ \A o \in Issuers :
         /\ issuing[o].stage = "issue" => issuing[o].ca = storedCA /\ storedCA # 0
         /\ issuing[o].stage = "answer" => OfStore(issuing[o].ca, issuing[o].tok, issuing[o].serial)
    /\ \A c \in held : OfStore(c.ca, c.tok, c.serial)
    /\ MovedOK(exporting) /\ MovedOK(inCluster)
    /\ inCluster.stage # "done" => inCluster = NotMoved

LEMMA IdentityInitInv == IdentityInit => IdentityInv
  BY DEF IdentityInit, IdentityInv, IssueRequest, NotIssuing, NotMoved, MovedOK, OfStore

\* The CA is made once.
LEMMA AgentCAOnce ==
    ASSUME IdentityInv, AgentCA
    PROVE  /\ storedCA' \in Nat \ {0} /\ casMade' \in Nat
           /\ storedCA # 0 => storedCA' = storedCA
  BY DEF IdentityInv, AgentCA, NewAgentCA

LEMMA IdentityStep ==
    ASSUME IdentityInv, [IdentityNext]_identityVars
    PROVE  IdentityInv'
<1>1. CASE NewRelay
  BY <1>1, AgentCAOnce, Zenon DEF NewRelay, IdentityInv, MovedOK, OfStore
<1>2. CASE RelayKilled
  BY <1>2 DEF RelayKilled, IdentityInv, MovedOK, OfStore, IssueRequest, NotIssuing, NotMoved
<1>3. ASSUME NEW o \in Issuers, NEW t \in AgentTokens, IssueCertCA(o, t)
      PROVE  IdentityInv'
  BY <1>3, AgentCAOnce, Zenon DEF IssueCertCA, IdentityInv, MovedOK, OfStore, IssueRequest, NotIssuing
<1>4. ASSUME NEW o \in Issuers, IssueCert(o)
      PROVE  IdentityInv'
  <2>1. UNCHANGED <<storedCA, casMade, held, trusted, exporting, inCluster>>
    BY <1>4 DEF IssueCert
  <2>2. CASE issuing[o].tok \in DOMAIN records
    <3> DEFINE t == issuing[o].tok
               i == [issuing[o] EXCEPT !.stage = "answer", !.serial = serialsMade + 1]
    <3>1. /\ serialsMade' = serialsMade + 1
          /\ records' = [records EXCEPT ![t] = @ \cup {serialsMade + 1}]
          /\ issuing' = [issuing EXCEPT ![o] = i] /\ issuing[o].stage = "issue"
      BY <1>4, <2>2 DEF IssueCert
    <3>2. /\ issuing[o] \in IssueRequest
          /\ issuing \in [Issuers -> IssueRequest]
          /\ serialsMade + 1 \in Nat /\ issuing[o].ca = storedCA /\ storedCA # 0
      BY <3>1 DEF IdentityInv
    <3>3. /\ issuing'[o].stage = "answer" /\ issuing'[o].tok = t /\ issuing'[o].ca = storedCA
          /\ issuing'[o].serial = serialsMade + 1
          /\ issuing'[o] \in IssueRequest
          /\ \A q \in Issuers \ {o} : issuing'[q] = issuing[q]
      BY <3>1, <3>2, Zenon DEF IssueRequest
    <3>4. issuing' \in [Issuers -> IssueRequest]
      BY <3>1, <3>3, <3>2
    <3>5. /\ DOMAIN records' = DOMAIN records /\ records' \in [DOMAIN records -> SUBSET Nat]
          /\ serialsMade + 1 \in records'[t]
          /\ \A u \in DOMAIN records : records[u] \subseteq records'[u]
      BY <2>2, <3>1 DEF IdentityInv
    <3>6. \A ca, u, serial : OfStore(ca, u, serial) => OfStore(ca, u, serial)'
      BY <2>1, <3>5, Zenon DEF OfStore
    <3>7. OfStore(issuing[o].ca, issuing[o].tok, issuing[o].serial)'
      BY <2>1, <3>3, <3>5, <3>2 DEF OfStore
    <3>8. \A q \in Issuers :
            /\ issuing'[q].stage = "issue" => issuing'[q].ca = storedCA' /\ storedCA' # 0
            /\ issuing'[q].stage = "answer" =>
                 OfStore(issuing[q].ca, issuing[q].tok, issuing[q].serial)'
      BY <2>1, <3>3, <3>6, <3>7, Zenon DEF IdentityInv
    <3> QED BY <2>1, <3>1, <3>5, <3>6, <3>8, <3>2, <3>4 DEF IdentityInv, MovedOK
  <2>3. CASE issuing[o].tok \notin DOMAIN records
    <3>1. issuing' = [issuing EXCEPT ![o] = NotIssuing] /\ UNCHANGED <<records, serialsMade>>
      BY <1>4, <2>3, Zenon DEF IssueCert
    <3> QED BY <2>1, <3>1 DEF IdentityInv, MovedOK, OfStore, IssueRequest, NotIssuing
  <2> QED BY <2>2, <2>3
<1>5. ASSUME NEW o \in Issuers, IssueAnswered(o)
      PROVE  IdentityInv'
  BY <1>5 DEF IssueAnswered, Issue, IdentityInv, MovedOK, OfStore, IssueRequest, NotIssuing
<1>6. ASSUME NEW t \in AgentTokens, RevokeIdentity(t)
      PROVE  IdentityInv'
  BY <1>6 DEF RevokeIdentity, IdentityInv, MovedOK, OfStore
<1>7. CASE ExportRecords
  BY <1>7, Zenon DEF ExportRecords, IdentityInv, MovedOK, OfStore, NotMoved
<1>8. CASE ExportCA
  BY <1>8, AgentCAOnce, Zenon DEF ExportCA, IdentityInv, MovedOK, OfStore
<1>9. CASE ClusterStarts
  BY <1>9, Zenon DEF ClusterStarts, IdentityInv, MovedOK, OfStore
<1>10. CASE UNCHANGED identityVars
  BY <1>10 DEF identityVars, IdentityInv, MovedOK, OfStore
<1> QED BY <1>1, <1>2, <1>3, <1>4, <1>5, <1>6, <1>7, <1>8, <1>9, <1>10, Zenon DEF IdentityNext

\* A certificate an operator was given is accepted as long as its token is there, by
\* every relay that starts on the store and by a cluster its record was moved to: the
\* CA is made once, and the serial recorded before the answer (AgentCA, IssueCert,
\* export).
THEOREM IssuedStayAccepted == IdentitySpec => []IssuedAccepted
<1>1. IdentityInv => IssuedAccepted
  BY DEF IdentityInv, IssuedAccepted, Accepts, Verifies, HasCertSerial, OfStore, MovedOK, NotMoved
<1> QED BY IdentityInitInv, IdentityStep, <1>1, PTL DEF IdentitySpec

-----------------------------------------------------------------------------
(* Permanent names.                                                        *)

Row == [tok : TokenIds \cup {"none"}, port : FixedPorts \cup {0}]
Rows == [FixedNames -> Row]
Buckets == [tokens : SUBSET TokenIds, rows : Rows, serials : SUBSET TokenIds,
            keys : SUBSET Fingerprints]
AdminRequests ==
    [op : {"none", "delkey", "delete", "release", "reserve", "put", "unreserve"},
     name : FixedNames \cup Fingerprints \cup {"none"},
     tok : TokenIds \cup {"none"}, port : FixedPorts \cup {0}]

\* No port without a token.
Clean(rows) == \A n \in FixedNames : rows[n].tok = "none" => rows[n] = NoRow

StoreTypeOK ==
    /\ bucket \in Buckets /\ Clean(bucket.rows)
    /\ permanent \in Rows /\ Clean(permanent)
    /\ request \in [Operators -> AdminRequests]
    /\ \A o \in Operators :
         /\ request[o].op \in {"reserve", "put", "unreserve"} => request[o].name \in FixedNames
         /\ request[o].op \in {"reserve", "put"} => request[o].tok # "none"

\* A request under way that will store the name's row or give the name back.
Settles(r, n) ==
    \/ r.op = "put" /\ r.name = n /\ r.tok = permanent[n].tok
    \/ r.op = "unreserve" /\ r.name = n
    \/ r.op = "release" /\ r.tok = permanent[n].tok

Accounted(n) ==
    \/ permanent[n] = NoRow \/ permanent[n].tok = bucket.rows[n].tok
    \/ \E o \in Operators : Settles(request[o], n)

\* The inductive invariant: a name without its row is some request's to settle.
StoreInv == StoreTypeOK /\ (relayUp => \A n \in FixedNames \ overwritten : Accounted(n))

LEMMA StoreInitInv == StandaloneInit => StoreInv
<1> SUFFICES ASSUME StandaloneInit PROVE StoreInv
  OBVIOUS
<1> DEFINE t == CHOOSE t \in TokenIds : TRUE
           n == CHOOSE n \in FixedNames : TRUE
           p == CHOOSE p \in FixedPorts : TRUE
<1>1. t \in TokenIds /\ n \in FixedNames /\ p \in FixedPorts
  BY StoreConstants
<1>2. /\ minted \in SUBSET TokenIds
      /\ bucket = [Empty EXCEPT !.tokens = minted, !.rows[n] = [tok |-> t, port |-> p]]
      /\ permanent = bucket.rows /\ request = [o \in Operators |-> NoRequest]
  BY <1>1 DEF StandaloneInit
<1> HIDE DEF t, n, p
<1>3. NoRow \in Row /\ [tok |-> t, port |-> p] \in Row /\ NoRows \in Rows
  BY <1>1 DEF NoRow, Row, NoRows, Rows
<1>4. /\ bucket.rows = [NoRows EXCEPT ![n] = [tok |-> t, port |-> p]]
      /\ bucket = [tokens |-> minted, rows |-> bucket.rows, serials |-> {}, keys |-> {}]
  BY <1>2, Zenon DEF Empty
<1>5. bucket.rows \in Rows
  BY <1>1, <1>3, <1>4 DEF Rows
<1>6. Clean(bucket.rows)
  BY <1>1, <1>2, <1>4, StoreConstants DEF Clean, NoRows, NoRow
<1>7. NoRequest \in AdminRequests /\ NoRequest.op = "none"
  BY DEF NoRequest, AdminRequests
<1>8. StoreTypeOK
  BY <1>2, <1>4, <1>5, <1>6, <1>7, Zenon DEF StoreTypeOK, Buckets
<1> QED BY <1>2, <1>8 DEF StoreInv, Accounted

\* The type of what the store, the relay and a request become.
LEMMA RequestTyped ==
    ASSUME StoreTypeOK, NEW o \in Operators, NEW r \in AdminRequests, Continue(o, r),
           r.op \in {"reserve", "put", "unreserve"} => r.name \in FixedNames,
           r.op \in {"reserve", "put"} => r.tok # "none",
           bucket' \in Buckets, Clean(bucket.rows)',
           permanent' \in Rows, Clean(permanent)'
    PROVE  /\ StoreTypeOK' /\ request'[o] = r
           /\ \A q \in Operators \ {o} : request'[q] = request[q]
  BY DEF StoreTypeOK, Continue

\* A request that settles nothing begins, goes on or ends.
LEMMA IdleRequest ==
    ASSUME StoreInv, NEW o \in Operators, NEW r \in AdminRequests, Continue(o, r),
           request[o].op \notin {"put", "unreserve", "release"},
           r.op \in {"reserve", "put", "unreserve"} => r.name \in FixedNames,
           r.op \in {"reserve", "put"} => r.tok # "none",
           UNCHANGED <<bucket, relayUp, permanent, overwritten>>
    PROVE  StoreInv'
<1>1. /\ StoreTypeOK' /\ request'[o] = r
      /\ \A q \in Operators \ {o} : request'[q] = request[q]
  BY RequestTyped, Zenon DEF StoreInv, StoreTypeOK, Clean
<1>2. \A n \in FixedNames : Accounted(n) => Accounted(n)'
  BY <1>1, Zenon DEF Accounted, Settles
<1> QED BY <1>1, <1>2 DEF StoreInv

\* A change of the store that leaves its rows alone.
LEMMA SameRows ==
    ASSUME StoreInv, UNCHANGED <<relayUp, permanent, request, overwritten>>,
           bucket' \in Buckets,
           bucket'.rows = bucket.rows
    PROVE  StoreInv'
  BY DEF StoreInv, StoreTypeOK, Clean, Accounted, Settles

LEMMA AdminRequestInv ==
    ASSUME StoreInv, NEW o \in Operators, AdminRequest(o)
    PROVE  StoreInv'
<1>0. /\ StoreTypeOK /\ bucket \in Buckets
      /\ NoRequest \in AdminRequests /\ NoRequest.op = "none"
  BY DEF StoreInv, StoreTypeOK, NoRequest, AdminRequests
<1>1. ASSUME NEW t \in TokenIds, CreateToken(o, t)
      PROVE  StoreInv'
  <2>1. bucket' \in Buckets /\ bucket'.rows = bucket.rows
    BY <1>0, <1>1 DEF CreateToken, AddToken, Buckets
  <2> QED BY <1>1, <2>1, SameRows DEF CreateToken
<1>2. ASSUME NEW t \in TokenIds, IssueSerial(o, t)
      PROVE  StoreInv'
  <2>1. bucket' \in Buckets /\ bucket'.rows = bucket.rows
    BY <1>0, <1>2 DEF IssueSerial, WithSerial, Buckets
  <2> QED BY <1>2, <2>1, SameRows DEF IssueSerial
<1>3. ASSUME NEW k \in Fingerprints, AddGatewayKey(o, k)
      PROVE  StoreInv'
  <2>1. bucket' \in Buckets /\ bucket'.rows = bucket.rows
    BY <1>0, <1>3 DEF AddGatewayKey, WithKey, Buckets
  <2> QED BY <1>3, <2>1, SameRows DEF AddGatewayKey
<1>4. ASSUME NEW t \in TokenIds, RevokeByName(o, t)
      PROVE  StoreInv'
  <2> DEFINE r == [NoRequest EXCEPT !.op = "delete", !.tok = t]
  <2>1. request[o] = NoRequest
    BY <1>4 DEF RevokeByName, Arrives
  <2>2. r \in AdminRequests /\ r.op = "delete" /\ request[o].op = "none"
    BY <1>0, <2>1, Zenon DEF AdminRequests
  <2> QED BY <1>4, <2>2, IdleRequest, Zenon DEF RevokeByName
<1>5. ASSUME NEW k \in Fingerprints, RemoveGatewayKey(o, k)
      PROVE  StoreInv'
  <2> DEFINE r == [NoRequest EXCEPT !.op = "delkey", !.name = k]
  <2>1. request[o] = NoRequest
    BY <1>5 DEF RemoveGatewayKey, Arrives
  <2>2. r \in AdminRequests /\ r.op = "delkey" /\ request[o].op = "none"
    BY <1>0, <2>1, Zenon DEF AdminRequests
  <2> QED BY <1>5, <2>2, IdleRequest, Zenon DEF RemoveGatewayKey
<1>6. ASSUME NEW n \in FixedNames, NEW t \in TokenIds, NEW p \in FixedPorts \cup {0},
             AddReservation(o, n, t, p)
      PROVE  StoreInv'
  <2> DEFINE r == [op |-> "reserve", name |-> n, tok |-> t, port |-> p]
  <2>1. /\ r \in AdminRequests /\ r.op = "reserve" /\ r.name \in FixedNames /\ r.tok # "none"
        /\ request[o].op = "none"
    BY <1>6, StoreConstants DEF AddReservation, Arrives, NoRequest, AdminRequests
  <2> QED BY <1>6, <2>1, IdleRequest, Zenon DEF AddReservation
<1>7. ASSUME NEW n \in FixedNames, RemoveReservation(o, n)
      PROVE  StoreInv'
  <2> DEFINE r == [NoRequest EXCEPT !.op = "unreserve", !.name = n]
  <2>1. request[o] = NoRequest
    BY <1>7 DEF RemoveReservation, Arrives
  <2>2. r \in AdminRequests /\ r.op = "unreserve" /\ r.name = n /\ request[o].op = "none"
    BY <1>0, <2>1, Zenon DEF AdminRequests
  <2>3. /\ bucket' \in Buckets /\ bucket'.rows[n] = NoRow
        /\ \A m \in FixedNames \ {n} : bucket'.rows[m] = bucket.rows[m]
    BY <1>0, <1>7, Zenon DEF RemoveReservation, DeleteRow, Buckets, Rows, Row, NoRow
  <2>5. UNCHANGED <<relayUp, permanent, overwritten>>
    BY <1>7 DEF RemoveReservation
  <2>4. StoreTypeOK' /\ request'[o] = r /\ \A q \in Operators \ {o} : request'[q] = request[q]
    <3>1. Clean(bucket.rows)' /\ Clean(permanent)' /\ permanent' \in Rows
      BY <1>0, <2>3, <2>5 DEF StoreTypeOK, Clean
    <3>2. Continue(o, r)
      BY <1>7 DEF RemoveReservation
    <3> QED BY <1>0, <2>2, <2>3, <3>1, <3>2, RequestTyped, Zenon
  <2>6. ASSUME NEW m \in FixedNames, Accounted(m)
        PROVE  Accounted(m)'
    <3>1. CASE m = n
      BY <2>2, <2>4, <3>1, Zenon DEF Accounted, Settles
    <3>2. CASE m # n
      BY <2>2, <2>3, <2>4, <2>5, <2>6, <3>2, ZenonT(30) DEF Accounted, Settles
    <3> QED BY <3>1, <3>2
  <2> QED BY <2>4, <2>5, <2>6 DEF StoreInv
<1> QED BY <1>1, <1>2, <1>3, <1>4, <1>5, <1>6, <1>7, Zenon DEF AdminRequest

\* The relay gives names back, and a request ends: those it settled are the ones.
LEMMA GivenBack ==
    ASSUME StoreInv, NEW o \in Operators, Done(o), NEW S \in SUBSET FixedNames,
           permanent' = [n \in FixedNames |-> IF n \in S THEN NoRow ELSE permanent[n]],
           \A n \in FixedNames \ S : ~Settles(request[o], n),
           UNCHANGED <<bucket, relayUp, overwritten>>
    PROVE  StoreInv'
<1>1. /\ NoRequest \in AdminRequests /\ NoRequest.op = "none" /\ NoRow \in Row
      /\ StoreTypeOK
  BY Zenon DEF NoRequest, AdminRequests, NoRow, Row, StoreInv
<1>2. /\ permanent' \in Rows /\ Clean(permanent)'
      /\ bucket' \in Buckets /\ Clean(bucket.rows)'
  BY <1>1, Zenon DEF Rows, Clean, StoreTypeOK
<1>3. /\ StoreTypeOK' /\ request'[o] = NoRequest
      /\ \A q \in Operators \ {o} : request'[q] = request[q]
  BY <1>1, <1>2, RequestTyped DEF Done
<1>4. ASSUME NEW n \in FixedNames, Accounted(n)
      PROVE  Accounted(n)'
  <2>1. CASE n \in S
    BY <2>1, Zenon DEF Accounted
  <2>2. CASE n \notin S
    <3>1. permanent'[n] = permanent[n] /\ ~Settles(request[o], n)
      BY <2>2
    <3> QED BY <1>3, <1>4, <3>1, Zenon DEF Accounted, Settles
  <2> QED BY <2>1, <2>2
<1> QED BY <1>3, <1>4 DEF StoreInv

LEMMA AdminStepInv ==
    ASSUME StoreInv, NEW o \in Operators, AdminStep(o)
    PROVE  StoreInv'
<1> DEFINE r == request[o]
<1>0. /\ StoreTypeOK /\ bucket \in Buckets /\ r \in AdminRequests
      /\ NoRequest \in AdminRequests /\ NoRequest.op = "none"
      /\ NoRow \in Row /\ permanent \in Rows /\ bucket.rows \in Rows
  BY Zenon DEF StoreInv, StoreTypeOK, NoRequest, AdminRequests, Buckets, NoRow, Row
<1>1. CASE DeleteGatewayKey(o)
  <2>1. bucket' \in Buckets /\ bucket'.rows = bucket.rows
    BY <1>0, <1>1, Zenon DEF DeleteGatewayKey, WithoutKey, Buckets
  <2>2. Clean(bucket.rows)' /\ Clean(permanent)' /\ permanent' \in Rows
    BY <1>0, <1>1, <2>1 DEF DeleteGatewayKey, StoreTypeOK, Clean
  <2>3. /\ StoreTypeOK' /\ request'[o] = NoRequest
        /\ \A q \in Operators \ {o} : request'[q] = request[q]
    BY <1>0, <1>1, <2>1, <2>2, RequestTyped, Zenon DEF DeleteGatewayKey, Done
  <2>4. UNCHANGED <<relayUp, permanent, overwritten>> /\ r.op = "delkey"
    BY <1>1, Zenon DEF DeleteGatewayKey
  <2>5. \A n \in FixedNames : Accounted(n) => Accounted(n)'
    BY <2>1, <2>3, <2>4, Zenon DEF Accounted, Settles
  <2> QED BY <2>3, <2>4, <2>5 DEF StoreInv
<1>2. CASE DeleteToken(o) /\ ~HasToken(r.tok)
  BY <1>0, <1>2, IdleRequest DEF DeleteToken, Done
<1>3. CASE DeleteToken(o) /\ HasToken(r.tok)
  <2> DEFINE q == [r EXCEPT !.op = "release"]
             t == r.tok
  <2>1. /\ bucket' = WithoutToken(bucket, t) /\ Continue(o, q) /\ r.op = "delete"
        /\ UNCHANGED <<relayUp, permanent, overwritten>>
    BY <1>3 DEF DeleteToken
  <2>2. q \in AdminRequests /\ q.op = "release" /\ q.tok = t
    BY <1>0 DEF AdminRequests
  <2>3. /\ bucket' \in Buckets
        /\ bucket'.rows = [n \in FixedNames |-> IF bucket.rows[n].tok = t THEN NoRow ELSE bucket.rows[n]]
    BY <1>0, <2>1, Zenon DEF WithoutToken, Buckets, Rows
  <2>4. Clean(bucket.rows)' /\ Clean(permanent)' /\ permanent' \in Rows
    BY <1>0, <2>1, <2>3 DEF StoreTypeOK, Clean
  <2>5. /\ StoreTypeOK' /\ request'[o] = q
        /\ \A p \in Operators \ {o} : request'[p] = request[p]
    BY <1>0, <2>1, <2>2, <2>3, <2>4, RequestTyped, Zenon
  <2>6. ASSUME NEW n \in FixedNames, Accounted(n)
        PROVE  Accounted(n)'
    <3>1. CASE permanent[n].tok = t
      BY <2>1, <2>2, <2>5, <3>1, Zenon DEF Accounted, Settles
    <3>2. CASE permanent[n].tok # t
      BY <2>1, <2>3, <2>5, <2>6, <3>2 DEF Accounted, Settles
    <3> QED BY <3>1, <3>2
  <2> QED BY <2>1, <2>5, <2>6 DEF StoreInv
<1>4. CASE ReleaseToken(o)
  <2> DEFINE S == {n \in FixedNames : permanent[n].tok = r.tok}
  <2>1. permanent' = [n \in FixedNames |-> IF n \in S THEN NoRow ELSE permanent[n]]
    BY <1>4 DEF ReleaseToken
  <2>2. \A n \in FixedNames \ S : ~Settles(r, n)
    BY <1>4 DEF ReleaseToken, Settles
  <2>3. Done(o) /\ UNCHANGED <<bucket, relayUp, overwritten>>
    BY <1>4 DEF ReleaseToken
  <2> HIDE DEF S
  <2> QED BY <2>1, <2>2, <2>3, GivenBack, Zenon DEF S
<1>5. CASE Unreserve(o)
  <2> DEFINE S == {n \in FixedNames : n = r.name}
  <2>1. permanent' = [n \in FixedNames |-> IF n \in S THEN NoRow ELSE permanent[n]]
    BY <1>0, <1>5, Zenon DEF Unreserve, Rows
  <2>2. \A n \in FixedNames \ S : ~Settles(r, n)
    BY <1>5, Zenon DEF Unreserve, Settles
  <2>3. Done(o) /\ UNCHANGED <<bucket, relayUp, overwritten>>
    BY <1>5 DEF Unreserve
  <2> HIDE DEF S
  <2> QED BY <2>1, <2>2, <2>3, GivenBack, Zenon DEF S
<1>6. CASE ReserveInRelay(o) /\ ~CanReserve(permanent, r.name, r.tok, r.port)
  BY <1>0, <1>6, IdleRequest DEF ReserveInRelay, Done
<1>7. CASE ReserveInRelay(o) /\ CanReserve(permanent, r.name, r.tok, r.port)
  <2> DEFINE q == [r EXCEPT !.op = "put"]
             n == r.name
  <2>1. /\ permanent' = Reserved(permanent, n, r.tok, r.port) /\ Continue(o, q)
        /\ r.op = "reserve" /\ UNCHANGED <<bucket, relayUp, overwritten>>
    BY <1>7 DEF ReserveInRelay
  <2>2. n \in FixedNames /\ r.tok # "none"
    BY <1>0, <2>1 DEF StoreTypeOK
  <2>3. q \in AdminRequests /\ q.op = "put" /\ q.name = n /\ q.tok = r.tok
    BY <1>0 DEF AdminRequests
  <2>4. /\ permanent' \in Rows /\ permanent'[n].tok = r.tok
        /\ \A m \in FixedNames \ {n} : permanent'[m] = permanent[m]
    BY <1>0, <2>1, <2>2, Zenon DEF Reserved, Rows, Row, AdminRequests
  <2>5. Clean(bucket.rows)' /\ Clean(permanent)' /\ bucket' \in Buckets
    BY <1>0, <2>1, <2>2, <2>4 DEF StoreTypeOK, Clean
  <2>6. /\ StoreTypeOK' /\ request'[o] = q
        /\ \A p \in Operators \ {o} : request'[p] = request[p]
    BY <1>0, <2>1, <2>2, <2>3, <2>4, <2>5, RequestTyped, Zenon
  <2>7. ASSUME NEW m \in FixedNames, Accounted(m)
        PROVE  Accounted(m)'
    <3>1. CASE m = n
      BY <2>3, <2>4, <2>6, <3>1, Zenon DEF Accounted, Settles
    <3>2. CASE m # n
      BY <2>1, <2>4, <2>6, <2>7, <3>2, ZenonT(30) DEF Accounted, Settles
    <3> QED BY <3>1, <3>2
  <2> QED BY <2>1, <2>6, <2>7 DEF StoreInv
<1>8. CASE PutReservation(o) /\ ~HasToken(r.tok)
  <2> DEFINE S == {n \in FixedNames : n = r.name}
  <2>1. permanent' = [n \in FixedNames |-> IF n \in S THEN NoRow ELSE permanent[n]]
    BY <1>0, <1>8, Zenon DEF PutReservation, Rows
  <2>2. \A n \in FixedNames \ S : ~Settles(r, n)
    BY <1>8, Zenon DEF PutReservation, Settles
  <2>3. Done(o) /\ UNCHANGED <<bucket, relayUp, overwritten>>
    BY <1>8 DEF PutReservation
  <2> HIDE DEF S
  <2> QED BY <2>1, <2>2, <2>3, GivenBack, Zenon DEF S
<1>9. CASE PutReservation(o) /\ HasToken(r.tok)
  <2> DEFINE n == r.name
  <2>1. /\ r.op = "put" /\ Done(o) /\ bucket' = PutRow(n, r.tok, r.port)
        /\ overwritten' = overwritten \cup {m \in {n} : Overtaken(r)}
        /\ UNCHANGED <<permanent, relayUp>>
    BY <1>9 DEF PutReservation
  <2>2. n \in FixedNames /\ r.tok # "none"
    BY <1>0, <2>1, Zenon DEF StoreTypeOK
  <2>3. [tok |-> r.tok, port |-> r.port] \in Row
    BY <1>0 DEF Row, AdminRequests
  <2>4. /\ bucket' \in Buckets /\ bucket'.rows[n].tok = r.tok
        /\ \A m \in FixedNames \ {n} : bucket'.rows[m] = bucket.rows[m]
    BY <1>0, <2>1, <2>2, <2>3 DEF PutRow, Buckets, Rows
  <2>5. Clean(bucket.rows)' /\ Clean(permanent)' /\ permanent' \in Rows
    BY <1>0, <2>1, <2>2, <2>4, Zenon DEF StoreTypeOK, Clean
  <2>6. /\ StoreTypeOK' /\ request'[o] = NoRequest
        /\ \A p \in Operators \ {o} : request'[p] = request[p]
    BY <1>0, <2>1, <2>4, <2>5, RequestTyped, Zenon DEF Done
  <2>7. ASSUME NEW m \in FixedNames, Accounted(m), m \notin overwritten'
        PROVE  Accounted(m)'
    <3>1. CASE m = n
      <4>1. ~Overtaken(r)
        BY <2>1, <2>7, <3>1
      <4>2. CASE permanent[n].tok \in {"none", r.tok}
        BY <1>0, <2>1, <2>2, <2>4, <3>1, <4>2, Zenon DEF Accounted, StoreTypeOK, Clean
      <4>3. CASE permanent[n].tok \notin {"none", r.tok}
        <5>1. bucket.rows[n].tok # permanent[n].tok /\ permanent[n] # NoRow
          <6>1. r.name = n /\ permanent[n].tok # r.tok
            BY <4>3
          <6>2. NoRow.tok = "none"
            BY DEF NoRow
          <6> QED BY <4>1, <4>3, <6>1, <6>2, Zenon DEF Overtaken
        <5>2. PICK p \in Operators : Settles(request[p], n)
          BY <2>7, <3>1, <5>1 DEF Accounted
        <5>3. p # o
          BY <2>1, <4>3, <5>2, Zenon DEF Settles
        <5> QED BY <2>1, <2>6, <3>1, <5>2, <5>3, Zenon DEF Accounted, Settles
      <4> QED BY <4>2, <4>3, Zenon
    <3>2. CASE m # n
      BY <2>1, <2>4, <2>6, <2>7, <3>2, ZenonT(30) DEF Accounted, Settles
    <3> QED BY <3>1, <3>2
  <2> QED BY <2>1, <2>6, <2>7, Zenon DEF StoreInv
<1> QED BY <1>1, <1>2, <1>3, <1>4, <1>5, <1>6, <1>7, <1>8, <1>9, Zenon DEF AdminStep

LEMMA StoreStep ==
    ASSUME StoreInv, [StandaloneNext]_standaloneVars
    PROVE  StoreInv'
<1>1. ASSUME NEW o \in Operators, AdminRequest(o) \/ AdminStep(o)
      PROVE  StoreInv'
  BY <1>1, AdminRequestInv, AdminStepInv
<1>2. CASE Killed
  <2>1. NoRequest \in AdminRequests /\ NoRequest.op = "none" /\ NoRows \in Rows /\ Clean(NoRows)
    BY DEF NoRequest, AdminRequests, NoRows, Rows, NoRow, Row, Clean
  <2> QED BY <1>2, <2>1, Zenon DEF Killed, StoreInv, StoreTypeOK, Clean
<1>3. CASE StartRelay
  <2>1. permanent' = bucket.rows /\ UNCHANGED <<bucket, request>>
    BY <1>3, Zenon DEF StartRelay
  <2>2. StoreTypeOK'
    BY <2>1 DEF StoreInv, StoreTypeOK, Clean, Buckets
  <2> QED BY <2>1, <2>2, Zenon DEF StoreInv, Accounted
<1>4. ASSUME UNCHANGED <<bucket, relayUp, permanent, request, overwritten>>
      PROVE  StoreInv'
  BY <1>4, Zenon DEF StoreInv, StoreTypeOK, Clean, Accounted, Settles
<1>5. CASE ExportTokens \/ ExportRows \/ ExportKeys \/ ImportRun
  BY <1>4, <1>5 DEF ExportTokens, ExportRows, ExportKeys, ImportRun, adminVars
<1>6. CASE ImportStep
  BY <1>4, <1>6, Zenon DEF ImportStep, ImportStage, ImportToken, ImportRow, ImportKey, adminVars
<1>7. CASE ImportStops \/ \E t \in TokenIds : ClusterRevokes(t)
  BY <1>4, <1>7 DEF ImportStops, ClusterRevokes
<1>8. CASE UNCHANGED standaloneVars
  BY <1>4, <1>8 DEF standaloneVars
<1> QED BY <1>1, <1>2, <1>3, <1>5, <1>6, <1>7, <1>8 DEF StandaloneNext

\* Between admin requests every name the relay holds for good has its row, the race
\* of a late addition aside: a half-done request leaves no name behind
\* (addReservation, removeReservation, revokeToken, and New on the store).
THEOREM NoNameOrphaned == StandaloneSpec => []NoOrphanNames
<1>1. StoreInv => NoOrphanNames
  <2>1. NoRequest.op = "none"
    BY DEF NoRequest
  <2>2. ASSUME Quiet, NEW n
        PROVE  \A o \in Operators : ~Settles(request[o], n)
    BY <2>1, <2>2 DEF Quiet, Settles
  <2> QED BY <2>2, Zenon DEF StoreInv, Accounted, NoOrphanNames
<1> QED BY StoreInitInv, StoreStep, <1>1, PTL DEF StandaloneSpec

(* The agent's inspector.                                                  *)

LEMMA Appended ==
  ASSUME NEW S, NEW q \in Seq(S), NEW e \in S
  PROVE  /\ Append(q, e) \in Seq(S) /\ Range(Append(q, e)) = Range(q) \cup {e}
         /\ IsInjective(q) /\ e \notin Range(q) => IsInjective(Append(q, e))
<1>1. Append(q, e) \in Seq(S) /\ Len(Append(q, e)) = Len(q) + 1 /\ Len(q) \in Nat
      /\ DOMAIN Append(q, e) = 1..(Len(q) + 1) /\ DOMAIN q = 1..Len(q)
  OBVIOUS
<1>2. \A i \in 1..Len(q) : Append(q, e)[i] = q[i]
  OBVIOUS
<1>3. Append(q, e)[Len(q) + 1] = e
  OBVIOUS
<1>4. \A i \in 1..(Len(q) + 1) : i \in 1..Len(q) \/ i = Len(q) + 1
  BY <1>1
<1>5. 1..Len(q) \subseteq 1..(Len(q) + 1) /\ Len(q) + 1 \in 1..(Len(q) + 1)
  BY <1>1
<1>6. Range(Append(q, e)) = Range(q) \cup {e}
  BY <1>1, <1>2, <1>3, <1>4, <1>5 DEF Range
<1>7. IsInjective(q) /\ e \notin Range(q) => IsInjective(Append(q, e))
  BY <1>1, <1>2, <1>3, <1>4 DEF Range, IsInjective
<1> QED BY <1>1, <1>6, <1>7

LEMMA Widened ==
  ASSUME NEW S, NEW T, S \subseteq T, NEW q \in Seq(S)
  PROVE  Range(q) \subseteq S /\ q \in Seq(T)
  BY DEF Range

LEMMA TailOf ==
  ASSUME NEW S, NEW q \in Seq(S), q # << >>, IsInjective(q)
  PROVE  Tail(q) \in Seq(S) /\ IsInjective(Tail(q)) /\ Range(Tail(q)) = Range(q) \ {Head(q)}
<1>1. Len(q) \in Nat /\ Len(q) >= 1 /\ DOMAIN q = 1..Len(q) /\ Head(q) = q[1]
  OBVIOUS
<1>2. Tail(q) \in Seq(S) /\ DOMAIN Tail(q) = 1..(Len(q) - 1)
  OBVIOUS
<1>3. \A i \in 1..(Len(q) - 1) : Tail(q)[i] = q[i + 1] /\ i + 1 \in 1..Len(q) /\ i + 1 # 1
  BY <1>1
<1>4. \A j \in 1..Len(q) : j # 1 => j - 1 \in 1..(Len(q) - 1) /\ q[j] = Tail(q)[j - 1]
  BY <1>1, <1>3
<1>5. IsInjective(Tail(q))
  BY <1>1, <1>2, <1>3 DEF IsInjective
<1>6. Range(Tail(q)) \subseteq Range(q) \ {Head(q)}
  BY <1>1, <1>2, <1>3 DEF Range, IsInjective
<1>7. ASSUME NEW e \in Range(q) \ {Head(q)} PROVE e \in Range(Tail(q))
  <2>1. PICK j \in 1..Len(q) : e = q[j] /\ j # 1
    BY <1>1, <1>7 DEF Range
  <2>2. j - 1 \in DOMAIN Tail(q) /\ e = Tail(q)[j - 1]
    BY <1>2, <1>4, <2>1
  <2> QED BY <2>2, Zenon DEF Range
<1> QED BY <1>2, <1>5, <1>6, <1>7

\* The exchanges that still have to tell viewer v.
Telling(v) == {x \in Exchanges : exchange[x].at = "tell" /\ v \in exchange[x].tell}
Coming(v) == {exchange[x].id : x \in Telling(v)}

\* Of a viewer, subscribed or gone: what was added for it is on its way, queued or
\* dropped, and only one of these.
ViewerOK(v) ==
  LET queue == channel[v].queue
  IN  /\ DOMAIN channel[v] = {"on", "queue"}
      /\ queue \in Seq(1..nextID) /\ IsInjective(queue)
      /\ missed[v] \subseteq 1..nextID
      /\ news[v] = Range(queue) \cup Coming(v) \cup missed[v]
      /\ Range(queue) \cap missed[v] = {}
      /\ Coming(v) \cap (Range(queue) \cup missed[v]) = {}

\* What is true of an exchange's state, while the last entry is number top.
ExchangeOK(e, top) ==
  /\ DOMAIN e = DOMAIN NoExchange
  /\ e.at = "tell" => e.id \in 1..top

\* The inductive invariant: no two exchanges tell of the same entry.
InspectorInv ==
  /\ nextID \in Nat
  /\ DOMAIN exchange = Exchanges /\ \A x \in Exchanges : ExchangeOK(exchange[x], nextID)
  /\ \A x, y \in Exchanges :
       exchange[x].at = "tell" /\ exchange[y].at = "tell" /\ exchange[x].id = exchange[y].id => x = y
  /\ DOMAIN channel = Viewers /\ DOMAIN news = Viewers /\ DOMAIN missed = Viewers
  /\ \A v \in Viewers : ViewerOK(v)

\* What is on its way to a viewer, after a step that starts or stops no telling.
LEMMA ComingSame ==
  ASSUME NEW v, Telling(v)' = Telling(v), \A y \in Telling(v) : exchange'[y].id = exchange[y].id
  PROVE  Coming(v)' = Coming(v)
  BY DEF Coming

\* ... and after one that starts to tell of exchange x.
LEMMA ComingMore ==
  ASSUME NEW v, NEW x, Telling(v)' = Telling(v) \cup {x}, x \notin Telling(v),
         \A y \in Telling(v) : exchange'[y].id = exchange[y].id
  PROVE  Coming(v)' = Coming(v) \cup {exchange'[x].id}
  BY DEF Coming

\* An entry on its way is dropped, the channel being full.
LEMMA OneMissed ==
  ASSUME NEW N, NEW Q, NEW C, NEW M, NEW i \in C,
         N = Q \cup C \cup M, Q \cap M = {}, C \cap (Q \cup M) = {}
  PROVE  /\ N = Q \cup (C \ {i}) \cup (M \cup {i}) /\ Q \cap (M \cup {i}) = {}
         /\ (C \ {i}) \cap (Q \cup (M \cup {i})) = {}
  OBVIOUS

\* A step that leaves the viewers alone, of an exchange that has none of them to tell.
LEMMA NobodyToTell ==
  ASSUME InspectorInv, NEW x \in Exchanges, NEW r, Into(x, r), UNCHANGED <<recorderVars, viewerVars>>,
         DOMAIN r = DOMAIN NoExchange, r.at # "tell",
         exchange[x].at = "tell" => exchange[x].tell = {}
  PROVE  InspectorInv'
<1>1. /\ DOMAIN exchange' = Exchanges /\ exchange'[x] = r
      /\ \A y \in Exchanges \ {x} : exchange'[y] = exchange[y]
      /\ nextID' = nextID /\ channel' = channel /\ news' = news /\ missed' = missed
  BY Zenon DEF InspectorInv, Into, recorderVars, viewerVars
<1>2. \A v \in Viewers : Telling(v)' = Telling(v) /\ x \notin Telling(v)
  BY <1>1 DEF Telling
<1>3. ASSUME NEW v \in Viewers PROVE Coming(v)' = Coming(v)
  <2>1. \A y \in Telling(v) : exchange'[y].id = exchange[y].id
    BY <1>1, <1>2, Zenon DEF Telling
  <2> QED BY <1>2, <2>1, ComingSame, Zenon
<1>4. \A v \in Viewers : ViewerOK(v)'
  BY <1>1, <1>3, Zenon DEF InspectorInv, ViewerOK
<1>5. \A y \in Exchanges : ExchangeOK(exchange[y], nextID)'
  BY <1>1, Zenon DEF InspectorInv, ExchangeOK
<1> QED BY <1>1, <1>4, <1>5, Zenon DEF InspectorInv

LEMMA ServingQuiet ==
  ASSUME InspectorInv, NEW x \in Exchanges,
         \/ ServeRecorded(x) \/ RequestEnds(x) \/ Served(x) \/ Told(x)
         \/ \E n \in 0..(MaxBody + 1) : ReadRequest(x, n)
         \/ \E id \in 1..nextID : Replay(x, id)
         \/ \E side \in {"client", "service"} : RawPipe(x, side)
  PROVE  InspectorInv'
<1>0. DOMAIN exchange[x] = DOMAIN NoExchange
  BY Zenon DEF InspectorInv, ExchangeOK
<1>1. CASE ServeRecorded(x)
  <2> DEFINE r == [NoExchange EXCEPT !.at = "read"]
  <2>1. DOMAIN r = DOMAIN NoExchange /\ r.at = "read"
    BY DEF NoExchange
  <2> QED BY <1>1, <2>1, NobodyToTell, Zenon DEF ServeRecorded, Unrecorded
<1>2. CASE RequestEnds(x)
  <2>1. NoExchange.at = "idle"
    BY DEF NoExchange
  <2> QED BY <1>2, <2>1, NobodyToTell, Zenon DEF RequestEnds, Unrecorded
<1>3. CASE WriteRequest(x)
  <2> DEFINE r == [exchange[x] EXCEPT !.at = "response", !.body = 0, !.size = exchange[x].body,
                                      !.kept = Capture(exchange[x].body)]
  <2>1. DOMAIN r = DOMAIN NoExchange /\ r.at = "response"
    BY <1>0 DEF NoExchange
  <2> QED BY <1>3, <2>1, NobodyToTell, Zenon DEF WriteRequest, Unrecorded
<1>4. CASE WriteFails(x)
  <2> DEFINE r == [NoExchange EXCEPT !.at = "add"]
  <2>1. DOMAIN r = DOMAIN NoExchange /\ r.at = "add"
    BY DEF NoExchange
  <2> QED BY <1>4, <2>1, NobodyToTell, Zenon DEF WriteFails, Unrecorded
<1>5. ASSUME NEW g \in BOOLEAN, NEW u \in BOOLEAN, Respond(x, g, u)
      PROVE  InspectorInv'
  <2> DEFINE r == [exchange[x] EXCEPT !.at = "add", !.goOn = g, !.upgraded = u]
  <2>1. DOMAIN r = DOMAIN NoExchange /\ r.at = "add"
    BY <1>0 DEF NoExchange
  <2> QED BY <1>5, <2>1, NobodyToTell, Zenon DEF Respond, Unrecorded
<1>6. CASE Told(x)
  <2> DEFINE pipe == [NoExchange EXCEPT !.at = "pipe", !.piping = {"client", "service"}]
             read == [NoExchange EXCEPT !.at = "read"]
  <2>1. /\ DOMAIN pipe = DOMAIN NoExchange /\ pipe.at = "pipe"
        /\ DOMAIN read = DOMAIN NoExchange /\ read.at = "read" /\ NoExchange.at = "idle"
    BY DEF NoExchange
  <2>2. Into(x, NoExchange) \/ Into(x, pipe) \/ Into(x, read)
    BY <1>6 DEF Told
  <2> HIDE DEF pipe, read
  <2> QED BY <1>6, <2>1, <2>2, NobodyToTell DEF Told, Unrecorded
<1>7. ASSUME NEW n \in 0..(MaxBody + 1), ReadRequest(x, n)
      PROVE  InspectorInv'
  <2> DEFINE r == [NoExchange EXCEPT !.at = "write", !.body = n]
  <2>1. DOMAIN r = DOMAIN NoExchange /\ r.at = "write"
    BY DEF NoExchange
  <2> QED BY <1>7, <2>1, NobodyToTell, Zenon DEF ReadRequest
<1>8. ASSUME NEW id \in 1..nextID, Replay(x, id)
      PROVE  InspectorInv'
  <2>1. PICK e \in Get(id) : Into(x, [NoExchange EXCEPT !.at = "write", !.body = e.kept])
    BY <1>8, Zenon DEF Replay
  <2> DEFINE r == [NoExchange EXCEPT !.at = "write", !.body = e.kept]
  <2>2. DOMAIN r = DOMAIN NoExchange /\ r.at = "write"
    BY DEF NoExchange
  <2> QED BY <1>8, <2>1, <2>2, NobodyToTell, Zenon DEF Replay
<1>9. ASSUME NEW side \in {"client", "service"}, RawPipe(x, side)
      PROVE  InspectorInv'
  <2> DEFINE s == [exchange[x] EXCEPT !.piping = @ \ {side}]
  <2>1. PICK r \in {NoExchange, s} : Into(x, r)
    BY <1>9 DEF RawPipe
  <2>2. DOMAIN r = DOMAIN NoExchange /\ r.at # "tell"
    BY <1>0, <1>9 DEF NoExchange, RawPipe
  <2> QED BY <1>9, <2>1, <2>2, NobodyToTell DEF RawPipe, Unrecorded
<1> QED BY <1>1, <1>2, <1>3, <1>4, <1>5, <1>6, <1>7, <1>8, <1>9 DEF Served

LEMMA AddTells ==
  ASSUME InspectorInv, NEW x \in Exchanges, Add(x)
  PROVE  InspectorInv'
<1> DEFINE r == [exchange[x] EXCEPT !.at = "tell", !.id = nextID', !.tell = Subscribed, !.size = 0, !.kept = 0]
<1>1. DOMAIN exchange[x] = DOMAIN NoExchange /\ exchange[x].at = "add"
  BY DEF InspectorInv, ExchangeOK, Add
<1>2. DOMAIN r = DOMAIN NoExchange /\ r.at = "tell" /\ r.id = nextID' /\ r.tell = Subscribed
  BY <1>1 DEF NoExchange
<1>3. /\ DOMAIN exchange' = Exchanges /\ exchange'[x] = r
      /\ \A y \in Exchanges \ {x} : exchange'[y] = exchange[y]
      /\ nextID \in Nat /\ nextID' = nextID + 1 /\ channel' = channel /\ missed' = missed
      /\ news' = [v \in Viewers |-> IF v \in Subscribed THEN news[v] \cup {nextID'} ELSE news[v]]
  BY Zenon DEF InspectorInv, Add, Into
<1> HIDE DEF r
<1>4. \A y \in Exchanges \ {x} :
        DOMAIN exchange'[y] = DOMAIN NoExchange /\ (exchange'[y].at = "tell" => exchange'[y].id \in 1..nextID)
  BY <1>3, Zenon DEF InspectorInv, ExchangeOK
<1>5. \A y \in Exchanges : ExchangeOK(exchange[y], nextID)'
  <2>1. nextID' \in 1..nextID' /\ \A i \in 1..nextID : i \in 1..nextID'
    BY <1>3
  <2> QED BY <1>2, <1>3, <1>4, <2>1, Zenon DEF ExchangeOK
<1>6. \A y, z \in Exchanges :
        exchange'[y].at = "tell" /\ exchange'[z].at = "tell" /\ exchange'[y].id = exchange'[z].id => y = z
  BY <1>2, <1>3, <1>4 DEF InspectorInv
<1>7. ASSUME NEW v \in Viewers PROVE ViewerOK(v)'
  <2>1. Telling(v)' = IF v \in Subscribed THEN Telling(v) \cup {x} ELSE Telling(v)
    BY <1>1, <1>2, <1>3 DEF Telling
  <2>2. x \notin Telling(v)
    BY <1>1 DEF Telling
  <2>3. Coming(v)' = IF v \in Subscribed THEN Coming(v) \cup {nextID'} ELSE Coming(v)
    <3>1. \A y \in Telling(v) : exchange'[y].id = exchange[y].id
      BY <1>3, <2>2, Zenon DEF Telling
    <3>2. exchange'[x].id = nextID'
      BY <1>2, <1>3
    <3>3. CASE v \in Subscribed
      BY <2>1, <2>2, <3>1, <3>2, <3>3, ComingMore, Zenon
    <3>4. CASE v \notin Subscribed
      BY <2>1, <3>1, <3>4, ComingSame, Zenon
    <3> QED BY <3>3, <3>4
  <2>4. ViewerOK(v) /\ 1..nextID \subseteq 1..nextID' /\ nextID' \notin 1..nextID
    BY <1>3 DEF InspectorInv
  <2>5. Range(channel[v].queue) \subseteq 1..nextID /\ channel[v].queue \in Seq(1..nextID')
    <3>1. channel[v].queue \in Seq(1..nextID)
      BY <2>4 DEF ViewerOK
    <3> QED BY <2>4, <3>1, Widened, Zenon
  <2>6. news'[v] = IF v \in Subscribed THEN news[v] \cup {nextID'} ELSE news[v]
    BY <1>3
  <2>7. /\ DOMAIN channel'[v] = {"on", "queue"} /\ channel'[v].queue = channel[v].queue
        /\ IsInjective(channel'[v].queue) /\ missed'[v] = missed[v]
        /\ missed'[v] \subseteq 1..nextID' /\ Range(channel'[v].queue) \cap missed'[v] = {}
    BY <1>3, <2>4, Zenon DEF ViewerOK
  <2>8. news'[v] = Range(channel'[v].queue) \cup Coming(v)' \cup missed'[v]
    BY <2>3, <2>4, <2>6, <2>7, Zenon DEF ViewerOK
  <2>9. Coming(v)' \cap (Range(channel'[v].queue) \cup missed'[v]) = {}
    BY <2>3, <2>4, <2>5, <2>7, Zenon DEF ViewerOK
  <2> QED BY <2>5, <2>7, <2>8, <2>9, Zenon DEF ViewerOK
<1>8. /\ nextID' \in Nat /\ DOMAIN news' = Viewers
      /\ DOMAIN channel' = Viewers /\ DOMAIN missed' = Viewers
  BY <1>3 DEF InspectorInv
<1> QED BY <1>3, <1>5, <1>6, <1>7, <1>8, Zenon DEF InspectorInv

LEMMA TellMoves ==
  ASSUME InspectorInv, NEW x \in Exchanges, NEW w \in Viewers, Tell(x, w)
  PROVE  InspectorInv'
<1> DEFINE r == [exchange[x] EXCEPT !.tell = @ \ {w}]
           id == exchange[x].id
<1>1. DOMAIN exchange[x] = DOMAIN NoExchange /\ exchange[x].at = "tell" /\ id \in 1..nextID
      /\ w \in exchange[x].tell
  BY DEF InspectorInv, ExchangeOK, Tell
<1>2. DOMAIN r = DOMAIN NoExchange /\ r.at = "tell" /\ r.id = id /\ r.tell = exchange[x].tell \ {w}
  BY <1>1 DEF NoExchange
<1>3. /\ DOMAIN exchange' = Exchanges /\ exchange'[x] = r
      /\ \A y \in Exchanges \ {x} : exchange'[y] = exchange[y]
      /\ nextID \in Nat /\ nextID' = nextID /\ news' = news
  BY DEF InspectorInv, Tell, Into, recorderVars
<1> HIDE DEF r
<1>4. \A y \in Exchanges : exchange'[y].at = exchange[y].at /\ exchange'[y].id = exchange[y].id
                           /\ DOMAIN exchange'[y] = DOMAIN exchange[y]
  BY <1>1, <1>2, <1>3, Zenon
<1>5. \A y \in Exchanges : ExchangeOK(exchange[y], nextID)'
  BY <1>3, <1>4, Zenon DEF InspectorInv, ExchangeOK
<1>6. ASSUME NEW v \in Viewers \ {w} PROVE Coming(v)' = Coming(v)
  <2>1. Telling(v)' = Telling(v)
    BY <1>1, <1>2, <1>3, <1>4, Zenon DEF Telling
  <2>2. \A y \in Telling(v) : exchange'[y].id = exchange[y].id
    BY <1>4, Zenon DEF Telling
  <2> QED BY <2>1, <2>2, Zenon DEF Coming
<1>7. Coming(w)' = Coming(w) \ {id} /\ id \in Coming(w)
  <2>1. Telling(w)' = Telling(w) \ {x} /\ x \in Telling(w)
    BY <1>1, <1>2, <1>3, <1>4, Zenon DEF Telling
  <2>2. \A y \in Telling(w) : exchange[y].id = id => y = x
    BY <1>1, Zenon DEF InspectorInv, Telling
  <2>3. \A y \in Telling(w) : exchange'[y].id = exchange[y].id
    BY <1>4 DEF Telling
  <2> QED BY <2>1, <2>2, <2>3 DEF Coming
<1>8. ViewerOK(w) /\ DOMAIN channel = Viewers /\ DOMAIN missed = Viewers /\ DOMAIN news = Viewers
  BY Zenon DEF InspectorInv
<1>9. id \in news[w] /\ id \notin Range(channel[w].queue) /\ id \notin missed[w]
  BY <1>7, <1>8, Zenon DEF ViewerOK
<1>10. \A y, z \in Exchanges :
         exchange'[y].at = "tell" /\ exchange'[z].at = "tell" /\ exchange'[y].id = exchange'[z].id => y = z
  BY <1>4, Zenon DEF InspectorInv
<1>11. CASE Len(channel[w].queue) < ChannelSize
  <2>1. missed' = missed /\ channel' = [channel EXCEPT ![w].queue = Append(channel[w].queue, id)]
    BY <1>11 DEF Tell
  <2>2. /\ DOMAIN channel' = Viewers /\ \A v \in Viewers \ {w} : channel'[v] = channel[v]
        /\ DOMAIN channel'[w] = {"on", "queue"} /\ channel'[w].queue = Append(channel[w].queue, id)
    BY <1>8, <2>1 DEF ViewerOK
  <2>3. channel[w].queue \in Seq(1..nextID) /\ IsInjective(channel[w].queue)
    BY <1>8, Zenon DEF ViewerOK
  <2>4. /\ channel'[w].queue \in Seq(1..nextID) /\ IsInjective(channel'[w].queue)
        /\ Range(channel'[w].queue) = Range(channel[w].queue) \cup {id}
    <3> DEFINE q == channel[w].queue
               S == 1..nextID
    <3>1. q \in Seq(S) /\ id \in S /\ IsInjective(q) /\ id \notin Range(q)
      BY <1>1, <1>9, <2>3, Zenon
    <3> HIDE DEF q, S, id
    <3>2. Append(q, id) \in Seq(S) /\ IsInjective(Append(q, id)) /\ Range(Append(q, id)) = Range(q) \cup {id}
      BY <3>1, Appended
    <3> QED BY <2>2, <3>2, Zenon DEF q, S
  <2>5. ViewerOK(w)'
    <3>1. news'[w] = Range(channel'[w].queue) \cup Coming(w)' \cup missed'[w]
      BY <1>3, <1>7, <1>8, <2>1, <2>4 DEF ViewerOK
    <3>2. /\ Range(channel'[w].queue) \cap missed'[w] = {}
          /\ Coming(w)' \cap (Range(channel'[w].queue) \cup missed'[w]) = {}
      BY <1>7, <1>8, <1>9, <2>1, <2>4 DEF ViewerOK
    <3>3. missed'[w] \subseteq 1..nextID
      BY <1>8, <2>1 DEF ViewerOK
    <3> QED BY <1>3, <2>2, <2>4, <3>1, <3>2, <3>3, Zenon DEF ViewerOK
  <2>6. \A v \in Viewers \ {w} : ViewerOK(v)'
    BY <1>3, <1>6, <2>1, <2>2 DEF InspectorInv, ViewerOK
  <2>7. /\ nextID' \in Nat /\ DOMAIN exchange' = Exchanges /\ DOMAIN news' = Viewers
        /\ DOMAIN channel' = Viewers /\ DOMAIN missed' = Viewers
    BY <1>3, <1>8, <2>1, <2>2
  <2>8. \A v \in Viewers : ViewerOK(v)'
    BY <2>5, <2>6
  <2> QED BY <1>5, <1>10, <2>7, <2>8, Zenon DEF InspectorInv
<1>12. CASE ~(Len(channel[w].queue) < ChannelSize)
  <2>1. channel' = channel /\ missed' = [missed EXCEPT ![w] = missed[w] \cup {id}]
    BY <1>12 DEF Tell
  <2>2. /\ DOMAIN missed' = Viewers /\ missed'[w] = missed[w] \cup {id}
        /\ \A v \in Viewers \ {w} : missed'[v] = missed[v]
    BY <1>8, <2>1, Zenon
  <2>3. ViewerOK(w)'
    <3>1. /\ news[w] = Range(channel[w].queue) \cup Coming(w) \cup missed[w]
          /\ Range(channel[w].queue) \cap missed[w] = {} /\ missed[w] \subseteq 1..nextID
          /\ Coming(w) \cap (Range(channel[w].queue) \cup missed[w]) = {}
      BY <1>8, Zenon DEF ViewerOK
    <3>2. /\ news[w] = Range(channel[w].queue) \cup Coming(w)' \cup missed'[w]
          /\ Range(channel[w].queue) \cap missed'[w] = {} /\ missed'[w] \subseteq 1..nextID
          /\ Coming(w)' \cap (Range(channel[w].queue) \cup missed'[w]) = {}
      <4>1. missed'[w] \subseteq 1..nextID
        BY <1>1, <2>2, <3>1
      <4> DEFINE N == news[w]
                 Q == Range(channel[w].queue)
                 C == Coming(w)
                 M == missed[w]
      <4>2. id \in C /\ N = Q \cup C \cup M /\ Q \cap M = {} /\ C \cap (Q \cup M) = {}
        BY <1>7, <3>1, Zenon
      <4>3. missed'[w] = M \cup {id} /\ Coming(w)' = C \ {id}
        BY <1>7, <2>2, Zenon
      <4> HIDE DEF N, Q, C, M
      <4>4. /\ N = Q \cup (C \ {id}) \cup (M \cup {id}) /\ Q \cap (M \cup {id}) = {}
            /\ (C \ {id}) \cap (Q \cup (M \cup {id})) = {}
        BY <4>2, OneMissed
      <4> QED BY <4>1, <4>3, <4>4, Zenon DEF N, Q
    <3> QED BY <1>3, <1>8, <2>1, <3>2, Zenon DEF ViewerOK
  <2>4. \A v \in Viewers \ {w} : ViewerOK(v)'
    BY <1>3, <1>6, <2>1, <2>2, Zenon DEF InspectorInv, ViewerOK
  <2>5. /\ nextID' \in Nat /\ DOMAIN exchange' = Exchanges /\ DOMAIN news' = Viewers
        /\ DOMAIN channel' = Viewers /\ DOMAIN missed' = Viewers
    BY <1>3, <1>8, <2>1, <2>2, Zenon
  <2>6. \A v \in Viewers : ViewerOK(v)'
    BY <2>3, <2>4
  <2> QED BY <1>5, <1>10, <2>5, <2>6, Zenon DEF InspectorInv
<1> QED BY <1>11, <1>12

\* The steps of the viewers' side: the exchanges keep their entries.
LEMMA ViewerMoves ==
  ASSUME InspectorInv, NEW w \in Viewers, Subscribe(w) \/ Unsubscribe(w) \/ Receive(w)
  PROVE  InspectorInv'
<1>1. /\ nextID' = nextID /\ DOMAIN channel = Viewers /\ DOMAIN news = Viewers /\ DOMAIN missed = Viewers
      /\ ViewerOK(w)
  BY DEF InspectorInv, Subscribe, Unsubscribe, Receive, recorderVars
<1>2. ASSUME \A v \in Viewers \ {w} : /\ channel'[v] = channel[v] /\ news'[v] = news[v]
                                      /\ missed'[v] = missed[v] /\ Coming(v)' = Coming(v)
      PROVE  \A v \in Viewers \ {w} : ViewerOK(v)'
  BY <1>1, <1>2, Zenon DEF InspectorInv, ViewerOK
<1>3. CASE Subscribe(w)
  <2>1. exchange' = [x \in Exchanges |-> [exchange[x] EXCEPT !.tell = @ \ {w}]]
    BY <1>3 DEF Subscribe
  <2>2. \A x \in Exchanges : /\ exchange'[x].at = exchange[x].at /\ exchange'[x].id = exchange[x].id
                             /\ DOMAIN exchange'[x] = DOMAIN exchange[x]
                             /\ exchange'[x].tell = exchange[x].tell \ {w}
    BY <2>1 DEF InspectorInv, ExchangeOK, NoExchange
  <2>3. \A v \in Viewers : Telling(v)' = IF v = w THEN {} ELSE Telling(v)
    BY <2>2, Zenon DEF Telling
  <2>4. \A v \in Viewers : Coming(v)' = IF v = w THEN {} ELSE Coming(v)
    <3>1. \A v \in Viewers : \A x \in Telling(v) : exchange'[x].id = exchange[x].id
      BY <2>2, Zenon DEF Telling
    <3>2. Coming(w)' = {}
      BY <2>3, Zenon DEF Coming
    <3>3. \A v \in Viewers \ {w} : Coming(v)' = Coming(v)
      BY <2>3, <3>1, ComingSame
    <3> QED BY <3>2, <3>3
  <2>5. /\ channel' = [channel EXCEPT ![w] = [on |-> TRUE, queue |-> << >>]]
        /\ missed' = [missed EXCEPT ![w] = {}] /\ news' = [news EXCEPT ![w] = {}]
    BY <1>3 DEF Subscribe
  <2>6. IsInjective(<< >>) /\ Range(<< >>) = {} /\ << >> \in Seq(1..nextID)
    BY DEF IsInjective, Range
  <2>7. ViewerOK(w)'
    BY <1>1, <2>4, <2>5, <2>6, Zenon DEF ViewerOK
  <2>8. \A v \in Viewers \ {w} : ViewerOK(v)'
    BY <1>1, <1>2, <2>4, <2>5, Zenon
  <2>9. \A x \in Exchanges : ExchangeOK(exchange[x], nextID)'
    BY <1>1, <2>2, Zenon DEF InspectorInv, ExchangeOK
  <2>10. DOMAIN channel' = Viewers /\ DOMAIN news' = Viewers /\ DOMAIN missed' = Viewers
         /\ DOMAIN exchange' = Exchanges
    BY <1>1, <2>1, <2>5
  <2> QED BY <1>1, <2>2, <2>7, <2>8, <2>9, <2>10, Zenon DEF InspectorInv
<1>4. CASE Unsubscribe(w)
  <2>1. /\ exchange' = exchange /\ news' = news /\ missed' = missed
        /\ channel' = [channel EXCEPT ![w].on = FALSE]
    BY <1>4 DEF Unsubscribe
  <2>2. \A v \in Viewers : Coming(v)' = Coming(v)
    BY <2>1 DEF Coming, Telling
  <2>3. DOMAIN channel'[w] = {"on", "queue"} /\ channel'[w].queue = channel[w].queue
    BY <1>1, <2>1 DEF ViewerOK
  <2>4. ViewerOK(w)'
    BY <1>1, <2>1, <2>2, <2>3 DEF ViewerOK
  <2>5. \A v \in Viewers \ {w} : ViewerOK(v)'
    BY <1>1, <1>2, <2>1, <2>2
  <2> QED BY <1>1, <2>1, <2>4, <2>5 DEF InspectorInv
<1>5. CASE Receive(w)
  <2>1. /\ exchange' = exchange /\ missed' = missed /\ channel[w].queue # << >>
        /\ channel' = [channel EXCEPT ![w].queue = Tail(channel[w].queue)]
        /\ news' = [news EXCEPT ![w] = news[w] \ {Head(channel[w].queue)}]
    BY <1>5 DEF Receive
  <2>2. \A v \in Viewers : Coming(v)' = Coming(v)
    BY <2>1 DEF Coming, Telling
  <2>3. DOMAIN channel'[w] = {"on", "queue"} /\ channel'[w].queue = Tail(channel[w].queue)
    BY <1>1, <2>1 DEF ViewerOK
  <2>4. channel[w].queue \in Seq(1..nextID) /\ IsInjective(channel[w].queue)
    BY <1>1, Zenon DEF ViewerOK
  <2>5. /\ channel'[w].queue \in Seq(1..nextID) /\ IsInjective(channel'[w].queue)
        /\ Range(channel'[w].queue) = Range(channel[w].queue) \ {Head(channel[w].queue)}
    BY <2>1, <2>3, <2>4, TailOf, Zenon
  <2>6. Head(channel[w].queue) \in Range(channel[w].queue)
    BY <2>1, <2>4 DEF Range
  <2>7. ViewerOK(w)'
    BY <1>1, <2>1, <2>2, <2>3, <2>5, <2>6 DEF ViewerOK
  <2>8. \A v \in Viewers \ {w} : ViewerOK(v)'
    BY <1>1, <1>2, <2>1, <2>2
  <2> QED BY <1>1, <2>1, <2>7, <2>8 DEF InspectorInv
<1> QED BY <1>3, <1>4, <1>5

LEMMA InspectorStep ==
  ASSUME InspectorInv, [InspectorNext]_inspectorVars
  PROVE  InspectorInv'
<1>1. CASE UNCHANGED inspectorVars
  <2>1. UNCHANGED <<nextID, exchange, channel, news, missed>>
    BY <1>1, Zenon DEF inspectorVars, recorderVars, viewerVars
  <2>2. \A v \in Viewers : Coming(v)' = Coming(v)
    BY <2>1 DEF Coming, Telling
  <2>3. \A v \in Viewers : ViewerOK(v)'
    BY <2>1, <2>2, Zenon DEF InspectorInv, ViewerOK
  <2> QED BY <2>1, <2>3, Zenon DEF InspectorInv
<1>2. CASE InspectorNext
  BY <1>2, ServingQuiet, AddTells, TellMoves, ViewerMoves, Zenon DEF InspectorNext, Recording
<1> QED BY <1>1, <1>2

LEMMA InspectorInitInv == InspectorInit => InspectorInv
<1> SUFFICES ASSUME InspectorInit PROVE InspectorInv
  OBVIOUS
<1>1. \A v \in Viewers : Telling(v) = {}
  BY DEF InspectorInit, NoExchange, Telling
<1>2. \A v \in Viewers : Coming(v) = {}
  BY <1>1 DEF Coming
<1>3. IsInjective(<< >>) /\ Range(<< >>) = {} /\ << >> \in Seq(1..nextID)
  BY DEF IsInjective, Range
<1>4. \A v \in Viewers : ViewerOK(v)
  BY <1>2, <1>3, Zenon DEF InspectorInit, NoChannel, ViewerOK
<1>5. \A x \in Exchanges : ExchangeOK(exchange[x], nextID) /\ exchange[x].at # "tell"
  BY Zenon DEF InspectorInit, ExchangeOK, NoExchange
<1> QED BY <1>4, <1>5, Zenon DEF InspectorInit, InspectorInv

\* A viewer misses no request but at a full channel, however exchanges, replays and
\* other viewers interleave between an entry and the sends that tell of it (add,
\* subscribe).
THEOREM ViewersAreTold == InspectorSpec => []ViewersTold
<1>1. InspectorInv => ViewersTold
  BY Zenon DEF InspectorInv, ViewerOK, Coming, Telling, ViewersTold
<1> QED BY <1>1, InspectorInitInv, InspectorStep, PTL DEF InspectorSpec

=============================================================================
