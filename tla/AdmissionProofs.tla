-------------------------- MODULE AdmissionProofs ---------------------------
(***************************************************************************)
(* Theorems about who gets through to a tunnel, for every set of relays,   *)
(* addresses, IP lists, emails and rules, and any number of moves, delays  *)
(* and restarts: a connection that is joined passed every check on its way *)
(* (PublicPath), a request is served as a user the provider verified and   *)
(* the rule allows (SignIn), a tunnel is given the public port that is     *)
(* reserved for it (PortKeeper), and the limiter is a token bucket per     *)
(* address that no address overdraws (RateLimit).                          *)
(***************************************************************************)
EXTENDS PublicPath, SignIn, PortKeeper, RateLimit, WellFoundedInduction, TLAPS

(* The login.                                                              *)

\* The values the login and the session carry from step to step.
SignInTypeOK ==
    /\ code \in [id : Nat, email : Emails \cup {"nobody"}, live : BOOLEAN]
    /\ cookie \in [email : Emails \cup {"nobody"}, live : BOOLEAN]
    /\ codes \in Nat

\* The inductive invariant: each value on the way from the provider to the request
\* names an email that was verified; and, since a change of the rule ends the
\* requests under way, who is served is allowed now.
SignInInv ==
    /\ SignInTypeOK
    /\ code.email # "nobody" => code.email \in verified
    /\ cookie.email # "nobody" => cookie.email \in verified
    /\ ServedAsVerified

LEMMA SignInInitInv == SignInInit => SignInInv
<1> SUFFICES ASSUME SignInInit PROVE SignInInv
  OBVIOUS
<1>1. SignInTypeOK
  BY DEF SignInInit, SignInTypeOK, NoCode, NoCookie
<1> QED BY <1>1 DEF SignInInit, SignInInv, ServedAsVerified, NoCode, NoCookie

LEMMA SignInStep ==
    ASSUME SignInInv, [SignInNext]_signInVars
    PROVE  SignInInv'
<1> USE DEF SignInInv, SignInTypeOK, ServedAsVerified
<1>1. CASE Authorize
  BY <1>1 DEF Authorize, RuleAllows
<1>2. CASE FinishLogin
  BY <1>2 DEF FinishLogin
<1>3. CASE UseCode
  <2>1. /\ cookie' \in {cookie, [email |-> code.email, live |-> TRUE]}
        /\ UNCHANGED <<rule, code, user, verified, codes>>
    BY <1>3 DEF UseCode
  <2>2. CASE cookie' = cookie
    BY <2>1, <2>2
  <2>3. CASE cookie' = [email |-> code.email, live |-> TRUE]
    BY <2>1, <2>3
  <2> QED BY <2>1, <2>2, <2>3
<1>4. CASE Login
  BY <1>4 DEF Login
<1>5. CASE Callback
  <2>1. /\ \/ code' = NoCode /\ UNCHANGED codes
           \/ /\ code' = [id |-> codes + 1, email |-> code.email, live |-> TRUE]
              /\ codes' = codes + 1
        /\ UNCHANGED <<rule, cookie, user, verified>>
    BY <1>5 DEF Callback
  <2>2. CASE code' = NoCode /\ UNCHANGED codes
    BY <2>1, <2>2 DEF NoCode
  <2>3. CASE /\ code' = [id |-> codes + 1, email |-> code.email, live |-> TRUE]
             /\ codes' = codes + 1
    BY <2>1, <2>3
  <2> QED BY <2>1, <2>2, <2>3
<1>6. ASSUME NEW e \in Emails \cup {"nobody"}, ProviderAnswers(e)
      PROVE  SignInInv'
  <2>1. code' = [id |-> 0, email |-> e, live |-> FALSE]
    BY <1>6, Zenon DEF ProviderAnswers, NoCode
  <2>2. verified \subseteq verified' /\ (e # "nobody" => e \in verified')
    BY <1>6 DEF ProviderAnswers
  <2>3. UNCHANGED <<rule, cookie, user, codes>>
    BY <1>6 DEF ProviderAnswers
  <2> QED BY <2>1, <2>2, <2>3
<1>7. CASE Slow
  <2>1. /\ code' \in [id : Nat, email : Emails \cup {"nobody"}, live : BOOLEAN]
        /\ code'.email = code.email
    BY <1>7, Zenon DEF Slow
  <2>2. cookie' \in {cookie, NoCookie} /\ UNCHANGED <<rule, user, verified, codes>>
    BY <1>7 DEF Slow
  <2>3. CASE cookie' = cookie
    BY <2>1, <2>2, <2>3
  <2>4. CASE cookie' = NoCookie
    BY <2>1, <2>2, <2>4 DEF NoCookie
  <2> QED BY <2>2, <2>3, <2>4
<1>8. CASE ProviderChanges
  BY <1>8 DEF ProviderChanges
<1>9. CASE RelayRestarts
  BY <1>9 DEF RelayRestarts
<1>10. CASE StartOver
  BY <1>10 DEF StartOver
<1>11. ASSUME NEW r \in Rules, RuleChanges(r)
       PROVE  SignInInv'
  BY <1>11 DEF RuleChanges
<1>12. CASE UNCHANGED signInVars
  BY <1>12 DEF signInVars
<1> QED BY <1>1, <1>2, <1>3, <1>4, <1>5, <1>6, <1>7, <1>8, <1>9, <1>10, <1>11, <1>12, Zenon DEF SignInNext

\* Whatever expires, restarts or changes during a login, a request is only served as
\* a user whom the provider verified and whom the rule, as it is now, allows
\* (Authorize and finishLogin in oidc/service.go).
THEOREM ServedVerified == SignInSpec => []ServedAsVerified
<1>1. SignInInv => ServedAsVerified
  BY DEF SignInInv
<1> QED BY SignInInitInv, SignInStep, <1>1, PTL DEF SignInSpec

-----------------------------------------------------------------------------
(* The public connection.                                                  *)

\* Where a connection can be, and what is known of it there.
Stages == {"none", "edge", "pooled", "relay", "stream", "listener", "gateway",
           "token", "http", "open", "joined"}
Visit == [at : Stages, via : Vias, ip : Addresses \cup {ClusterAddr},
          seen : Addresses \cup {ClusterAddr}, host : Hosts, entitled : BOOLEAN,
          relay : Relays \cup {None}, hops : {0, 1}, inst : Nat]

TablesOK ==
    /\ home \in Relays \cup {None} /\ inst \in Nat
    /\ view \in [Nodes -> Relays \cup {None}]

PathTypeOK == TablesOK /\ visit \in Visit

\* How the connection came in, and what the edge asked of it on the way.
WayIn ==
    /\ visit.seen = visit.ip
    /\ visit.at \in {"edge", "none", "pooled"} \/ visit.via \notin {"edge", "port"}
         \/ visit.ip \notin EdgeDenyIPs
    /\ visit.via \in {"port", "listener"} => HasPublicPort /\ ~RequiresToken
    /\ visit.via \in {"port", "listener", "gateway"} => visit.host = "tunnel"
    /\ visit.at = "gateway" => visit.via = "gateway"
    /\ visit.at = "listener" => visit.via = "listener"
    /\ visit.at \in {"relay", "stream", "gateway"} => visit.relay \in Relays

\* The stream port takes connections of public ports, and of gateways that saw the grant.
OnStream ==
    visit.at = "stream" =>
      /\ visit.via \in {"port", "gateway"}
      /\ RequiresToken => visit.entitled

\* What the relay that has the tunnel asked before it opens a stream to the agent.
Admitted ==
    /\ visit.at \in {"token", "open", "joined"} => AllowsIP(visit.ip) /\ visit.host = "tunnel"
    /\ visit.at = "token" => ~RequiresLogin
    /\ visit.at \in {"open", "joined"} =>
         (RequiresToken \/ (RequiresLogin /\ visit.via # "gateway") => visit.entitled)
    /\ visit.at = "joined" => visit.inst = inst /\ visit.relay = home

\* The inductive invariant.
PathInv ==
    /\ PathTypeOK /\ ValidateSpecAccess(typ, asks)
    /\ WayIn /\ OnStream /\ Admitted

\* A connection that is turned away leaves nothing behind.
LEMMA TurnedAwayInv ==
    ASSUME PathInv, visit' = NoVisit, UNCHANGED <<typ, asks>>, TablesOK'
    PROVE  PathInv'
<1>1. NoVisit \in Visit
  BY DEF Visit, NoVisit, Stages, Vias, Hosts
<1>2. WayIn' /\ OnStream' /\ Admitted'
  BY DEF NoVisit, WayIn, OnStream, Admitted
<1> QED BY <1>1, <1>2 DEF PathInv, PathTypeOK, ValidateSpecAccess

\* From stage to stage the client, and what it asked for, stay.
SameClient ==
    /\ visit' \in Visit /\ visit'.via = visit.via /\ visit'.ip = visit.ip
    /\ visit'.seen = visit.seen /\ visit'.host = visit.host /\ visit'.entitled = visit.entitled

\* What the step to a stage has to have asked.
Checked ==
    /\ visit'.at \in {"pooled", "relay", "stream", "token", "http", "open", "joined"}
    /\ visit.at \notin {"none", "pooled"}
    /\ visit'.at \in {"relay", "stream"} => visit'.relay \in Relays
    /\ visit.at = "edge" /\ visit'.at # "pooled" => visit.ip \notin EdgeDenyIPs
    /\ visit'.at = "stream" => visit.via \in {"port", "gateway"} /\ (RequiresToken => visit.entitled)
    /\ visit'.at \in {"token", "open", "joined"} => AllowsIP(visit.ip) /\ visit.host = "tunnel"
    /\ visit'.at = "token" => ~RequiresLogin
    /\ visit'.at \in {"open", "joined"} =>
         (RequiresToken \/ (RequiresLogin /\ visit.via # "gateway") => visit.entitled)
    /\ visit'.at = "joined" => visit'.inst = inst' /\ visit'.relay = home'

LEMMA CheckedInv ==
    ASSUME PathInv, SameClient, Checked, UNCHANGED <<typ, asks>>, TablesOK'
    PROVE  PathInv'
<1> USE DEF PathInv, SameClient, Checked
<1>1. WayIn'
  BY DEF WayIn, HasPublicPort, RequiresToken
<1>2. OnStream'
  BY DEF OnStream, RequiresToken
<1>3. Admitted'
  BY DEF Admitted, RequiresToken, RequiresLogin, AllowsIP
<1> QED BY <1>1, <1>2, <1>3 DEF PathTypeOK, ValidateSpecAccess

\* The operators that move a connection on.
LEMMA GoToStage ==
    ASSUME PathInv, NEW at \in Stages, GoTo(at)
    PROVE  SameClient /\ visit'.at = at /\ visit'.relay = visit.relay /\ visit'.inst = visit.inst
  BY DEF PathInv, PathTypeOK, Visit, SameClient, GoTo

LEMMA AcceptedStage ==
    ASSUME PathInv, NEW at \in Stages, visit' = [visit EXCEPT !.at = at, !.inst = inst]
    PROVE  SameClient /\ visit'.at = at
  BY Zenon DEF PathInv, PathTypeOK, TablesOK, Visit, SameClient

LEMMA HeaderStage ==
    ASSUME PathInv, NEW at \in Stages, NEW r \in Relays,
           \/ visit' = ProxyHeader(at, r, visit.seen)
           \/ visit' = [ProxyHeader(at, r, visit.seen) EXCEPT !.hops = 1]
    PROVE  SameClient /\ visit'.at = at /\ visit'.relay = r
<1>1. visit \in Visit
  BY DEF PathInv, PathTypeOK
<1>2. CASE visit' = ProxyHeader(at, r, visit.seen)
  BY <1>1, <1>2, Zenon DEF Visit, SameClient, ProxyHeader
<1>3. CASE visit' = [ProxyHeader(at, r, visit.seen) EXCEPT !.hops = 1]
  BY <1>1, <1>3, Zenon DEF Visit, SameClient, ProxyHeader
<1> QED BY <1>2, <1>3

\* The tables, and the tunnel's place, may change under a connection that isn't joined.
LEMMA SameVisitInv ==
    ASSUME PathInv, visit' = visit, UNCHANGED <<typ, asks>>, TablesOK',
           visit.at = "joined" => UNCHANGED <<home, inst>>
    PROVE  PathInv'
<1>1. WayIn'
  BY DEF PathInv, WayIn, HasPublicPort, RequiresToken
<1>2. OnStream'
  BY DEF PathInv, OnStream, RequiresToken
<1>3. Admitted'
  BY DEF PathInv, Admitted, RequiresToken, RequiresLogin, AllowsIP
<1> QED BY <1>1, <1>2, <1>3 DEF PathInv, PathTypeOK, ValidateSpecAccess

LEMMA PathStep ==
    ASSUME PathInv, [PathNext]_pathVars
    PROVE  PathInv'
<1>0. TablesOK /\ visit \in Visit /\ visit.seen = visit.ip
  BY DEF PathInv, PathTypeOK, WayIn
<1>a. Still => UNCHANGED <<typ, asks>> /\ TablesOK'
  BY <1>0 DEF Still, TablesOK
<1>1. CASE EdgeServes
  <2>1. CASE visit.host = "site"
    <3>1. GoTo("pooled")
      BY <1>1, <2>1 DEF EdgeServes
    <3>2. Checked
      BY <1>1, <3>1, GoToStage DEF EdgeServes, Checked, Stages
    <3> QED BY <1>1, <1>a, <3>1, <3>2, GoToStage, CheckedInv DEF EdgeServes, Stages
  <2>2. CASE visit.host # "site" /\ visit.ip \in EdgeDenyIPs
    BY <1>a, <1>1, <2>2, TurnedAwayInv DEF EdgeServes, TurnedAway
  <2>3. CASE visit.host # "site" /\ visit.ip \notin EdgeDenyIPs
    <3>1. PICK r \in Resolve(visit.host) : visit' = ProxyHeader("relay", r, visit.ip)
      BY <1>1, <2>3 DEF EdgeServes
    <3>2. r \in Relays
      BY <1>0 DEF TablesOK, Resolve, RelayPick, Nodes
    <3>3. SameClient /\ visit'.at = "relay" /\ visit'.relay \in Relays
      BY <1>0, <3>1, <3>2, HeaderStage, Zenon DEF Stages
    <3>4. Checked
      BY <1>1, <2>3, <3>3 DEF EdgeServes, Checked
    <3> QED BY <1>1, <1>a, <3>3, <3>4, CheckedInv DEF EdgeServes
  <2> QED BY <2>1, <2>2, <2>3
<1>2. CASE EdgeStreams
  <2>1. CASE view["edge"] = None \/ visit.ip \in EdgeDenyIPs
    BY <1>a, <1>2, <2>1, TurnedAwayInv DEF EdgeStreams, TurnedAway
  <2>2. CASE ~(view["edge"] = None \/ visit.ip \in EdgeDenyIPs)
    <3>1. view["edge"] \in Relays
      BY <1>0, <2>2 DEF TablesOK, Nodes
    <3>2. SameClient /\ visit'.at = "stream" /\ visit'.relay \in Relays
      BY <1>0, <1>2, <2>2, <3>1, HeaderStage DEF EdgeStreams, Stages
    <3>3. Checked
      BY <1>2, <2>2, <3>2 DEF EdgeStreams, Checked, PathInv, WayIn
    <3> QED BY <1>2, <1>a, <3>2, <3>3, CheckedInv DEF EdgeStreams
  <2> QED BY <2>1, <2>2
<1>3. CASE ServeLocal
  <2>1. UNCHANGED <<typ, asks>> /\ TablesOK' /\ visit.at = "relay" /\ visit.host = "tunnel"
    BY <1>0, <1>3 DEF ServeLocal, Elsewhere, TablesOK
  <2>2. CASE typ = "HTTP"
    <3>1. GoTo("http")
      BY <1>3, <2>2 DEF ServeLocal
    <3>2. SameClient /\ visit'.at = "http"
      BY <3>1, GoToStage DEF Stages
    <3>3. Checked
      BY <2>1, <3>2 DEF Checked
    <3> QED BY <2>1, <3>2, <3>3, CheckedInv
  <2>3. CASE typ # "HTTP" /\ ~AllowsIP(visit.seen)
    BY <1>3, <2>1, <2>3, TurnedAwayInv DEF ServeLocal, TurnedAway
  <2>4. CASE typ # "HTTP" /\ AllowsIP(visit.seen)
    <3> DEFINE at == IF RequiresToken THEN "token" ELSE "open"
    <3>1. visit' = [visit EXCEPT !.at = at, !.inst = inst]
      BY <1>3, <2>4 DEF ServeLocal
    <3>2. SameClient /\ visit'.at = at
      BY <3>1, AcceptedStage, Zenon DEF Stages
    <3>3. ~RequiresLogin
      BY <2>4 DEF PathInv, ValidateSpecAccess, RequiresLogin
    <3>4. Checked
      BY <1>0, <2>1, <2>4, <3>2, <3>3 DEF Checked
    <3> QED BY <2>1, <3>2, <3>4, CheckedInv
  <2> QED BY <2>2, <2>3, <2>4
<1>4. CASE ServeTokenTunnel
  <2>1. UNCHANGED <<typ, asks>> /\ TablesOK' /\ visit.at = "token"
    BY <1>a, <1>4 DEF ServeTokenTunnel
  <2>2. CASE visit.entitled
    <3>1. SameClient /\ visit'.at = "open"
      BY <1>4, <2>2, GoToStage DEF ServeTokenTunnel, Stages
    <3>2. Checked
      BY <2>1, <2>2, <3>1 DEF Checked, PathInv, Admitted
    <3> QED BY <2>1, <3>1, <3>2, CheckedInv
  <2>3. CASE ~visit.entitled
    BY <1>4, <2>1, <2>3, TurnedAwayInv DEF ServeTokenTunnel, TurnedAway
  <2> QED BY <2>2, <2>3
<1>5. CASE ForwardToOwner
  <2>1. visit.at = "relay" /\ UNCHANGED <<typ, asks, home, inst>>
    BY <1>5 DEF ForwardToOwner, Elsewhere
  <2>2. PICK fresh \in BOOLEAN :
          LET owner == OwnerOf(visit.relay, fresh)
          IN /\ view' = [view EXCEPT ![visit.relay] = owner]
             /\ \/ owner # None /\ visit' = [ProxyHeader("relay", owner, visit.seen) EXCEPT !.hops = 1]
                \/ GoTo("http") \/ TurnedAway
    BY <1>5, Zenon DEF ForwardToOwner
  <2>3. OwnerOf(visit.relay, fresh) \in Relays \cup {None}
    BY <1>0, <2>1 DEF OwnerOf, TablesOK, Nodes, PathInv, WayIn
  <2>4. TablesOK'
    BY <1>0, <2>1, <2>2, <2>3, Zenon DEF TablesOK
  <2>5. CASE /\ OwnerOf(visit.relay, fresh) # None
             /\ visit' = [ProxyHeader("relay", OwnerOf(visit.relay, fresh), visit.seen) EXCEPT !.hops = 1]
    <3>1. SameClient /\ visit'.at = "relay" /\ visit'.relay \in Relays
      BY <2>3, <2>5, HeaderStage DEF Stages
    <3>2. Checked
      BY <2>1, <3>1 DEF Checked
    <3> QED BY <2>1, <2>4, <3>1, <3>2, CheckedInv, Zenon
  <2>6. CASE GoTo("http")
    <3>1. SameClient /\ visit'.at = "http"
      BY <2>6, GoToStage DEF Stages
    <3>2. Checked
      BY <2>1, <3>1 DEF Checked
    <3> QED BY <2>1, <2>4, <3>1, <3>2, CheckedInv
  <2>7. CASE TurnedAway
    BY <2>1, <2>4, <2>7, TurnedAwayInv DEF TurnedAway
  <2> QED BY <2>2, <2>5, <2>6, <2>7
<1>6. CASE ServeOther
  <2>1. UNCHANGED <<typ, asks>> /\ TablesOK' /\ visit.at = "relay"
    BY <1>0, <1>6 DEF ServeOther, Elsewhere, TablesOK
  <2>2. CASE visit.host = "other"
    <3>1. SameClient /\ visit'.at = "http"
      BY <1>6, <2>2, GoToStage DEF ServeOther, Stages
    <3>2. Checked
      BY <2>1, <3>1 DEF Checked
    <3> QED BY <2>1, <3>1, <3>2, CheckedInv
  <2>3. CASE visit.host # "other"
    BY <1>6, <2>1, <2>3, TurnedAwayInv DEF ServeOther, TurnedAway
  <2> QED BY <2>2, <2>3
<1>7. CASE ServeStream
  <2>1. UNCHANGED <<typ, asks>> /\ TablesOK' /\ visit.at = "stream"
    BY <1>0, <1>7 DEF ServeStream, Elsewhere, TablesOK
  <2>2. CASE AllowsIP(visit.seen) /\ Accepted
    <3>1. SameClient /\ visit'.at = "open"
      BY <2>2, AcceptedStage DEF Accepted, Stages
    <3>2. visit.host = "tunnel" /\ visit.via \in {"port", "gateway"} /\ (RequiresToken => visit.entitled)
      BY <2>1 DEF PathInv, WayIn, OnStream
    <3>3. visit.via = "port" => ~RequiresLogin
      BY Zenon DEF PathInv, WayIn, ValidateSpecAccess, HasPublicPort, RequiresLogin
    <3>4. Checked
      BY <1>0, <2>1, <2>2, <3>1, <3>2, <3>3 DEF Checked
    <3> QED BY <2>1, <3>1, <3>4, CheckedInv
  <2>3. CASE TurnedAway
    BY <2>1, <2>3, TurnedAwayInv DEF TurnedAway
  <2> QED BY <1>7, <2>2, <2>3 DEF ServeStream, Admit
<1>8. CASE ServeListener
  <2>1. UNCHANGED <<typ, asks>> /\ TablesOK' /\ visit.at = "listener"
    BY <1>a, <1>8 DEF ServeListener
  <2>2. CASE AllowsIP(visit.seen) /\ Accepted
    <3>1. SameClient /\ visit'.at = "open"
      BY <2>2, AcceptedStage DEF Accepted, Stages
    <3>2. visit.host = "tunnel" /\ ~RequiresToken /\ ~RequiresLogin
      BY <2>1 DEF PathInv, WayIn, ValidateSpecAccess, HasPublicPort, RequiresLogin
    <3>3. Checked
      BY <1>0, <2>1, <2>2, <3>1, <3>2 DEF Checked
    <3> QED BY <2>1, <3>1, <3>3, CheckedInv
  <2>3. CASE TurnedAway
    BY <2>1, <2>3, TurnedAwayInv DEF TurnedAway
  <2> QED BY <1>8, <2>2, <2>3 DEF ServeListener, Admit
<1>9. CASE ServeGateway
  <2>1. visit.at = "gateway" /\ visit.via = "gateway" /\ visit.host = "tunnel"
        /\ UNCHANGED <<typ, asks, home, inst>>
    BY <1>9, Zenon DEF ServeGateway, Elsewhere, PathInv, WayIn
  <2>2. PICK fresh \in BOOLEAN :
          LET owner == OwnerOf(visit.relay, fresh)
          IN /\ view' \in {view, [view EXCEPT ![visit.relay] = owner]}
             /\ \/ KeyAllows(RequiresToken) /\ AllowsIP(visit.seen) /\ Accepted
                \/ /\ owner # None /\ KeyAllows(RequiresToken)
                   /\ visit' = ProxyHeader("stream", owner, visit.seen)
                \/ TurnedAway
    BY <1>9 DEF ServeGateway
  <2>3. OwnerOf(visit.relay, fresh) \in Relays \cup {None}
    BY <1>0, <2>1 DEF OwnerOf, TablesOK, Nodes, PathInv, WayIn
  <2>4. TablesOK'
    BY <1>0, <2>1, <2>2, <2>3, Zenon DEF TablesOK
  <2>5. CASE KeyAllows(RequiresToken) /\ AllowsIP(visit.seen) /\ Accepted
    <3>1. SameClient /\ visit'.at = "open"
      BY <2>5, AcceptedStage, Zenon DEF Accepted, Stages
    <3>2. Checked
      BY <1>0, <2>1, <2>5, <3>1 DEF Checked, KeyAllows
    <3> QED BY <2>1, <2>4, <3>1, <3>2, CheckedInv
  <2>6. CASE /\ OwnerOf(visit.relay, fresh) # None /\ KeyAllows(RequiresToken)
             /\ visit' = ProxyHeader("stream", OwnerOf(visit.relay, fresh), visit.seen)
    <3>1. SameClient /\ visit'.at = "stream" /\ visit'.relay \in Relays
      BY <2>3, <2>6, HeaderStage, Zenon DEF Stages
    <3>2. Checked
      BY <2>1, <2>6, <3>1 DEF Checked, KeyAllows
    <3> QED BY <2>1, <2>4, <3>1, <3>2, CheckedInv
  <2>7. CASE TurnedAway
    BY <2>1, <2>4, <2>7, TurnedAwayInv DEF TurnedAway
  <2> QED BY <2>2, <2>5, <2>6, <2>7, Zenon
<1>10. CASE OpenPublicStream \/ ProxyRequest
  <2>1. UNCHANGED <<typ, asks, home, inst>> /\ TablesOK' /\ visit.at = "open"
    BY <1>a, <1>10 DEF OpenPublicStream, ProxyRequest, Still
  <2>2. CASE SessionOpen /\ GoTo("joined")
    <3>1. SameClient /\ visit'.at = "joined" /\ visit'.relay = visit.relay /\ visit'.inst = visit.inst
      BY <2>2, GoToStage, Zenon DEF Stages
    <3>2. Checked
      BY <2>1, <2>2, <3>1 DEF Checked, SessionOpen, Here, PathInv, Admitted
    <3> QED BY <2>1, <3>1, <3>2, CheckedInv
  <2>3. CASE GoTo("http")
    <3>1. SameClient /\ visit'.at = "http"
      BY <2>3, GoToStage DEF Stages
    <3>2. Checked
      BY <2>1, <3>1 DEF Checked
    <3> QED BY <2>1, <3>1, <3>2, CheckedInv
  <2>4. CASE TurnedAway
    BY <2>1, <2>4, TurnedAwayInv DEF TurnedAway
  <2> QED BY <1>10, <2>2, <2>3, <2>4 DEF OpenPublicStream, ProxyRequest
<1>11. CASE Finish
  <2>1. UNCHANGED <<typ, asks>> /\ TablesOK'
    BY <1>a, <1>11 DEF Finish
  <2>2. CASE visit.at = "joined" /\ GoTo("http")
    <3>1. SameClient /\ visit'.at = "http"
      BY <2>2, GoToStage DEF Stages
    <3>2. Checked
      BY <2>2, <3>1 DEF Checked
    <3> QED BY <2>1, <3>1, <3>2, CheckedInv
  <2>3. CASE TurnedAway
    BY <2>1, <2>3, TurnedAwayInv DEF TurnedAway
  <2> QED BY <1>11, <2>2, <2>3 DEF Finish
<1>12. ASSUME NEW h \in {"tunnel", "other"}, Request(h)
       PROVE  PathInv'
  <2>1. UNCHANGED <<typ, asks, home, inst>> /\ TablesOK' /\ visit.at = "http"
    BY <1>a, <1>12 DEF Request, Still
  <2>2. CASE visit.host = "tunnel" /\ LookupHTTP /\ AuthorizeRequest /\ Accepted
    <3>1. SameClient /\ visit'.at = "open"
      BY <2>2, AcceptedStage DEF Accepted, Stages
    <3>2. ~RequiresToken
      BY <2>2, Zenon DEF LookupHTTP, PathInv, ValidateSpecAccess, RequiresToken
    <3>3. Checked
      BY <1>0, <2>1, <2>2, <3>1, <3>2 DEF Checked, AuthorizeRequest
    <3> QED BY <2>1, <3>1, <3>3, CheckedInv
  <2>3. CASE UNCHANGED visit
    BY <2>1, <2>3, SameVisitInv
  <2> QED BY <1>12, <2>2, <2>3 DEF Request
<1>13. ASSUME NEW via \in Vias, NEW a \in Addresses, NEW h \in Hosts, NEW e \in BOOLEAN,
              Connect(via, a, h, e)
       PROVE  PathInv'
  <2>1. UNCHANGED <<typ, asks>> /\ TablesOK'
    BY <1>a, <1>13 DEF Connect
  <2>2. PICK r \in Relays :
          visit' = [at |-> IF via \in {"edge", "port"} THEN "edge" ELSE via, via |-> via, ip |-> a,
                    seen |-> a, host |-> h, entitled |-> e,
                    relay |-> IF via \in {"edge", "port"} THEN None ELSE r, hops |-> 0, inst |-> 0]
    BY <1>13, Zenon DEF Connect, NoVisit
  <2>3. visit' \in Visit
    BY <2>2 DEF Visit, Stages, Vias
  <2>4. WayIn'
    BY <1>13, <2>1, <2>2, Zenon DEF WayIn, Connect, Vias, HasPublicPort, RequiresToken
  <2>5. OnStream' /\ Admitted'
    BY <2>2 DEF OnStream, Admitted, Vias
  <2> QED BY <2>1, <2>3, <2>4, <2>5 DEF PathInv, PathTypeOK, ValidateSpecAccess
<1>14. CASE Abandon
  BY <1>a, <1>14, TurnedAwayInv DEF Abandon, TurnedAway
<1>15. ASSUME NEW r \in Relays \cup {None}, TunnelMoves(r)
       PROVE  PathInv'
  <2>1. UNCHANGED <<typ, asks>> /\ TablesOK'
    BY <1>0, <1>15 DEF TunnelMoves, TablesOK
  <2>2. CASE visit.at # "joined"
    BY <1>15, <2>1, <2>2, SameVisitInv DEF TunnelMoves
  <2>3. CASE visit.at = "joined" /\ typ = "HTTP"
    <3>1. SameClient /\ visit'.at = "http"
      BY <1>15, <2>3, GoToStage DEF TunnelMoves, GoTo, Stages
    <3>2. Checked
      BY <2>3, <3>1 DEF Checked
    <3> QED BY <2>1, <3>1, <3>2, CheckedInv
  <2>4. CASE visit.at = "joined" /\ typ # "HTTP"
    BY <1>15, <2>1, <2>4, TurnedAwayInv DEF TunnelMoves
  <2> QED BY <2>2, <2>3, <2>4
<1>16. ASSUME NEW n \in Nodes, ViewRefresh(n)
       PROVE  PathInv'
  <2>1. UNCHANGED <<typ, asks, home, inst, visit>> /\ TablesOK'
    BY <1>0, <1>16 DEF ViewRefresh, TablesOK
  <2> QED BY <2>1, SameVisitInv
<1>17. CASE UNCHANGED pathVars
  <2>1. UNCHANGED <<typ, asks, home, inst, visit>> /\ TablesOK'
    BY <1>0, <1>17 DEF pathVars, TablesOK
  <2> QED BY <2>1, SameVisitInv
<1> QED BY <1>1, <1>2, <1>3, <1>4, <1>5, <1>6, <1>7, <1>8, <1>9, <1>10, <1>11, <1>12, <1>13,
           <1>14, <1>15, <1>16, <1>17, Zenon DEF PathNext

LEMMA PathInitInv == PathInit => PathInv
<1> SUFFICES ASSUME PathInit PROVE PathInv
  OBVIOUS
<1>1. TablesOK /\ NoVisit \in Visit
  BY Zenon DEF PathInit, TablesOK, NoVisit, Visit, Stages, Vias, Hosts
<1>2. WayIn /\ OnStream /\ Admitted
  BY DEF PathInit, NoVisit, WayIn, OnStream, Admitted
<1> QED BY <1>1, <1>2, Zenon DEF PathInit, PathInv, PathTypeOK

\* However the nodes' copies of the live tables disagree, no connection is forwarded
\* by two relays (forwardToOwner).
THEOREM ForwardedOnce == PathSpec => []OneForward
<1>1. PathInv => OneForward
  BY DEF PathInv, PathTypeOK, Visit, OneForward
<1> QED BY PathInitInv, PathStep, <1>1, PTL DEF PathSpec

\* Whatever way a connection came and however the tunnel moved meanwhile, once it is
\* joined to the tunnel its own address was allowed by every IP list on the way, it
\* showed what the tunnel asks for, and it is at the registration that asked
\* (serveConn, serveStream, gatewayChannel, ServeHTTP, openStream).
THEOREM JoinedChecked == PathSpec => []JoinedAsChecked
<1>1. PathInv => JoinedAsChecked
  BY DEF PathInv, WayIn, Admitted, JoinedAsChecked
<1> QED BY PathInitInv, PathStep, <1>1, PTL DEF PathSpec

-----------------------------------------------------------------------------
(* The ports.                                                              *)

\* A set of numbers that isn't empty has a least one.
LEMMA Least ==
  ASSUME NEW T \in SUBSET Nat, T # {}
  PROVE  \E x \in T : \A y \in T : x <= y
<1>1. PICK x \in T : \A y \in T : ~(<<y, x>> \in OpToRel(<, Nat))
  BY NatLessThanWellFounded, WFMin, Zenon
<1>2. \A y \in T : ~(y < x)
  BY <1>1, Zenon DEF OpToRel
<1>3. \A y \in T : x <= y
  BY <1>2
<1> QED BY <1>3

\* A port that port() answers is free of every other name's.
LEMMA AnswerFree ==
  ASSUME NEW n, NEW want, NEW prev, PortFor(n, want, prev) # 0
  PROVE  PortFor(n, want, prev) \in Ports /\ PortFree(n, PortFor(n, want, prev))
<1> DEFINE free == {p \in Ports : PortFree(n, p)}
           lowest == CHOOSE p \in free : \A q \in free : p <= q
<1>1. ASSUME free # {} PROVE lowest \in free
  <2>1. free \in SUBSET Nat
    BY PortConstants DEF Ports
  <2> HIDE DEF free
  <2>2. \E p \in free : \A q \in free : p <= q
    BY <1>1, <2>1, Least, Zenon
  <2> QED BY <2>2
<1>2. PortFor(n, want, prev) \in free
  <2> HIDE DEF free, lowest
  <2> QED BY <1>1, Zenon DEF PortFor, free, lowest
<1> QED BY <1>2

\* A name's reserved port is what port() answers, if anything, unless the agent asks
\* for another.
LEMMA AnswerReserved ==
  ASSUME NEW n, NEW prev, dirCopy[n] # 0, PortFor(n, 0, prev) # 0
  PROVE  PortFor(n, 0, prev) = dirCopy[n]
  BY DEF PortFor

\* The inductive invariant: while a claim that reloaded the copy is handled, the copy
\* says what the backend does of every name that no operator moved.
PortInv ==
  /\ DOMAIN resv = PortNames /\ DOMAIN claim = {"name", "want", "prev", "loaded", "ready"}
  /\ claim.want # 0 => claim.name \in asked
  /\ claim.ready /\ claim.loaded => \A m \in PortNames \ moved : dirCopy[m] = resv[m]

LEMMA PortStep ==
  ASSUME PortInv, [PortNext]_portVars
  PROVE  PortInv'
<1>1. ASSUME NEW n \in PortNames, NEW w \in 0..MaxPort, ClaimStart(n, w)
      PROVE  PortInv'
  BY <1>1 DEF PortInv, ClaimStart
<1>2. CASE RefreshForClaim
  <2>1. ASSUME ~downAt /\ dbUp PROVE dirCopy' = resv'
    BY <1>2, <2>1 DEF RefreshForClaim
  <2>2. ASSUME claim'.loaded PROVE ~downAt /\ dbUp
    BY <1>2, <2>2, Zenon DEF PortInv, RefreshForClaim
  <2> QED BY <1>2, <2>1, <2>2 DEF PortInv, RefreshForClaim
<1>3. CASE ClaimEnd
  BY <1>3, Zenon DEF PortInv, ClaimEnd, NoClaim
<1>4. CASE LoopRefresh
  BY <1>4, Zenon DEF PortInv, LoopRefresh
<1>5. ASSUME NEW t \in tasks, ReserveAssigned(t)
      PROVE  PortInv'
  <2>1. DOMAIN resv' = DOMAIN resv
    BY <1>5 DEF ReserveAssigned
  <2>2. dirCopy' = resv' \/ (dirCopy' = dirCopy /\ resv' = resv)
    BY <1>5, Zenon DEF ReserveAssigned
  <2> QED BY <1>5, <2>1, <2>2 DEF PortInv, ReserveAssigned
<1>6. ASSUME NEW n \in PortNames, AnnouncePort(n) \/ PortExpires(n)
      PROVE  PortInv'
  BY <1>6, Zenon DEF PortInv, AnnouncePort, PortExpires
<1>7. CASE RegistryStarts
  BY <1>7, Zenon DEF PortInv, RegistryStarts, NoClaim
<1>8. CASE BackendChanges
  BY <1>8, Zenon DEF PortInv, BackendChanges, registrySide
<1>9. ASSUME NEW n \in PortNames, NEW p \in Ports, OperatorMoves(n, p)
      PROVE  PortInv'
  BY <1>9 DEF PortInv, OperatorMoves, registrySide
<1>10. CASE UNCHANGED portVars
  BY <1>10, Zenon DEF PortInv, portVars
<1> QED BY <1>1, <1>2, <1>3, <1>4, <1>5, <1>6, <1>7, <1>8, <1>9, <1>10, Zenon DEF PortNext

\* A port that is reserved stays with its name, whatever restarts or expires: a
\* claim whose refresh succeeded is given the port reserved for it, if anything,
\* and never one reserved for another name (refreshForClaim, port, reserveAssigned).
THEOREM PortStays == PortSpec => PortKept
<1>1. PortInit => PortInv
  BY DEF PortInit, PortInv, NoPorts, NoClaim
<1>2. ASSUME PortInv, NEW n \in PortNames, claim.name = n, claim.loaded, claim.ready,
             PortFor(n, claim.want, claim.prev) = hold'[n], hold'[n] # 0,
             NEW m \in PortNames \ (moved \cup asked), resv[m] # 0
      PROVE  hold'[n] = resv[m] <=> m = n
  <2>1. dirCopy[m] = resv[m]
    BY <1>2, Zenon DEF PortInv
  <2>2. CASE m = n
    <3>1. claim.want = 0
      BY <1>2, <2>2 DEF PortInv
    <3> QED BY <1>2, <2>1, <2>2, <3>1, AnswerReserved, Zenon
  <2>3. CASE m # n
    <3>1. PortFree(n, hold'[n])
      BY <1>2, AnswerFree, Zenon
    <3> QED BY <2>1, <2>3, <3>1, Zenon DEF PortFree
  <2> QED BY <2>2, <2>3, Zenon
<1>3. PortInv /\ [PortNext]_portVars =>
        [\A n \in PortNames :
           /\ claim.name = n /\ claim.loaded /\ claim.ready
           /\ claim' = NoClaim /\ PortFor(n, claim.want, claim.prev) = hold'[n] /\ hold'[n] # 0
           => \A m \in PortNames \ (moved \cup asked) :
                resv[m] # 0 => (hold'[n] = resv[m] <=> m = n)]_portVars
  BY <1>2
<1> QED BY <1>1, <1>3, PortStep, PTL DEF PortSpec, PortKept

(* The rate limit.                                                         *)

\* The inductive invariant: buckets are refilled in the past and never overdrawn, and
\* what an address was granted is paid for by the burst and the time that passed,
\* less what it still has.
RateInv ==
    /\ RateTypeOK /\ lastSweep <= now
    /\ \A ip \in IPs : /\ last[ip] <= now /\ tokens[ip] >= 0
                       /\ Cost * granted[ip] + LevelNow[ip] <= BurstUnits + now

\* What a sweep leaves out is full, so that refill finds what the address has.
LEMMA LevelSame ==
    ASSUME RateTypeOK, NEW ip \in IPs
    PROVE  Level(ip) = LevelNow[ip]
<1>1. CASE ip \in buckets
  <2>1. Refilled(ip) \in Int
    BY RateConstants DEF RateTypeOK, Refilled
  <2>2. CASE ip \in Kept
    BY <1>1, <2>2 DEF Level, LevelNow
  <2>3. CASE ip \notin Kept
    <3>1. Refilled(ip) >= BurstUnits
      BY <1>1, <2>1, <2>3, RateConstants DEF Kept, Sweep
    <3>2. Capped(Refilled(ip)) = BurstUnits
      BY <2>1, <3>1, RateConstants DEF Capped
    <3> QED BY <1>1, <2>3, <3>2 DEF Level, LevelNow
  <2> QED BY <2>2, <2>3
<1>2. CASE ip \notin buckets
  <2>1. ip \notin Kept
    BY <1>2 DEF Kept, Sweep
  <2> QED BY <1>2, <2>1 DEF Level, LevelNow
<1> QED BY <1>1, <1>2

\* A bucket holds no more than a burst and, once it isn't overdrawn, never less than
\* nothing.
LEMMA LevelRange ==
    ASSUME RateTypeOK, NEW ip \in IPs, last[ip] <= now, tokens[ip] >= 0
    PROVE  LevelNow[ip] \in 0..BurstUnits
<1>1. Refilled(ip) \in Nat
  BY RateConstants DEF RateTypeOK, Refilled
<1> QED BY <1>1, RateConstants DEF LevelNow, Capped

\* Refilling one bucket, and sweeping the others, changes what no address has, but
\* for what the event takes (refill, sweep).
LEMMA RefillKeeps ==
    ASSUME RateTypeOK, NEW ip \in IPs, NEW spent \in Nat,
           last[ip] <= now, tokens[ip] >= 0, spent <= LevelNow[ip],
           Refill(ip, spent), UNCHANGED now
    PROVE  /\ LevelNow' = [LevelNow EXCEPT ![ip] = @ - spent]
           /\ spent = 0 => LevelNow' = LevelNow
           /\ tokens' \in [IPs -> Int] /\ tokens'[ip] >= 0
           /\ last' \in [IPs -> Nat] /\ last'[ip] = now
           /\ buckets' \subseteq IPs /\ lastSweep' \in {lastSweep, now}
           /\ \A o \in IPs \ {ip} : tokens'[o] = tokens[o] /\ last'[o] = last[o]
<1>1. /\ Level(ip) = LevelNow[ip] /\ LevelNow[ip] \in 0..BurstUnits
  BY LevelSame, LevelRange, Zenon
<1>2. /\ tokens' = [tokens EXCEPT ![ip] = LevelNow[ip] - spent]
      /\ last' = [last EXCEPT ![ip] = now]
      /\ buckets' = Kept \cup {ip}
      /\ lastSweep' \in {lastSweep, now}
  BY <1>1 DEF Refill
<1>3. Kept \subseteq buckets
  BY Zenon DEF Kept, Sweep
<1>4. /\ tokens' \in [IPs -> Int] /\ tokens'[ip] = LevelNow[ip] - spent
      /\ last' \in [IPs -> Nat] /\ last'[ip] = now
      /\ \A o \in IPs \ {ip} : tokens'[o] = tokens[o] /\ last'[o] = last[o]
  BY <1>1, <1>2, RateConstants DEF RateTypeOK
<1>5. LevelNow'[ip] = LevelNow[ip] - spent
  <2>1. Refilled(ip)' = LevelNow[ip] - spent
    BY <1>1, <1>4, RateConstants DEF Refilled, RateTypeOK
  <2>2. Capped(Refilled(ip)') = LevelNow[ip] - spent
    BY <1>1, <2>1, RateConstants DEF Capped
  <2>3. ip \in buckets'
    BY <1>2, Zenon
  <2> QED BY <2>2, <2>3, Zenon DEF LevelNow, Capped
<1>6. ASSUME NEW o \in IPs \ {ip}
      PROVE  LevelNow'[o] = LevelNow[o]
  <2>1. Refilled(o)' = Refilled(o)
    BY <1>4, Zenon DEF Refilled
  <2>2. o \in buckets' <=> o \in Kept
    <3>1. o # ip /\ buckets' = Kept \cup {ip}
      BY <1>2, Zenon
    <3> QED BY <3>1, Zenon
  <2>3. LevelNow'[o] = Level(o)
    BY <2>1, <2>2, Zenon DEF LevelNow, Level, Capped
  <2> QED BY <2>3, LevelSame, Zenon
<1>7. /\ LevelNow' = [LevelNow EXCEPT ![ip] = LevelNow[ip] - spent]
      /\ spent = 0 => LevelNow' = LevelNow
  <2>1. /\ LevelNow' = [o \in IPs |-> LevelNow'[o]]
        /\ LevelNow = [o \in IPs |-> LevelNow[o]]
    BY Zenon DEF LevelNow
  <2>2. LevelNow' = [LevelNow EXCEPT ![ip] = LevelNow[ip] - spent]
    BY <1>5, <1>6, <2>1
  <2>3. ASSUME spent = 0 PROVE LevelNow' = LevelNow
    <3>1. LevelNow'[ip] = LevelNow[ip]
      BY <1>1, <1>5, <2>3
    <3>2. \A o \in IPs : LevelNow'[o] = LevelNow[o]
      BY <3>1, <1>6, Zenon
    <3> QED BY <2>1, <3>2
  <2> QED BY <2>2, <2>3
<1>8. tokens'[ip] >= 0 /\ buckets' \subseteq IPs
  BY <1>1, <1>2, <1>3, <1>4 DEF RateTypeOK
<1> QED BY <1>2, <1>4, <1>7, <1>8

\* A tick fills every bucket by a unit, up to its burst.
LEMMA TickFills ==
    ASSUME RateTypeOK, \A ip \in IPs : last[ip] <= now, Tick
    PROVE  LevelNow' = [ip \in IPs |-> IF LevelNow[ip] < BurstUnits
                                       THEN LevelNow[ip] + 1 ELSE BurstUnits]
<1>1. ASSUME NEW ip \in IPs
      PROVE  LevelNow'[ip] = IF LevelNow[ip] < BurstUnits THEN LevelNow[ip] + 1 ELSE BurstUnits
  <2>1. Refilled(ip) \in Int /\ Refilled(ip)' = Refilled(ip) + 1
    BY DEF RateTypeOK, Refilled, Tick
  <2>2. UNCHANGED buckets
    BY DEF Tick
  <2> QED BY <2>1, <2>2, RateConstants DEF LevelNow, Capped
<1> QED BY <1>1 DEF LevelNow

\* One event more costs as much again.
LEMMA OneMore == \A c, g \in Nat : c * (g + 1) = c * g + c
  OBVIOUS

\* A new limiter satisfies the invariant.
LEMMA RateInvInit == RateInit => RateInv
<1> SUFFICES ASSUME RateInit PROVE RateInv
  OBVIOUS
<1>1. RateTypeOK /\ lastSweep <= now
  BY DEF RateInit, RateTypeOK
<1>2. ASSUME NEW ip \in IPs
      PROVE  last[ip] <= now /\ tokens[ip] >= 0 /\ Cost * granted[ip] + LevelNow[ip] <= BurstUnits + now
  <2>1. last[ip] = 0 /\ tokens[ip] = 0 /\ granted[ip] = 0 /\ now = 0 /\ LevelNow[ip] = BurstUnits
    BY DEF RateInit, LevelNow
  <2> QED BY <2>1, RateConstants
<1> QED BY <1>1, <1>2 DEF RateInv

\* Every step of the limiter keeps the invariant.
LEMMA RateInvStep == RateInv /\ [RateNext]_limiterVars => RateInv'
<1> SUFFICES ASSUME RateInv, [RateNext]_limiterVars PROVE RateInv'
  OBVIOUS
<1> USE RateConstants
<1>0. RateTypeOK /\ now <= now
  <2>1. RateTypeOK
    BY Zenon DEF RateInv
  <2> QED BY <2>1 DEF RateTypeOK
<1>1. ASSUME NEW ip \in IPs, Allow(ip) PROVE RateInv'
  <2> DEFINE ok == Level(ip) >= Cost
             spent == IF ok THEN Cost ELSE 0
  <2>1. Level(ip) = LevelNow[ip] /\ LevelNow[ip] \in 0..BurstUnits
    BY <1>0, LevelSame, LevelRange DEF RateInv
  <2>2. spent \in Nat /\ spent <= LevelNow[ip]
    BY <2>1
  <2>3. Refill(ip, spent) /\ now' = now
        /\ granted' = IF ok THEN [granted EXCEPT ![ip] = @ + 1] ELSE granted
    BY <1>1 DEF Allow
  <2> HIDE DEF spent, ok
  <2>4. /\ LevelNow' = [LevelNow EXCEPT ![ip] = @ - spent]
        /\ tokens' \in [IPs -> Int] /\ tokens'[ip] >= 0
        /\ last' \in [IPs -> Nat] /\ last'[ip] = now
        /\ buckets' \subseteq IPs /\ lastSweep' \in {lastSweep, now}
        /\ \A o \in IPs \ {ip} : tokens'[o] = tokens[o] /\ last'[o] = last[o]
    BY <1>0, <2>2, <2>3, RefillKeeps, Zenon DEF RateInv
  <2>5. RateTypeOK' /\ (lastSweep <= now)'
    <3>1. granted \in [IPs -> Nat]
      BY <1>0, Zenon DEF RateTypeOK
    <3>2. granted' \in [IPs -> Nat]
      BY <2>3, <3>1
    <3> QED BY <1>0, <2>3, <2>4, <3>2, Zenon DEF RateTypeOK, RateInv
  <2>6. ASSUME NEW o \in IPs PROVE (last[o] <= now /\ tokens[o] >= 0)'
    BY <1>0, <2>3, <2>4, Zenon DEF RateInv, RateTypeOK
  <2>7. ASSUME NEW o \in IPs PROVE (Cost * granted[o] + LevelNow[o] <= BurstUnits + now)'
    <3>1. CASE o # ip
      <4>1. granted'[o] = granted[o] /\ LevelNow'[o] = LevelNow[o]
        BY <2>3, <2>4, <3>1, <1>0, Zenon DEF RateTypeOK, LevelNow
      <4> QED BY <4>1, <2>3, Zenon DEF RateInv
    <3>2. CASE o = ip
      <4>1. LevelNow'[o] = LevelNow[o] - spent
        BY <2>4, <3>2, Zenon DEF LevelNow
      <4>2. Cost * granted'[o] = Cost * granted[o] + spent
        <5>1. granted[o] \in Nat
          BY <1>0 DEF RateTypeOK
        <5>2. CASE ok
          <6>1. granted'[o] = granted[o] + 1 /\ spent = Cost
            BY <2>3, <3>2, <5>2, <1>0, Zenon DEF RateTypeOK, spent
          <6> QED BY <6>1, <5>1, OneMore
        <5>3. CASE ~ok
          <6>1. granted'[o] = granted[o] /\ spent = 0
            BY <2>3, <5>3 DEF spent
          <6>2. Cost * granted[o] \in Int
            BY <5>1
          <6> QED BY <6>1, <6>2
        <5> QED BY <5>2, <5>3
      <4>3. Cost * granted[o] \in Int /\ LevelNow[o] \in Int /\ now \in Int
        BY <1>0, <2>1, <3>2 DEF RateTypeOK
      <4>4. Cost * granted[o] + LevelNow[o] <= BurstUnits + now
        BY DEF RateInv
      <4>5. (Cost * granted[o] + spent) + (LevelNow[o] - spent) <= BurstUnits + now
        BY <4>3, <4>4, <2>2
      <4> QED BY <4>1, <4>2, <4>5, <2>3
    <3> QED BY <3>1, <3>2, Zenon
  <2> QED BY <2>5, <2>6, <2>7, Zenon DEF RateInv
<1>2. ASSUME NEW ip \in IPs, Exhausted(ip) PROVE RateInv'
  <2>1. LevelNow[ip] \in 0..BurstUnits
    BY <1>0, LevelRange DEF RateInv
  <2>2. Refill(ip, 0) /\ now' = now /\ granted' = granted
    BY <1>2 DEF Exhausted
  <2>3. /\ LevelNow' = LevelNow
        /\ tokens' \in [IPs -> Int] /\ tokens'[ip] >= 0
        /\ last' \in [IPs -> Nat] /\ last'[ip] = now
        /\ buckets' \subseteq IPs /\ lastSweep' \in {lastSweep, now}
        /\ \A o \in IPs \ {ip} : tokens'[o] = tokens[o] /\ last'[o] = last[o]
    <3>1. last[ip] <= now /\ tokens[ip] >= 0
      BY DEF RateInv
    <3>2. 0 \in Nat /\ 0 <= LevelNow[ip]
      BY <2>1
    <3> QED BY <1>0, <2>2, <3>1, <3>2, RefillKeeps, Zenon
  <2>4. \A o \in IPs : LevelNow'[o] = LevelNow[o]
    BY <2>3, Zenon
  <2>5. RateTypeOK' /\ (lastSweep <= now)'
    BY <1>0, <2>2, <2>3, Zenon DEF RateTypeOK, RateInv
  <2>6. ASSUME NEW o \in IPs PROVE (last[o] <= now /\ tokens[o] >= 0)'
    BY <1>0, <2>2, <2>3, Zenon DEF RateInv, RateTypeOK
  <2>7. ASSUME NEW o \in IPs PROVE (Cost * granted[o] + LevelNow[o] <= BurstUnits + now)'
    BY <2>2, <2>4, Zenon DEF RateInv
  <2> QED BY <2>5, <2>6, <2>7, Zenon DEF RateInv
<1>3. CASE Tick
  <2>1. now \in Nat /\ now' = now + 1 /\ UNCHANGED <<buckets, tokens, last, lastSweep, granted>>
    BY <1>0, <1>3, Zenon DEF Tick, RateTypeOK
  <2>2. now' \in Nat /\ \A n \in Nat : n <= now => n <= now'
    BY <2>1
  <2>3. RateTypeOK' /\ (lastSweep <= now)'
    BY <1>0, <2>1, <2>2, Zenon DEF RateTypeOK, RateInv
  <2>4. ASSUME NEW o \in IPs PROVE (last[o] <= now /\ tokens[o] >= 0)'
    <3>1. last[o] \in Nat /\ last[o] <= now /\ tokens[o] >= 0
      BY <1>0, Zenon DEF RateInv, RateTypeOK
    <3> QED BY <2>1, <2>2, <3>1, Zenon
  <2>5. ASSUME NEW o \in IPs PROVE (Cost * granted[o] + LevelNow[o] <= BurstUnits + now)'
    <3>1. LevelNow' = [ip \in IPs |-> IF LevelNow[ip] < BurstUnits THEN LevelNow[ip] + 1 ELSE BurstUnits]
      BY <1>0, <1>3, TickFills DEF RateInv
    <3>2. LevelNow[o] \in 0..BurstUnits
      BY <1>0, LevelRange DEF RateInv
    <3>3. LevelNow'[o] <= LevelNow[o] + 1 /\ LevelNow'[o] \in Int
      BY <3>1, <3>2
    <3>4. Cost * granted[o] \in Int /\ Cost * granted[o] + LevelNow[o] <= BurstUnits + now
      BY <1>0 DEF RateTypeOK, RateInv
    <3>5. Cost * granted[o] + LevelNow'[o] <= BurstUnits + (now + 1)
      BY <2>1, <3>2, <3>3, <3>4
    <3> QED BY <3>5, <2>1, Zenon
  <2> QED BY <2>3, <2>4, <2>5, Zenon DEF RateInv
<1>4. CASE UNCHANGED limiterVars
  BY <1>4 DEF limiterVars, RateInv, RateTypeOK, LevelNow, Capped, Refilled
<1> QED BY <1>1, <1>2, <1>3, <1>4 DEF RateNext

\* The invariant of the limiter holds throughout.
THEOREM RateInvariant == RateSpec => []RateInv
  BY RateInvInit, RateInvStep, PTL DEF RateSpec

\* An address is never allowed more events than a burst and its average rate since the
\* limiter was made (IPLimiter.Allow), for any burst, cost and sweep interval.
THEOREM AverageRate == RateSpec => []AverageHolds
<1>1. RateInv => AverageHolds
  <2> SUFFICES ASSUME RateInv, NEW ip \in IPs PROVE Cost * granted[ip] <= BurstUnits + now
    BY Zenon DEF AverageHolds
  <2>1. RateTypeOK /\ LevelNow[ip] \in 0..BurstUnits
    BY LevelRange, Zenon DEF RateInv
  <2>2. Cost * granted[ip] \in Int /\ now \in Nat
    BY <2>1, RateConstants DEF RateTypeOK
  <2> QED BY <2>1, <2>2, RateConstants DEF RateInv
<1> QED BY <1>1, RateInvariant, PTL

\* Every step of the limiter is a step of the token buckets.
LEMMA RateStepRefines == RateInv /\ [RateNext]_limiterVars => [Bucket!BucketNext]_(Bucket!bucketVars)
<1> SUFFICES ASSUME RateInv, [RateNext]_limiterVars PROVE [Bucket!BucketNext]_(Bucket!bucketVars)
  OBVIOUS
<1> USE RateConstants
<1>0. RateTypeOK
  BY DEF RateInv
<1>1. ASSUME NEW ip \in IPs, Allow(ip) PROVE Bucket!Take(ip)
  <2>1. Level(ip) = LevelNow[ip] /\ LevelNow[ip] \in 0..BurstUnits
    BY <1>0, LevelSame, LevelRange DEF RateInv
  <2>2. /\ Refill(ip, IF LevelNow[ip] >= Cost THEN Cost ELSE 0) /\ now' = now
        /\ verdict' = <<"allow", ip, LevelNow[ip] >= Cost>>
    BY <1>1, <2>1 DEF Allow
  <2>3. CASE LevelNow[ip] >= Cost
    <3>1. Refill(ip, Cost)
      BY <2>2, <2>3
    <3>2. LevelNow' = [LevelNow EXCEPT ![ip] = @ - Cost]
      BY <1>0, <2>2, <2>3, <3>1, RefillKeeps, Zenon DEF RateInv
    <3> QED BY <2>2, <2>3, <3>2 DEF Bucket!Take
  <2>4. CASE ~(LevelNow[ip] >= Cost)
    <3>1. Refill(ip, 0)
      BY <2>2, <2>4
    <3>2. last[ip] <= now /\ tokens[ip] >= 0
      BY DEF RateInv
    <3>3. 0 \in Nat /\ 0 <= LevelNow[ip]
      BY <2>1
    <3>4. LevelNow' = LevelNow
      BY <1>0, <2>2, <3>1, <3>2, <3>3, RefillKeeps, Zenon
    <3> QED BY <2>2, <2>4, <3>4 DEF Bucket!Take
  <2> QED BY <2>3, <2>4, Zenon
<1>2. ASSUME NEW ip \in IPs, Exhausted(ip) PROVE Bucket!Ask(ip)
  <2>1. Level(ip) = LevelNow[ip] /\ LevelNow[ip] \in 0..BurstUnits
    BY <1>0, LevelSame, LevelRange DEF RateInv
  <2>2. Refill(ip, 0) /\ now' = now /\ verdict' = <<"exhausted", ip, LevelNow[ip] < Cost>>
    BY <1>2, <2>1 DEF Exhausted
  <2>3. LevelNow' = LevelNow
    <3>1. last[ip] <= now /\ tokens[ip] >= 0
      BY DEF RateInv
    <3>2. 0 \in Nat /\ 0 <= LevelNow[ip]
      BY <2>1
    <3> QED BY <1>0, <2>2, <3>1, <3>2, RefillKeeps, Zenon
  <2> QED BY <2>2, <2>3 DEF Bucket!Ask
<1>3. CASE Tick
  <2>1. LevelNow' = [ip \in IPs |-> IF LevelNow[ip] < BurstUnits THEN LevelNow[ip] + 1 ELSE BurstUnits]
    BY <1>0, <1>3, TickFills, Zenon DEF RateInv
  <2>2. verdict' = verdict
    BY <1>3 DEF Tick
  <2>3. Bucket!Fill
    BY <2>1, <2>2, Zenon DEF Bucket!Fill
  <2> QED BY <2>3 DEF Bucket!BucketNext
<1>4. CASE UNCHANGED limiterVars
  BY <1>4 DEF limiterVars, Bucket!bucketVars, LevelNow, Capped, Refilled
<1> QED BY <1>1, <1>2, <1>3, <1>4 DEF RateNext, Bucket!BucketNext

\* The limiter, with its lazy refills and its sweeps, implements a token bucket for
\* every address (IPLimiter: "a token bucket per client IP").
THEOREM LimiterIsTokenBucket == RateSpec => IsTokenBucket
<1>1. RateInit => Bucket!BucketInit
  <2> SUFFICES ASSUME RateInit PROVE Bucket!BucketInit
    OBVIOUS
  <2>1. LevelNow = [ip \in IPs |-> BurstUnits]
    BY DEF RateInit, LevelNow
  <2> QED BY <2>1 DEF RateInit, Bucket!BucketInit
<1> QED BY <1>1, RateStepRefines, RateInvariant, PTL DEF RateSpec, IsTokenBucket, Bucket!BucketSpec

=============================================================================
