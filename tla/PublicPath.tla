----------------------------- MODULE PublicPath -----------------------------
(***************************************************************************)
(* The way of one public connection to a tunnel: through the edge          *)
(* (go/tunnel/edge/listener.go, route.go), through the relay it reaches    *)
(* first and, when another relay serves the tunnel, through that one       *)
(* (go/tunnel/relay/router.go, cluster.go, gateway.go, tunnel.go; HTTP in  *)
(* go/tunnel/httpproxy/proxy.go).  The tunnel moves meanwhile, and every   *)
(* node routes by its own, possibly old, copy of the live tables.          *)
(***************************************************************************)
EXTENDS Integers, FiniteSets

CONSTANTS
    Relays,       \* the relays of the cluster
    Addresses,    \* client addresses
    AllowIPs, DenyIPs,  \* the tunnel's IP lists
    EdgeDenyIPs,  \* the deny list of the edge's tunnel base
    ClusterAddr,  \* the address of the cluster's own nodes
    MaxMoves,     \* bound on the tunnel's moves
    None

Nodes == Relays \cup {"edge"}

VARIABLES
    typ,      \* the tunnel's type; TCP stands for SSH too
    asks,     \* what its access policy asks for: basic, oidc, token
    home,     \* the relay the tunnel is registered at, or None
    inst,     \* the registration: it changes with every session
    view,     \* each node's copy of the live tables: where the tunnel is
    visit     \* the connection

pathVars == <<typ, asks, home, inst, view, visit>>

\* ip: the client; seen: its address as the node knows it; host: the server name
\* asked for; entitled: the client has the access token, key grant or login the
\* tunnel asks for; hops: relays that forwarded the connection.
NoVisit == [at |-> "none", via |-> "edge", ip |-> ClusterAddr, seen |-> ClusterAddr, host |-> "tunnel",
            entitled |-> FALSE, relay |-> None, hops |-> 0, inst |-> 0]

\* ValidateSpecAccess: a policy fits the type of its tunnel, or the tunnel isn't opened.
ValidateSpecAccess(t, policy) ==
    /\ policy \cap {"basic", "oidc"} # {} => t = "HTTP"
    /\ ~({"basic", "oidc"} \subseteq policy)
    /\ "token" \in policy => t = "TCP"

PathInit ==
    /\ typ \in {"HTTP", "TLS", "TCP"} /\ asks \in SUBSET {"basic", "oidc", "token"}
    /\ ValidateSpecAccess(typ, asks)
    /\ home = None /\ inst = 0
    /\ view = [n \in Nodes |-> None]
    /\ visit = NoVisit

-----------------------------------------------------------------------------
\* Access.AllowsIP: the deny list, then the allow list (empty: everyone).
AllowsIP(a) == a \notin DenyIPs /\ (AllowIPs = {} \/ a \in AllowIPs)

\* admit, with a tunnel's access policy.
Admit(a) == AllowsIP(a)

HasPublicPort == typ = "TCP"
RequiresToken == "token" \in asks
RequiresLogin == asks \cap {"basic", "oidc"} # {}

\* GatewayKey.Allows: a tunnel with an access token needs an explicit grant.
KeyAllows(accessToken) == visit.entitled \/ ~accessToken

GoTo(at) == visit' = [visit EXCEPT !.at = at]
TurnedAway == visit' = NoVisit
Elsewhere == UNCHANGED <<typ, asks, home, inst>>
Still == UNCHANGED <<typ, asks, home, inst, view>>

\* A client connects: to the edge by name or by public port, to a relay, to the
\* public port a standalone relay opened itself, or to a relay's SSH gateway.
Connect(via, a, host, entitled) ==
    /\ visit = NoVisit
    /\ via \in {"port", "listener"} => HasPublicPort /\ ~RequiresToken /\ host = "tunnel"
    /\ via = "gateway" => host = "tunnel"
    /\ \E r \in Relays :
         visit' = [NoVisit EXCEPT !.at = IF via \in {"edge", "port"} THEN "edge" ELSE via,
                     !.via = via, !.ip = a, !.seen = a, !.host = host, !.entitled = entitled,
                     !.relay = IF via \in {"edge", "port"} THEN None ELSE r]
    /\ Still

\* A node's per-address rate limit is used up, a dial, handshake or header fails,
\* or the client goes away.
Abandon == visit # NoVisit /\ TurnedAway /\ Still

\* WriteProxyHeader: the next node r knows the client by the address in the header.
ProxyHeader(at, r, a) == [visit EXCEPT !.at = at, !.relay = r, !.seen = a]

\* A header that names the tunnel, signed for a minute by the node's clock; the
\* clock of the node that verifies it may say otherwise.
VerifySignedTLVs == BOOLEAN

\* The connection's own header has a signature: it was forwarded.
Forwarded == visit.hops > 0

-----------------------------------------------------------------------------
(* The edge.                                                               *)

\* relayPick: the least loaded or the next one of the relays that are ready.
RelayPick == Relays

\* resolve, for a listener with the tunnel base and a site: the site's own name;
\* the control name and unknown names any relay; a live tunnel its owner.
Resolve(host) ==
    IF host = "tunnel" /\ view["edge"] # None THEN {view["edge"]} ELSE RelayPick

\* serveTLS and serveHTTP: a site's pool, else a relay, told the client's address
\* in a PROXY header.
EdgeServes ==
    /\ visit.at = "edge" /\ visit.via = "edge"
    /\ IF visit.host = "site" THEN GoTo("pooled")
       ELSE IF visit.ip \in EdgeDenyIPs THEN TurnedAway
       ELSE \E r \in Resolve(visit.host) : visit' = ProxyHeader("relay", r, visit.ip)
    /\ Still

\* stream: a public port goes to the stream port of the relay that holds it,
\* naming the tunnel in a signed header; nobody holds it: closed.
EdgeStreams ==
    /\ visit.at = "edge" /\ visit.via = "port"
    /\ IF view["edge"] = None \/ visit.ip \in EdgeDenyIPs
       THEN TurnedAway
       ELSE visit' = ProxyHeader("stream", view["edge"], visit.ip)
    /\ Still

-----------------------------------------------------------------------------
(* A relay.                                                                *)
Here == home = visit.relay

Accepted == visit' = [visit EXCEPT !.at = "open", !.inst = inst]

\* serveConn, when this relay has the tunnel.
ServeLocal ==
    /\ visit.at = "relay" /\ visit.host = "tunnel" /\ Here
    /\ IF typ = "HTTP" THEN GoTo("http")
       ELSE IF ~AllowsIP(visit.seen) THEN TurnedAway
       ELSE visit' = [visit EXCEPT !.at = IF RequiresToken THEN "token" ELSE "open", !.inst = inst]
    /\ UNCHANGED view /\ Elsewhere

\* serveTokenTunnel: the client sends the access token on the terminated connection;
\* the tunnel is the one serveConn found.
ServeTokenTunnel ==
    /\ visit.at = "token"
    /\ IF visit.entitled THEN GoTo("open") ELSE TurnedAway
    /\ Still

\* LiveView.Tunnel: a miss, or this relay named as the owner, reads the tables
\* again, unless they don't answer or were read a moment ago.
OwnerOf(r, fresh) == IF view[r] \in {None, r} /\ fresh THEN home ELSE view[r]

\* A faulty variant: a connection that was forwarded is forwarded again.
ForwardAgain ==
    /\ visit.at = "relay" /\ visit.host = "tunnel" /\ ~Here
    /\ \E fresh \in BOOLEAN :
         LET r == visit.relay
             owner == OwnerOf(r, fresh)
         IN /\ view' = [view EXCEPT ![r] = owner]
            /\ IF owner \notin {None, r}
               THEN visit' = [ProxyHeader("relay", owner, visit.ip) EXCEPT !.hops = @ + 1]
               ELSE GoTo("http") \/ TurnedAway
    /\ Elsewhere

\* A faulty variant: the header to the owner doesn't carry the client's address.
ForwardBare ==
    /\ visit.at = "relay" /\ visit.host = "tunnel" /\ ~Here
    /\ \E fresh \in BOOLEAN :
         LET r == visit.relay
             owner == OwnerOf(r, fresh)
         IN /\ view' = [view EXCEPT ![r] = owner]
            /\ IF owner \notin {None, r} /\ ~Forwarded
               THEN visit' = [ProxyHeader("relay", owner, ClusterAddr) EXCEPT !.hops = 1]
               ELSE GoTo("http") \/ TurnedAway
    /\ Elsewhere

\* serveConn, when it hasn't: forwardToOwner, once; else the error page of the
\* HTTP proxy or, for "l8tunnel connect", a failed handshake.
ForwardToOwner ==
    /\ visit.at = "relay" /\ visit.host = "tunnel" /\ ~Here
    /\ \E fresh \in BOOLEAN :
         LET r == visit.relay
             owner == OwnerOf(r, fresh)
         IN /\ view' = [view EXCEPT ![r] = owner]
            /\ IF owner \notin {None, r} /\ ~Forwarded
               THEN visit' = [ProxyHeader("relay", owner, visit.seen) EXCEPT !.hops = 1]
               ELSE GoTo("http") \/ TurnedAway
    /\ Elsewhere

\* The control name starts an agent session; another name gets the error page.
ServeOther ==
    /\ visit.at = "relay" /\ visit.host # "tunnel"
    /\ IF visit.host = "other" THEN GoTo("http") ELSE TurnedAway
    /\ UNCHANGED view /\ Elsewhere

\* serveStream: a stream for a tunnel this relay doesn't serve is refused.
ServeStream ==
    /\ visit.at = "stream"
    /\ \E verified \in VerifySignedTLVs :
         IF verified /\ Here /\ Admit(visit.seen) THEN Accepted ELSE TurnedAway
    /\ UNCHANGED view /\ Elsewhere

\* tunnel.serve on the port a standalone relay opened for the tunnel.
ServeListener ==
    /\ visit.at = "listener"
    /\ IF Here /\ Admit(visit.seen) THEN Accepted ELSE TurnedAway
    /\ Still

\* gatewayChannel and gatewayTarget: the relay's own tunnel, or another's through
\* that relay's stream port, where its IP lists apply.  Only the relay's own
\* tunnel is held to the ssh and tcp types.
ServeGateway ==
    /\ visit.at = "gateway"
    /\ \E fresh \in BOOLEAN :
         LET r == visit.relay
             owner == OwnerOf(r, fresh)
         IN IF Here
            THEN /\ IF HasPublicPort /\ KeyAllows(RequiresToken) /\ AllowsIP(visit.seen)
                    THEN Accepted ELSE TurnedAway
                 /\ UNCHANGED view
            ELSE /\ view' = [view EXCEPT ![r] = owner]
                 /\ IF owner \notin {None, r} /\ KeyAllows(RequiresToken)
                    THEN visit' = ProxyHeader("stream", owner, visit.seen)
                    ELSE TurnedAway
    /\ Elsewhere

\* openStream on the session the tunnel was found with: fails once that is over.
SessionOpen == Here /\ visit.inst = inst

OpenPublicStream ==
    /\ visit.at = "open" /\ typ # "HTTP"
    /\ IF SessionOpen THEN GoTo("joined") ELSE TurnedAway
    /\ Still

-----------------------------------------------------------------------------
(* The HTTP proxy of a relay: requests on a kept connection.               *)

LookupHTTP == Here /\ typ = "HTTP"

\* authorize: the address, then the login the tunnel asks for.
AuthorizeRequest == AllowsIP(visit.seen) /\ (RequiresLogin => visit.entitled)

\* ServeHTTP: the request's host must be the connection's; then authorize.
Request(host) ==
    /\ visit.at = "http"
    /\ IF visit.host = host /\ host = "tunnel" /\ LookupHTTP /\ AuthorizeRequest
       THEN Accepted
       ELSE UNCHANGED visit
    /\ Still

\* The tunnel's transport dials a stream of the registration that was looked up, or
\* takes an idle one of it; a request that fails gets the error page.
ProxyRequest ==
    /\ visit.at = "open" /\ typ = "HTTP"
    /\ IF SessionOpen THEN GoTo("joined") ELSE GoTo("http")
    /\ Still

Finish ==
    /\ visit.at \in {"joined", "pooled"}
    /\ IF typ = "HTTP" /\ visit.at = "joined" THEN GoTo("http") ELSE TurnedAway
    /\ Still

-----------------------------------------------------------------------------
(* The tunnel and the copies of the live tables.                           *)

\* The agent's session ends and another registers the tunnel, here or at another
\* relay; streams of the old session end with it.
TunnelMoves(r) ==
    /\ inst < MaxMoves
    /\ home' = r /\ inst' = inst + 1
    /\ visit' = IF visit.at # "joined" THEN visit
                ELSE IF typ = "HTTP" THEN [visit EXCEPT !.at = "http"] ELSE NoVisit
    /\ UNCHANGED <<typ, asks, view>>

\* A fetch, after its ttl or after a pushed change.
ViewRefresh(n) ==
    /\ view[n] # home
    /\ view' = [view EXCEPT ![n] = home]
    /\ UNCHANGED <<typ, asks, home, inst, visit>>

-----------------------------------------------------------------------------
Vias == {"edge", "port", "relay", "listener", "gateway"}
Hosts == {"tunnel", "site", "other", "control"}

PathNext ==
    \/ \E via \in Vias, a \in Addresses, h \in Hosts, e \in BOOLEAN : Connect(via, a, h, e)
    \/ Abandon \/ EdgeServes \/ EdgeStreams
    \/ ServeLocal \/ ServeTokenTunnel \/ ForwardToOwner \/ ServeOther \/ ServeStream \/ ServeListener
    \/ ServeGateway \/ OpenPublicStream \/ ProxyRequest \/ Finish
    \/ \E h \in {"tunnel", "other"} : Request(h)
    \/ \E r \in Relays \cup {None} : TunnelMoves(r)
    \/ \E n \in Nodes : ViewRefresh(n)

PathSpec == PathInit /\ [][PathNext]_pathVars

-----------------------------------------------------------------------------
\* However the copies of the live tables disagree, a connection is forwarded by
\* at most one relay: two relays that each take the other for the owner don't
\* send it back and forth (forwardToOwner, serveStream).
OneForward == visit.hops <= 1

\* A client whose connection is joined to the tunnel passed that registration's
\* checks, by whatever way it came and however the tunnel moved meanwhile: its
\* own address is one the IP lists on its way allow, it showed the token, grant or
\* (over HTTP) login the tunnel asks for, and it asked for this tunnel.
JoinedAsChecked ==
    visit.at = "joined" =>
      /\ AllowsIP(visit.ip) /\ visit.host = "tunnel"
      /\ visit.inst = inst /\ visit.relay = home
      /\ RequiresToken \/ (RequiresLogin /\ visit.via # "gateway") => visit.entitled
      /\ visit.via \in {"edge", "port"} => visit.ip \notin EdgeDenyIPs
=============================================================================
