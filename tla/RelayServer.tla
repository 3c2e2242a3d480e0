----------------------------- MODULE RelayServer -----------------------------
(***************************************************************************)
(* The life of a relay server (go/tunnel/relay/server.go, websocket.go,    *)
(* gateway.go, router.go; go/tunnel/transport/listener.go): the listeners  *)
(* Start opens one after the other, connections on their way through the   *)
(* router to sessions, tunnels, the HTTP proxy, the SSH gateway or another *)
(* relay, and Close, which must end them all.  s.mu is held through all of *)
(* Start and through the first part of Close; wg counts the goroutines     *)
(* Close waits for.                                                        *)
(***************************************************************************)
EXTENDS Sequences, Integers

CONSTANTS
    Visitors,   \* connections
    MaxStarts   \* bound on calls of Start

VARIABLES
    phase,      \* "new", "starting", "up", "closing", "waiting" or "returned"
    opening,    \* the listeners Start has still to open, in order
    listening,  \* the open listeners
    visitor,    \* per connection: what it is, its stage and the session it uses
    parkedBy,   \* sessions whose names are parked in the registry
    starts

serverVars == <<phase, opening, listening, visitor, parkedBy, starts>>

Listeners == <<"control", "http", "gateway", "stream">>
\* What a connection turns out to be, and the listener it comes through.  (The plain
\* HTTP listener only redirects, and its server ends with it.)
Via == [agent |-> "control", ws |-> "control", public |-> "control", page |-> "control",
        away |-> "control", login |-> "gateway", stream |-> "stream"]
Kinds == DOMAIN Via
NoVisitor == [kind |-> "none", at |-> "none", of |-> "none"]

\* The stages of a connection a goroutine of wg stands for.
Counted(c) == visitor[c].at \in {"serving", "pushing", "entered", "session", "ending", "joined", "login", "away"}
Locked == phase = "starting"
Closed == phase \in {"closing", "waiting", "returned"}

ServerInit ==
    /\ phase = "new" /\ opening = << >> /\ listening = {} /\ starts = 0
    /\ visitor = [c \in Visitors |-> NoVisitor] /\ parkedBy = {}

To(c, at) == visitor' = [visitor EXCEPT ![c].at = at]
Gone(c) == visitor' = [visitor EXCEPT ![c] = NoVisitor]
Inside == UNCHANGED <<phase, opening, listening, starts>>

-----------------------------------------------------------------------------
(* Start.                                                                  *)
Start ==
    /\ phase = "new" /\ starts < MaxStarts /\ starts' = starts + 1
    /\ phase' = "starting" /\ opening' = Listeners
    /\ UNCHANGED <<listening, visitor, parkedBy>>

\* One listener at a time; the control listener is opened first and accepted from last.
Opens ==
    /\ phase = "starting" /\ opening # << >>
    /\ listening' = IF Head(opening) = "control" THEN listening ELSE listening \cup {Head(opening)}
    /\ opening' = Tail(opening)
    /\ UNCHANGED <<phase, visitor, parkedBy, starts>>

\* An address that is in use: what was opened is closed again.
OpenFails ==
    /\ phase = "starting" /\ opening # << >>
    /\ phase' = "new" /\ opening' = << >> /\ listening' = {}
    /\ UNCHANGED <<visitor, parkedBy, starts>>

StartDone ==
    /\ phase = "starting" /\ opening = << >>
    /\ phase' = "up" /\ listening' = listening \cup {"control"}
    /\ UNCHANGED <<opening, visitor, parkedBy, starts>>

-----------------------------------------------------------------------------
(* A connection.                                                           *)

\* acceptWith, on the control and the stream listener.
Accept(c, k) ==
    /\ visitor[c] = NoVisitor /\ Via[k] \in listening \ {"gateway"}
    /\ visitor' = [visitor EXCEPT ![c] = [kind |-> k, at |-> "serving", of |-> "none"]]
    /\ Inside /\ UNCHANGED parkedBy

AcceptGateway(c) ==
    /\ visitor[c] = NoVisitor /\ "gateway" \in listening
    /\ visitor' = [visitor EXCEPT ![c] = [kind |-> "login", at |-> "serving", of |-> "none"]]
    /\ Inside /\ UNCHANGED parkedBy

\* A handshake that fails or times out, an address or a name that is turned away.
Rejected(c) ==
    /\ visitor[c].at \in {"serving", "entered"}
    /\ Gone(c) /\ Inside /\ UNCHANGED parkedBy

\* A faulty variant: a session is tracked whatever Close does.
TrackAlways(c) ==
    /\ \/ visitor[c].kind = "agent" /\ visitor[c].at = "serving"
       \/ visitor[c].kind = "ws" /\ visitor[c].at = "entered"
    /\ ~Locked
    /\ To(c, "session")
    /\ Inside /\ UNCHANGED parkedBy

\* serveAgent: track refuses when the server is closing.
Track(c) ==
    /\ \/ visitor[c].kind = "agent" /\ visitor[c].at = "serving"
       \/ visitor[c].kind = "ws" /\ visitor[c].at = "entered"
    /\ ~Locked
    /\ IF Closed THEN Gone(c) ELSE To(c, "session")
    /\ Inside /\ UNCHANGED parkedBy

\* serveConn hands a WebSocket agent, and an HTTP tunnel's client, to a server of
\* its own through a ConnListener; Push waits until it accepts or is closed.
Hand(c) ==
    /\ visitor[c].kind \in {"ws", "page"} /\ visitor[c].at = "serving"
    /\ To(c, "pushing") /\ Inside /\ UNCHANGED parkedBy

Pushed(c) ==
    /\ visitor[c].at = "pushing"
    /\ IF phase \in {"waiting", "returned"} THEN Gone(c) ELSE To(c, "handed")
    /\ Inside /\ UNCHANGED parkedBy

\* A faulty variant: the handler counts itself whatever Close does.
EnterAlways(c) ==
    /\ visitor[c].kind = "ws" /\ visitor[c].at = "handed" /\ ~Locked
    /\ To(c, "entered")
    /\ Inside /\ UNCHANGED parkedBy

\* The WebSocket handler: enter counts it in wg, unless the server is closing.
Enter(c) ==
    /\ visitor[c].kind = "ws" /\ visitor[c].at = "handed" /\ ~Locked
    /\ IF Closed THEN Gone(c) ELSE To(c, "entered")
    /\ Inside /\ UNCHANGED parkedBy

\* A client is joined to a tunnel of a session: serveConn, serveTokenTunnel, serveStream.
Join(c, s) ==
    /\ visitor[c].kind \in {"public", "stream"} /\ visitor[c].at = "serving"
    /\ visitor[s].at = "session"
    /\ visitor' = [visitor EXCEPT ![c].at = "joined", ![c].of = s]
    /\ Inside /\ UNCHANGED parkedBy

\* forwardToOwner: joined to another relay.
Forward(c) ==
    /\ visitor[c].kind = "away" /\ visitor[c].at = "serving"
    /\ To(c, "away") /\ Inside /\ UNCHANGED parkedBy

\* serveGateway: trackGateway doesn't ask whether the server is closing.
GatewayLogin(c) ==
    /\ visitor[c].kind = "login" /\ visitor[c].at = "serving" /\ ~Locked
    /\ To(c, "login") /\ Inside /\ UNCHANGED parkedBy

\* The other end leaves.
Leaves(c) ==
    /\ visitor[c].at \in {"session", "joined", "away", "login", "handed"}
    /\ IF visitor[c].at = "session" THEN To(c, "ending") ELSE Gone(c)
    /\ Inside /\ UNCHANGED parkedBy

\* The stream of a session that ends goes with it.
StreamEnds(c) ==
    /\ visitor[c].at = "joined" /\ visitor[visitor[c].of].at # "session"
    /\ Gone(c) /\ Inside /\ UNCHANGED parkedBy

\* closeTunnels parks the session's names, then untrack.
SessionEnds(c) ==
    /\ visitor[c].at = "ending" /\ ~Locked
    /\ parkedBy' = parkedBy \cup {c}
    /\ Gone(c) /\ Inside

\* A grace period ends.
ParkExpires(c) ==
    /\ c \in parkedBy /\ parkedBy' = parkedBy \ {c}
    /\ Inside /\ UNCHANGED visitor

-----------------------------------------------------------------------------
(* Close.                                                                  *)

\* Under the mutex: the listeners, the gateway's connections and the sessions.
Close ==
    /\ phase \in {"new", "up"} /\ phase' = "closing" /\ listening' = {}
    /\ visitor' = [c \in Visitors |->
                  CASE visitor[c].at = "session" -> [visitor[c] EXCEPT !.at = "ending"]
                    [] visitor[c].at = "login" -> NoVisitor
                    [] OTHER -> visitor[c]]
    /\ UNCHANGED <<opening, parkedBy, starts>>

\* The WebSocket server and the HTTP proxy, with their listeners and connections.
CloseServers ==
    /\ phase = "closing" /\ phase' = "waiting"
    /\ visitor' = [c \in Visitors |->
                  IF visitor[c].at = "handed" /\ visitor[c].kind = "page" THEN NoVisitor ELSE visitor[c]]
    /\ UNCHANGED <<opening, listening, parkedBy, starts>>

\* wg.Wait, then the registry's names.
CloseReturns ==
    /\ phase = "waiting" /\ \A c \in Visitors : ~Counted(c)
    /\ phase' = "returned" /\ parkedBy' = {}
    /\ UNCHANGED <<opening, listening, visitor, starts>>

ServerStep(c) ==
    \/ Rejected(c) \/ Track(c) \/ Hand(c) \/ Pushed(c) \/ Enter(c) \/ Forward(c) \/ GatewayLogin(c)
    \/ StreamEnds(c) \/ SessionEnds(c) \/ (\E s \in Visitors : Join(c, s))

ServerNext ==
    \/ Start \/ Opens \/ OpenFails \/ StartDone \/ Close \/ CloseServers \/ CloseReturns
    \/ \E c \in Visitors :
          \/ \E k \in Kinds : Accept(c, k)
          \/ AcceptGateway(c) \/ Leaves(c) \/ ParkExpires(c) \/ ServerStep(c)

\* Close doesn't end a connection forwarded to another relay, nor a gateway login
\* that was authenticating when it was called: it waits for them to leave.
OutsiderLeaves(c) == visitor[c].at \in {"away", "login"} /\ Leaves(c)

\* The server's goroutines go on; of the other ends it is only assumed that those
\* two leave in the end.
ServerFairness ==
    /\ WF_serverVars(CloseServers \/ CloseReturns)
    /\ \A c \in Visitors : WF_serverVars(ServerStep(c)) /\ WF_serverVars(OutsiderLeaves(c))

ServerSpec == ServerInit /\ [][ServerNext]_serverVars /\ ServerFairness

-----------------------------------------------------------------------------
\* When Close has returned nothing of the server is left: no listener, no connection
\* being served, no session and no parked name with its timer, whatever was being
\* accepted, upgraded or handed over when it was called, and whichever Start failed
\* before (Close, track, enter, Push).  A WebSocket request still to be refused counts
\* for nothing.
NothingLeft ==
    phase = "returned" =>
        /\ listening = {} /\ parkedBy = {}
        /\ \A c \in Visitors : visitor[c].at = "none" \/ (visitor[c].kind = "ws" /\ visitor[c].at = "handed")

\* Close returns once it is called: agents that stay connected and clients that stay
\* joined don't hold it up, whatever was on its way in when it was called (Close,
\* track, serveAgent).
CloseEnds == (phase = "closing") ~> (phase = "returned")
=============================================================================
