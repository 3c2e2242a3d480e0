---------------------------- MODULE AgentSession ----------------------------
(***************************************************************************)
(* One agent and the relay it keeps a session with: the agent's Run loop,  *)
(* handshake, heartbeat, address watch and streams (go/tunnel/agent) and   *)
(* the relay's side of a session (go/tunnel/relay/session.go).  A path can *)
(* break without either end noticing, so the relay may hold a session the  *)
(* agent has left while the agent already has the next one.                *)
(***************************************************************************)
EXTENDS Integers, FiniteSets, FiniteSetsExt

CONSTANTS
    Slots,            \* sessions that can exist at once, on either end
    MaxDelay,         \* ReconnectMax, in units of ReconnectMin; a power of two
    MaxStreams,       \* streams open at once
    MaxFaults,        \* bound on failures of the environment
    StoreFails,       \* TRUE when the token store may fail
    Burst             \* failed authentications allowed from one address

missedHeartbeats == 3

ASSUME AgentConstants == Slots # {} /\ MaxDelay \in Nat \ {0} /\ Burst \in Nat \ {0}

VARIABLES
    at,         \* where Run is: dialing, hello, register, up, ending, waiting,
                \* stopped (refused) or cancelled
    cur,        \* the agent's session, while it has one
    delay,      \* Run's backoff
    moved,      \* the machine's addresses changed since the dial, or the wait, began
    streams,    \* streams being served: how many are piped, how many half closed
    sess,       \* the sessions: both ends, messages on the way, silence seen
    token,      \* the agent's token at the relay: valid, revoked, refused (name taken)
    store, registry, draining,  \* the token store and the registry answer; Drain
    failures,   \* failed authentications counted against the agent's address
    faults      \* failures of the environment so far

agentVars == <<at, cur, delay, moved, streams>>
worldVars == <<token, store, registry, draining>>
sessionVars == <<agentVars, sess, worldVars, failures, faults>>

Free == [agent |-> FALSE, relay |-> "none", path |-> TRUE, up |-> "", down |-> "",
         quietA |-> 0, quietR |-> 0]
Over == {"stopped", "cancelled"}
NoStreams == [piped |-> 0, half |-> 0]

AgentInit ==
    /\ at = "dialing" /\ cur = (CHOOSE s \in Slots : TRUE)
    /\ delay = 1 /\ moved = FALSE
    /\ streams = NoStreams
    /\ sess = [s \in Slots |-> Free]
    /\ token = "valid" /\ store = TRUE /\ registry = TRUE /\ draining = FALSE
    /\ failures = 0 /\ faults = 0

-----------------------------------------------------------------------------
Fault == faults < MaxFaults /\ faults' = faults + 1

\* An end that closes its session is seen by the other while the path works.
LeftByAgent(s) == IF sess[s].relay = "none" \/ sess[s].path THEN Free
                  ELSE [sess[s] EXCEPT !.agent = FALSE, !.up = "", !.down = ""]

LeftByRelay(s) == IF ~sess[s].agent THEN Free
                  ELSE [sess[s] EXCEPT !.relay = "none", !.up = "", !.down = ""]

\* runSession returns: a session that was up waits for its streams first, then
\* Run backs off, from the start when the session had registered.  Closing the
\* session makes the streams read EOF, which half-closes their targets.
After(registered) ==
    /\ at' = IF registered THEN "ending" ELSE "waiting"
    /\ delay' = IF registered THEN 1 ELSE delay
    /\ streams' = [piped |-> 0, half |-> streams.piped + streams.half]
    /\ cur' = (CHOOSE s \in Slots : TRUE)
    /\ moved' = FALSE

Leave(registered) ==
    /\ sess' = [sess EXCEPT ![cur] = LeftByAgent(cur)]
    /\ After(registered)

\* A RemoteError is final: Run returns it.
GiveUp ==
    /\ sess' = [sess EXCEPT ![cur] = LeftByAgent(cur)]
    /\ at' = "stopped"
    /\ streams' = NoStreams
    /\ UNCHANGED <<cur, delay, moved>>

-----------------------------------------------------------------------------
(* The agent.                                                              *)
Refused == draining \/ failures >= Burst

Dial(s) ==
    /\ at = "dialing" /\ sess[s] = Free
    /\ s = CHOOSE t \in Slots : sess[t] = Free
    /\ IF Refused
       THEN After(FALSE) /\ UNCHANGED sess
       ELSE /\ at' = "hello" /\ cur' = s /\ moved' = FALSE
            /\ sess' = [sess EXCEPT ![s] = [Free EXCEPT !.agent = TRUE, !.relay = "accepted", !.up = "hello"]]
            /\ UNCHANGED <<delay, streams>>
    /\ UNCHANGED <<worldVars, failures, faults>>

ReadReply ==
    /\ at \in {"hello", "register"} /\ sess[cur].path
    /\ \/ /\ sess[cur].down = "welcome"
          /\ at' = "register"
          /\ sess' = [sess EXCEPT ![cur].down = "", ![cur].up = "register"]
          /\ UNCHANGED <<cur, delay, moved, streams>>
       \/ /\ sess[cur].down = "registered"
          /\ at' = "up"
          /\ sess' = [sess EXCEPT ![cur].down = "", ![cur].quietA = 0]
          /\ UNCHANGED <<cur, delay, moved, streams>>
       \/ sess[cur].down = "error" /\ GiveUp
    /\ UNCHANGED <<worldVars, failures, faults>>

\* The 10 s deadline of the handshake: no reply came, because the path is broken
\* or because the relay is still waiting for the registry.
HandshakeTimeout ==
    /\ at \in {"hello", "register"}
    /\ sess[cur].down = "" \/ ~sess[cur].path
    /\ ~sess[cur].path \/ (sess[cur].up = "register" /\ ~registry)
    /\ Leave(FALSE)
    /\ UNCHANGED <<worldVars, failures, faults>>

\* The relay closed the session (EOF on the control stream).
SessionClosed ==
    /\ at \in {"hello", "register", "up"} /\ sess[cur].relay = "none"
    /\ sess[cur].path /\ sess[cur].down = ""
    /\ sess' = [sess EXCEPT ![cur] = Free]
    /\ After(at = "up")
    /\ UNCHANGED <<worldVars, failures, faults>>

\* heartbeat: a working path carries a ping and its pong within an interval.
Idle(s) == ~sess[s].path \/ (sess[s].up = "" /\ sess[s].down = "")

\* Waiting for the path instead of the missed heartbeats.
HeartbeatPatient ==
    /\ at = "up" /\ Idle(cur) /\ sess[cur].quietA <= missedHeartbeats
    /\ sess' = [sess EXCEPT ![cur].quietA = @ + 1,
                            ![cur].up = IF sess[cur].path THEN "ping" ELSE @]
    /\ UNCHANGED <<agentVars, worldVars, failures, faults>>

Heartbeat ==
    /\ at = "up" /\ Idle(cur)
    /\ IF sess[cur].quietA > missedHeartbeats
       THEN Leave(TRUE)
       ELSE /\ sess' = [sess EXCEPT ![cur].quietA = @ + 1,
                                    ![cur].up = IF sess[cur].path THEN "ping" ELSE @]
            /\ UNCHANGED agentVars
    /\ UNCHANGED <<worldVars, failures, faults>>

ReadPong ==
    /\ at = "up" /\ sess[cur].path /\ sess[cur].down = "pong"
    /\ sess' = [sess EXCEPT ![cur].down = "", ![cur].quietA = 0]
    /\ UNCHANGED <<agentVars, worldVars, failures, faults>>

\* watchAddress: the session's local address is gone.
AddressGone ==
    /\ at = "up" /\ moved
    /\ Leave(TRUE)
    /\ UNCHANGED <<worldVars, failures, faults>>

\* streams.Wait returned; setDisconnected.
StreamsDone ==
    /\ at = "ending" /\ streams = NoStreams
    /\ at' = "waiting" /\ moved' = FALSE
    /\ UNCHANGED <<cur, delay, streams, sess, worldVars, failures, faults>>

\* waitToReconnect: the delay passes, or a change of network since the wait
\* began ends it early.
Reconnect ==
    /\ at = "waiting"
    /\ at' = "dialing"
    /\ delay' = Min({2 * delay, MaxDelay}) \/ (moved /\ delay' = 1)
    /\ moved' = FALSE
    /\ UNCHANGED <<cur, streams, sess, worldVars, failures, faults>>

\* The agent is cancelled, with no stream left to wait for.
Cancel ==
    /\ at \notin Over /\ streams = NoStreams /\ Fault
    /\ at' = "cancelled"
    /\ sess' = [sess EXCEPT ![cur] = IF @.agent THEN LeftByAgent(cur) ELSE @]
    /\ UNCHANGED <<cur, delay, moved, streams, worldVars, failures>>

-----------------------------------------------------------------------------
(* Streams: the relay opens one for each public connection; the agent      *)
(* dials the target and joins the two (serveStream, pipe.Join).            *)
OpenStream ==
    /\ at = "up" /\ sess[cur].path /\ sess[cur].relay = "registered"
    /\ streams.piped + streams.half < MaxStreams
    /\ streams' = [streams EXCEPT !.piped = @ + 1]
    /\ UNCHANGED <<at, cur, delay, moved, sess, worldVars, failures, faults>>

\* The client ends: EOF on the stream half-closes the target.
ClientEnds ==
    /\ at = "up" /\ streams.piped > 0
    /\ streams' = [piped |-> streams.piped - 1, half |-> streams.half + 1]
    /\ UNCHANGED <<at, cur, delay, moved, sess, worldVars, failures, faults>>

\* The target closes its side too, or sends to a stream that is gone.
TargetEnds ==
    /\ streams.half > 0
    /\ streams' = [streams EXCEPT !.half = @ - 1]
    /\ UNCHANGED <<at, cur, delay, moved, sess, worldVars, failures, faults>>

\* A copy fails on either side: both connections are closed at once.
StreamFails ==
    /\ streams.piped > 0
    /\ streams' = [streams EXCEPT !.piped = @ - 1]
    /\ UNCHANGED <<at, cur, delay, moved, sess, worldVars, failures, faults>>

-----------------------------------------------------------------------------
(* The relay.                                                              *)
Arrived(s, m) == sess[s].path /\ sess[s].agent /\ sess[s].up = m

\* authenticate and verifyToken.
Authenticates == store /\ token # "revoked"

\* handshake: authenticate Hello; a failed lookup also answers UNAUTHORIZED, but
\* is not counted against the address.
RelayHello(s) ==
    /\ Arrived(s, "hello") /\ sess[s].relay = "accepted"
    /\ IF Authenticates
       THEN /\ sess' = [sess EXCEPT ![s].up = "", ![s].relay = "authed", ![s].down = "welcome", ![s].quietR = 0]
            /\ UNCHANGED failures
       ELSE /\ sess' = [sess EXCEPT ![s].up = "", ![s].relay = "none", ![s].down = "error"]
            /\ failures' = IF store THEN Min({failures + 1, Burst}) ELSE failures
    /\ UNCHANGED <<agentVars, worldVars, faults>>

\* register: a refusal is an Error; an unreachable registry ends the session.
RelayRegister(s) ==
    /\ Arrived(s, "register") /\ sess[s].relay = "authed"
    /\ sess' = [sess EXCEPT ![s] =
            IF ~registry THEN [LeftByRelay(s) EXCEPT !.up = ""]
            ELSE IF token = "refused" THEN [@ EXCEPT !.up = "", !.down = "error"]
            ELSE [@ EXCEPT !.up = "", !.relay = "registered", !.down = "registered", !.quietR = 0]]
    /\ UNCHANGED <<agentVars, worldVars, failures, faults>>

Serving(s) == sess[s].relay \in {"authed", "registered"}

RelayPing(s) ==
    /\ Arrived(s, "ping") /\ Serving(s) /\ sess[s].down = ""
    /\ sess' = [sess EXCEPT ![s].up = "", ![s].down = "pong", ![s].quietR = 0]
    /\ UNCHANGED <<agentVars, worldVars, failures, faults>>

\* An accepted session whose Hello never comes is closed after 10 s.
RelayHelloTimeout(s) ==
    /\ sess[s].relay = "accepted" /\ ~sess[s].path
    /\ sess' = [sess EXCEPT ![s] = LeftByRelay(s)]
    /\ UNCHANGED <<agentVars, worldVars, failures, faults>>

\* A watchdog that counts and never drops.
WatchdogIdle(s) ==
    /\ Serving(s) /\ ~sess[s].path /\ sess[s].quietR <= missedHeartbeats
    /\ sess' = [sess EXCEPT ![s].quietR = @ + 1]
    /\ UNCHANGED <<agentVars, worldVars, failures, faults>>

\* While the path works the agent's pings keep it from counting.
Watchdog(s) ==
    /\ Serving(s) /\ ~sess[s].path
    /\ sess' = [sess EXCEPT ![s] = IF @.quietR > missedHeartbeats THEN LeftByRelay(s)
                                   ELSE [@ EXCEPT !.quietR = @ + 1]]
    /\ UNCHANGED <<agentVars, worldVars, failures, faults>>

\* DisconnectAgent, Drain, Close: the relay ends a session.
RelayCloses(s) ==
    /\ Serving(s) /\ Fault
    /\ sess' = [sess EXCEPT ![s] = LeftByRelay(s)]
    /\ UNCHANGED <<agentVars, worldVars, failures>>

-----------------------------------------------------------------------------
(* The environment: paths break, addresses change, tokens are revoked or   *)
(* their names taken, the store and the registry stop answering, another   *)
(* agent behind the same address fails to authenticate.                    *)
PathBreaks(s) ==
    /\ sess[s] # Free /\ sess[s].path /\ Fault
    /\ sess' = [sess EXCEPT ![s].path = FALSE]
    /\ UNCHANGED <<agentVars, worldVars, failures>>

NetworkChanges ==
    /\ ~moved /\ at \notin Over /\ Fault
    /\ moved' = TRUE
    /\ sess' = [s \in Slots |-> IF sess[s].agent THEN [sess[s] EXCEPT !.path = FALSE] ELSE sess[s]]
    /\ UNCHANGED <<at, cur, delay, streams, worldVars, failures>>

World ==
    /\ Fault
    /\ \/ token = "valid" /\ token' \in {"revoked", "refused"} /\ UNCHANGED <<store, registry, draining, failures>>
       \/ StoreFails /\ store /\ store' = FALSE /\ UNCHANGED <<token, registry, draining, failures>>
       \/ registry /\ registry' = FALSE /\ UNCHANGED <<token, store, draining, failures>>
       \/ ~draining /\ draining' = TRUE /\ UNCHANGED <<token, store, registry, failures>>
       \/ failures < Burst /\ failures' = Burst /\ UNCHANGED worldVars
    /\ UNCHANGED <<agentVars, sess>>

Recover ==
    /\ ~(store /\ registry /\ ~draining /\ failures = 0)
    /\ store' = TRUE /\ registry' = TRUE /\ draining' = FALSE /\ failures' = 0
    /\ UNCHANGED <<agentVars, sess, token, faults>>

AgentNext ==
    \/ \E s \in Slots : \/ Dial(s) \/ RelayHello(s) \/ RelayRegister(s) \/ RelayPing(s)
                        \/ RelayHelloTimeout(s) \/ Watchdog(s) \/ RelayCloses(s) \/ PathBreaks(s)
    \/ ReadReply \/ HandshakeTimeout \/ SessionClosed \/ Heartbeat \/ ReadPong \/ AddressGone
    \/ StreamsDone \/ Reconnect \/ Cancel
    \/ OpenStream \/ ClientEnds \/ TargetEnds \/ StreamFails
    \/ NetworkChanges \/ World \/ Recover

\* The goroutine of Run, and the relay's of a session.
RunStep ==
    \/ \E s \in Slots : Dial(s)
    \/ ReadReply \/ HandshakeTimeout \/ SessionClosed \/ StreamsDone \/ Reconnect
RelayStep(s) ==
    RelayHello(s) \/ RelayRegister(s) \/ RelayPing(s) \/ RelayHelloTimeout(s) \/ Watchdog(s)

(* Every goroutine and timer of the two programs runs, outages end, and    *)
(* the agent's local services end a connection they were half-closed on.   *)
AgentFairness ==
    /\ WF_sessionVars(RunStep)
    /\ WF_sessionVars(Heartbeat) /\ WF_sessionVars(ReadPong) /\ WF_sessionVars(AddressGone)
    /\ \A s \in Slots : WF_sessionVars(RelayStep(s))
    /\ WF_sessionVars(Recover) /\ WF_sessionVars(TargetEnds)

AgentSpec == AgentInit /\ [][AgentNext]_sessionVars /\ AgentFairness

-----------------------------------------------------------------------------
(* The agent always comes back to serving its tunnels unless it was told   *)
(* to stop or was refused, through broken paths, changed networks, closed  *)
(* sessions, draining relays and an unreachable registry; its targets are  *)
(* assumed to end half-closed connections (Run, runSession).               *)
AgentReturns ==
    []<>(at \in Over \/ (at = "up" /\ sess[cur].path /\ sess[cur].relay = "registered"))

(* A session that only the relay still holds (a half-open connection) is   *)
(* dropped by the relay, so its names can be claimed again (watchdog,      *)
(* handshake's timeouts).                                                  *)
HalfOpenEnds == \A s \in Slots : (sess[s].relay # "none" /\ ~sess[s].agent) ~> (sess[s].relay = "none")
=============================================================================
