------------------------------- MODULE MCSafety -------------------------------
(***************************************************************************)
(* The safety of the parts around the name registries, followed one at a   *)
(* time: a backend pool of the edge, a relay's start and stop, a public    *)
(* connection, a sign-in, the ports of a cluster, a standalone relay's     *)
(* store, the limiter of connections, the agent's inspector, and the       *)
(* agents' certificates.  The parts share no state, so one run over the    *)
(* part chosen initially explores each of them on its own.                 *)
(***************************************************************************)
EXTENDS EdgePool, RelayServer, PublicPath, SignIn, PortKeeper, Standalone, RateLimit, Inspector,
        AgentIdentity

VARIABLE part

partsVars == <<poolVars, serverVars, pathVars, signInVars, portVars, standaloneVars,
               limiterVars, inspectorVars, identityVars, part>>

MCAddrs == <<"m1", "m2">>
MCWeight == [m1 |-> 2, m2 |-> 1]
Forward1 == [lb |-> "ROUND_ROBIN", checks |-> "passive", dns |-> FALSE, tls |-> TRUE]
MCForwards == {Forward1,
               [lb |-> "LEAST_CONN", checks |-> "active", dns |-> TRUE, tls |-> FALSE],
               [lb |-> "SOURCE_HASH", checks |-> "active", dns |-> FALSE, tls |-> FALSE]}
MCRules == {{}, {"u1"}, {"u1", "u2"}}

\* A part that isn't followed stays in one initial state.
PartsInit ==
    /\ part \in {"pool", "server", "path", "signin", "ports", "store", "limit", "inspector",
              "identity"}
    /\ PoolInit /\ ServerInit /\ PathInit /\ SignInInit /\ PortInit /\ StandaloneInit
    /\ RateInit /\ InspectorInit /\ IdentityInit
    /\ part # "pool" => fwd = Forward1
    /\ part # "path" => typ = "HTTP" /\ asks = {"basic"}
    /\ part # "signin" => rule = {"u1"}
    /\ part # "store" => Cardinality(minted) = 1

Follows(p, own) == part = p /\ own /\ UNCHANGED part

PartsNext ==
    \/ /\ Follows("pool", PoolNext)
       /\ UNCHANGED <<serverVars, pathVars, signInVars, portVars, standaloneVars,
                       limiterVars, inspectorVars, identityVars>>
    \/ /\ Follows("server", ServerNext)
       /\ UNCHANGED <<poolVars, pathVars, signInVars, portVars, standaloneVars, limiterVars,
                       inspectorVars, identityVars>>
    \/ /\ Follows("path", PathNext)
       /\ UNCHANGED <<poolVars, serverVars, signInVars, portVars, standaloneVars,
                       limiterVars, inspectorVars, identityVars>>
    \/ /\ Follows("signin", SignInNext)
       /\ UNCHANGED <<poolVars, serverVars, pathVars, portVars, standaloneVars, limiterVars,
                       inspectorVars, identityVars>>
    \/ /\ Follows("ports", PortNext)
       /\ UNCHANGED <<poolVars, serverVars, pathVars, signInVars, standaloneVars,
                       limiterVars, inspectorVars, identityVars>>
    \/ /\ Follows("store", StandaloneNext)
       /\ UNCHANGED <<poolVars, serverVars, pathVars, signInVars, portVars, limiterVars,
                       inspectorVars, identityVars>>
    \/ /\ Follows("limit", RateNext)
       /\ UNCHANGED <<poolVars, serverVars, pathVars, signInVars, portVars, standaloneVars,
                       inspectorVars, identityVars>>
    \/ /\ Follows("inspector", InspectorNext)
       /\ UNCHANGED <<poolVars, serverVars, pathVars, signInVars, portVars, standaloneVars,
                       limiterVars, identityVars>>
    \/ /\ Follows("identity", IdentityNext)
       /\ UNCHANGED <<poolVars, serverVars, pathVars, signInVars, portVars, standaloneVars,
                       limiterVars, inspectorVars>>

PartsSpec == PartsInit /\ [][PartsNext]_partsVars
=============================================================================
