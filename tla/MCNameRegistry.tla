---------------------------- MODULE MCNameRegistry ----------------------------
(***************************************************************************)
(* Instances of NameRegistry for TLC: an agent with two sessions, and an   *)
(* agent of the same or of another token.                                  *)
(***************************************************************************)
EXTENDS RegistryPromises, TLC

CONSTANTS s1, s2, s3, a1, a2, t1, t2, na, nb, d1

MCAgentOf == [s \in Sessions |-> IF s = s3 THEN a2 ELSE a1]
\* The sessions' tokens differ, though an agent may call itself the same: no takeovers.
MCAgentOfOps == [s \in Sessions |-> IF s = s2 THEN a2 ELSE a1]
MCTokenOf == [s \in Sessions |-> IF s = s3 THEN t2 ELSE t1]
MCMaxOf == t1 :> 1 @@ t2 :> 0
MCPolicyOf == t1 :> <<0, 0>> @@ t2 :> <<2, 3>>

Tcp(n, port, prev) == [port |-> port, prev |-> prev, name |-> n, hasPort |-> TRUE, domains |-> {}]
Http(n, doms) == [port |-> 0, prev |-> 0, name |-> n, hasPort |-> FALSE, domains |-> doms]

\* A Register of two tunnels, and ones of one tunnel that compete with them.
MCRequests == {<<Tcp(na, 0, 0), Http(nb, {d1})>>, <<Tcp(na, 0, 2)>>, <<Http(nb, {d1})>>, <<Tcp(nb, 2, 0)>>}

\* Operators reserve names, with and without a port, for both tokens.
MCRequestsOps == {<<Tcp(na, 0, 0)>>}
MCReservable == {[port |-> 2, name |-> na, token |-> t1], [port |-> 0, name |-> na, token |-> t2],
                 [port |-> 2, name |-> nb, token |-> t1]}

\* The small instances of the violations.
MCRequestsEnd == {<<Tcp(na, 0, 0)>>, <<Http(nb, {d1})>>}

\* What the registry and the sessions still refer to.
View == <<[o \in Referenced \ {0} |-> heap[o]], names, domains, ports, closed, firing, bound, proc, revoked, released, clustered>>
===============================================================================
