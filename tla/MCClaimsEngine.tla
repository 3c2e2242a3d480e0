---------------------------- MODULE MCClaimsEngine ----------------------------
(***************************************************************************)
(* Instances of ClaimsEngine for TLC: two relays, and an agent whose       *)
(* session may come back through the other relay.                          *)
(***************************************************************************)
EXTENDS ClaimsEngine, TLC

CONSTANTS r1, r2, a1, a2, t1, t2, s1, s2, s3, na, nb, d1

MCRelayOf == s1 :> r1 @@ s2 :> r2 @@ s3 :> r2
MCAgentOf == s1 :> a1 @@ s2 :> a1 @@ s3 :> a2
MCTokenOf == s1 :> t1 @@ s2 :> t1 @@ s3 :> t2
MCMaxOf == t1 :> 1 @@ t2 :> 0
MCRangeOf == t1 :> <<0, 0>> @@ t2 :> <<2, 2>>

Tcp(n, port, prev) == [name |-> n, hasPort |-> TRUE, port |-> port, prev |-> prev, domains |-> {}]
Http(n, doms) == [name |-> n, hasPort |-> FALSE, port |-> 0, prev |-> 0, domains |-> doms]

MCBatches ==
  {<<Tcp(na, 0, 0)>>, <<Tcp(na, 0, 2)>>, <<Tcp(nb, 2, 0)>>, <<Http(nb, {d1})>>,
   <<Http(na, {d1}), Tcp(nb, 0, 0)>>, <<Tcp(na, 0, 0), Tcp(nb, 0, 0)>>}

NoResv == [resv |-> << >>, sites |-> {}]
MCDirectories == {NoResv, [resv |-> nb :> [token |-> t2, port |-> 1], sites |-> {}]}

ServedTcp(s, p) == [session |-> s, port |-> p, domains |-> {}]
ServedHttp(s, doms) == [session |-> s, port |-> 0, domains |-> doms]

MCReports ==
  r1 :> {<< >>, na :> ServedTcp(s1, 1)} @@
  r2 :> {<< >>, nb :> ServedTcp(s3, 1), nb :> ServedHttp(s3, {d1})}

\* The instance about agents and operators: one name, one port.
MCBatchesAgents == {<<Tcp(na, 0, 0)>>}
MCReportsAgents == r1 :> {<< >>, na :> ServedTcp(s1, 1)} @@ r2 :> {<< >>}
MCNoResv == {NoResv}
MCRangeOf0 == t1 :> <<0, 0>> @@ t2 :> <<0, 0>>
===============================================================================
