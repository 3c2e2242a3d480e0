------------------------------ MODULE MCCluster -------------------------------
(***************************************************************************)
(* Instances of Cluster for TLC: two relays, an agent that comes back      *)
(* through the other relay, and a second agent of the same token, all      *)
(* asking for one name.                                                    *)
(***************************************************************************)
EXTENDS Cluster, TLC

CONSTANTS r1, r2, a1, a2, t1, s1, s2, s3, na

MCRelayOf == [s \in Sessions |-> IF s = s1 THEN r1 ELSE r2]
MCAgentOf == [s \in Sessions |-> IF s = s3 THEN a2 ELSE a1]
MCTokenOf == [s \in Sessions |-> t1]
MCMaxOf == t1 :> 0
MCRangeOf == t1 :> <<0, 0>>
MCSpecOf == [s \in Sessions |->
  [name |-> na, hasPort |-> FALSE, port |-> 0, prev |-> 0, domains |-> {}]]
MCReports == r1 :> {} @@ r2 :> {}
MCReports1 == r1 :> {}
MCNoResv == {[resv |-> << >>, sites |-> {}]}

\* cmds and last are history, but for the commands already put into net.
MCView == <<engine, nodes>>
===============================================================================
