------------------------------- MODULE NameLease -------------------------------
(***************************************************************************)
(* What a relay's registry promises about tunnel names: a name is free, or *)
(* leased to one token and held by one session, or leased and waiting for  *)
(* a session of that token.  It goes to another token only through free.   *)
(***************************************************************************)
EXTENDS Naturals, FiniteSets

CONSTANTS Names, Sessions, Tokens, TokenOf, AgentOf, MaxOf, NoOne

VARIABLE lease  \* name -> {} or {[token, holder]}, holder NoOne while waiting

HeldBy(t) == {n \in Names : \E l \in lease[n] : l.token = t /\ l.holder # NoOne}

Init == lease = [n \in Names |-> {}]

\* Session s gets name n: free, waiting for its token, or held by another
\* session of its own agent; and its token is not at its cap.
Claim(s, n) ==
  /\ \A l \in lease[n] :
       /\ l.token = TokenOf[s]
       /\ l.holder # NoOne => l.holder # s /\ AgentOf[l.holder] = AgentOf[s]
  /\ ~(MaxOf[TokenOf[s]] > 0 /\ Cardinality(HeldBy(TokenOf[s]) \ {n}) >= MaxOf[TokenOf[s]])
  /\ lease' = [lease EXCEPT ![n] = {[token |-> TokenOf[s], holder |-> s]}]

\* The session holding n leaves, and the name waits or is free.
Leave(n) ==
  /\ \E l \in lease[n] :
       /\ l.holder # NoOne
       /\ lease' \in {[lease EXCEPT ![n] = {}], [lease EXCEPT ![n] = {[l EXCEPT !.holder = NoOne]}]}

\* Waiting names become free.
Lapse(S) ==
  /\ \A n \in S : \E l \in lease[n] : l.holder = NoOne
  /\ lease' = [n \in Names |-> IF n \in S THEN {} ELSE lease[n]]

\* An operator leases a free name to token t.
Reserve(n, t) ==
  /\ lease[n] = {}
  /\ lease' = [lease EXCEPT ![n] = {[token |-> t, holder |-> NoOne]}]

\* Token t is revoked: it leases nothing.
Revoke(t) == lease' = [n \in Names |-> {l \in lease[n] : l.token # t}]

Next ==
  \/ \E n \in Names : Leave(n) \/ (\E s \in Sessions : Claim(s, n)) \/ (\E t \in Tokens : Reserve(n, t))
  \/ \E S \in SUBSET Names : Lapse(S)
  \/ \E t \in Tokens : Revoke(t)

Spec == Init /\ [][Next]_lease
===============================================================================
