-------------------------- MODULE NameRegistryProofs --------------------------
(***************************************************************************)
(* Proofs about NameRegistry, for every set of sessions, tokens, names,    *)
(* domains and ports and for every request: the registry keeps the promise *)
(* of NameLease, a held name is lost only by its holder's own step or a    *)
(* revocation, and with one session per agent and no revocation nothing is *)
(* deleted under a session that registers it.                              *)
(***************************************************************************)
EXTENDS NameRegistryInvariant, RegistryPromises

(* What a step means for who holds which name.                             *)

Same == SameObjects /\ SameSessions /\ names' = names

\* A free name goes to session s, or waits for token t.
NewFor(n, t, s) ==
  /\ n \in Names \ DOMAIN names
  /\ \E o \in Objects, x \in Reservation :
       Gained(n, o, x) /\ x.name = n /\ x.token = t /\ x.session = s

\* Session s gets a name of its token that waits, or that another session of its
\* agent holds.
HeldFor(n, s) ==
  /\ Taken(n, s) /\ ResOf(n).token = TokenOf[s]
  /\ ResOf(n).session # NoOne => ResOf(n).session # s /\ AgentOf[ResOf(n).session] = AgentOf[s]

LEMMA Unaffected ==
  ASSUME RegInv, UNCHANGED <<heap, names>>
  PROVE  Same
  BY DEF RegInv, TypeOK, Same, SameObjects, SameSessions

LEMMA SessionEffect ==
  ASSUME RegInv, NEW s \in Sessions, Step(s) \/ End(s)
  PROVE  \/ Same
         \/ NewFor(Spec1(s).name, TokenOf[s], s) /\ Capped(s)
         \/ HeldFor(Spec1(s).name, s) /\ Capped(s)
         \/ \E o \in DOMAIN heap : LeftBy(o, s) /\ proc'[s] # proc[s]
<1>1. CASE \/ ClaimRefused(s) \/ ClaimInCluster(s) \/ ChoosePort(s) \/ ListenHeld(s)
           \/ ReservePort(s) \/ Bind(s) \/ End(s)
  <2>1. UNCHANGED <<heap, names>>
    BY <1>1, Zenon DEF ClaimRefused, ClaimInCluster, ChoosePort, ListenHeld, ReservePort, Bind, End
  <2> QED BY <2>1, Unaffected
<1>2. CASE SetDomains(s) \/ SetPort(s) \/ Activate(s)
  BY <1>2, SetDomainsKeeps, SetPortKeeps, ActivateKeeps DEF Same
<1>3. CASE ClaimNew(s)
  <2>1. NewFor(Spec1(s).name, TokenOf[s], s)
    <3>1. PICK o \in Objects, x \in Reservation :
            /\ Gained(Spec1(s).name, o, x) /\ Spec1(s).name \in Names \ DOMAIN names
            /\ x.name = Spec1(s).name /\ x.token = TokenOf[s] /\ x.session = s
      BY <1>3, ClaimNewGains, ZenonT(30)
    <3> QED BY <3>1, Zenon DEF NewFor
  <2>2. Capped(s)
    BY <1>3, Decided DEF ClaimNew
  <2> QED BY <2>1, <2>2
<1>4. CASE ClaimHeld(s)
  <2>1. Taken(Spec1(s).name, s)
    BY <1>4, ClaimHeldTakes
  <2>2. /\ Capped(s) /\ ResOf(Spec1(s).name).token = TokenOf[s]
        /\ ResOf(Spec1(s).name).session # NoOne =>
             /\ ResOf(Spec1(s).name).session # s
             /\ AgentOf[ResOf(Spec1(s).name).session] = AgentOf[s]
    BY <1>4, Decided, Zenon DEF ClaimHeld
  <2> QED BY <2>1, <2>2 DEF HeldFor
<1>5. CASE Undo(s) \/ Unwind(s) \/ CloseTunnels(s)
  BY <1>5, EndingLeaves, Unaffected
<1> QED BY <1>1, <1>2, <1>3, <1>4, <1>5 DEF Step

LEMMA Effect ==
  ASSUME RegInv, [Next]_vars
  PROVE  \/ Same
         \/ \E s \in Sessions : NewFor(Spec1(s).name, TokenOf[s], s) /\ Capped(s)
         \/ \E s \in Sessions : HeldFor(Spec1(s).name, s) /\ Capped(s)
         \/ \E s \in Sessions : \E o \in DOMAIN heap : LeftBy(o, s) /\ proc'[s] # proc[s]
         \/ \E S : Dropped(S) /\ Waits(S)
         \/ \E n \in Names, t \in Tokens : NewFor(n, t, NoOne)
         \/ \E t \in Tokens : /\ Dropped({n \in DOMAIN names : ResOf(n).token = t})
                              /\ released' # released
<1>1. CASE \E s \in Sessions, specs \in Requests : Register(s, specs)
  BY <1>1, Unaffected DEF Register
<1>2. CASE \E s \in Sessions : Step(s) \/ End(s)
  BY <1>2, SessionEffect
<1>3. CASE \E o \in Objects : Fire(o) \/ Expire(o)
  BY <1>3, FireKeeps, ExpireDrops DEF Same
<1>4. CASE \E r \in Reservable : Reserve(r)
  BY <1>4, ReserveGains DEF Same, NewFor
<1>5. CASE \E n \in Names : Unreserve(n)
  BY <1>5, UnreserveDrops
<1>6. CASE \E t \in Revocable : DeleteToken(t)
  BY <1>6, Unaffected DEF DeleteToken
<1>7. CASE \E t \in Revocable : ReleaseToken(t)
  <2>1. PICK t \in Revocable : ReleaseToken(t)
    BY <1>7
  <2>2. released' # released /\ t \in Tokens
    BY <2>1, RegistryConstants DEF ReleaseToken
  <2> QED BY <2>1, <2>2, ReleaseDrops
<1>8. CASE Close
  BY <1>8, CloseDrops
<1>9. CASE UNCHANGED vars
  BY <1>9, Unaffected DEF vars
<1> QED BY <1>1, <1>2, <1>3, <1>4, <1>5, <1>6, <1>7, <1>8, <1>9, Zenon DEF Next

LEMMA OwnersStep ==
  ASSUME RegInv, [Next]_vars, NEW n \in DOMAIN names, ResOf(n).session # NoOne,
         ~(n \in DOMAIN names' /\ heap'[names'[n]].session # NoOne)
  PROVE  \/ proc'[ResOf(n).session] # proc[ResOf(n).session]
         \/ released' # released
<1> DEFINE o == names[n]
           s == ResOf(n).session
<1>0. /\ o \in DOMAIN heap /\ heap[o].session = s /\ s # NoOne /\ s \in Sessions
      /\ \A m \in DOMAIN names : names[m] = o => m = n
  BY HeldTyped DEF ResOf
<1> HIDE DEF o, s
<1>1. CASE Same
  BY <1>0, <1>1 DEF Same, SameSessions, o
<1>2. CASE \E m, t, r : NewFor(m, t, r)
  BY <1>0, <1>2 DEF NewFor, Gained, o
<1>3. CASE \E r \in Sessions : HeldFor(Spec1(r).name, r)
  BY <1>0, <1>3, RegistryConstants, Zenon DEF HeldFor, Taken, o
<1>4. CASE \E r \in Sessions : \E p \in DOMAIN heap : LeftBy(p, r) /\ proc'[r] # proc[r]
  <2>1. PICK r \in Sessions, p \in DOMAIN heap : LeftBy(p, r) /\ proc'[r] # proc[r]
    BY <1>4
  <2>2. CASE r = s
    BY <2>1, <2>2 DEF s
  <2>3. CASE r # s
    <3>1. n \in DOMAIN names' /\ names'[n] = o /\ heap'[o].session = heap[o].session
      BY <1>0, <2>1, <2>3 DEF LeftBy, SameSessions, Fewer, o
    <3> QED BY <1>0, <3>1
  <2> QED BY <2>2, <2>3
<1>5. CASE \E S : Dropped(S) /\ Waits(S)
  BY <1>0, <1>5 DEF Dropped, Waits, SameSessions, Fewer, o, ResOf
<1> QED BY <1>1, <1>2, <1>3, <1>4, <1>5, Effect, Zenon

\* A name stops being held only by a step of the session holding it, or by the
\* revocation of its token: the cleanup of a session that lost the name to a
\* takeover, and a late timer, leave it alone (park's and rollback's checks).
THEOREM OwnerStops == Spec => OwnerOnlyStops
<1>1. RegInv /\ [Next]_vars =>
        [\A n \in DOMAIN names :
           LET s == ResOf(n).session IN
           s # NoOne /\ ~(Held(n)' /\ (ResOf(n).session # NoOne)') =>
             proc'[s] # proc[s] \/ released' # released]_vars
  BY OwnersStep DEF Held, ResOf
<1> QED BY RegistrySound, <1>1, PTL DEF Spec, OwnerOnlyStops

-------------------------------------------------------------------------------
(* The registry implements NameLease.                                      *)

\* A name that keeps its reservation, token and session keeps its lease.
LEMMA LeaseKept ==
  ASSUME RegInv, SameObjects, NEW n \in DOMAIN names, n \in DOMAIN names',
         names'[n] = names[n], heap'[names[n]].session = heap[names[n]].session
  PROVE  Leases'[n] = Leases[n]
<1>1. n \in Names /\ names[n] \in DOMAIN heap
  BY HeldTyped
<1>2. LeaseOf(ResOf(n))' = LeaseOf(ResOf(n))
  BY <1>1 DEF LeaseOf, ResOf, SameObjects
<1> QED BY <1>1, <1>2 DEF Leases, Held

LEMMA SameLeases ==
  ASSUME RegInv, Same
  PROVE  Leases' = Leases
<1>1. \A n \in Names : Leases'[n] = Leases[n]
  <2> TAKE n \in Names
  <2>1. CASE n \in DOMAIN names
    <3>1. names[n] \in DOMAIN heap
      BY <2>1, HeldTyped
    <3> QED BY <2>1, <3>1, LeaseKept DEF Same, SameSessions
  <2>2. CASE n \notin DOMAIN names
    BY <2>2 DEF Leases, Held, Same
  <2> QED BY <2>1, <2>2
<1> QED BY <1>1 DEF Leases

LEMMA NewLease ==
  ASSUME RegInv, NEW n, NEW t, NEW s, NewFor(n, t, s)
  PROVE  /\ n \in Names /\ Leases[n] = {}
         /\ Leases' = [Leases EXCEPT ![n] = {[token |-> t, holder |-> s]}]
<1>1. PICK o \in Objects, x \in Reservation :
        Gained(n, o, x) /\ x.name = n /\ x.token = t /\ x.session = s
  BY DEF NewFor
<1>2. n \in Names /\ n \notin DOMAIN names
  BY DEF NewFor
<1>3. Leases'[n] = {[token |-> t, holder |-> s]}
  <2>1. LeaseOf(ResOf(n))' = [token |-> t, holder |-> s]
    BY <1>1 DEF Gained, LeaseOf, ResOf
  <2> QED BY <1>1, <1>2, <2>1, Zenon DEF Leases, Held, Gained
<1>4. \A m \in Names \ {n} : Leases'[m] = Leases[m]
  <2> TAKE m \in Names \ {n}
  <2>1. CASE m \in DOMAIN names
    <3>1. ResOf(m)' = ResOf(m) /\ m \in DOMAIN names'
      BY <1>1, <2>1 DEF Gained, ResOf
    <3> QED BY <2>1, <3>1 DEF Leases, Held, LeaseOf
  <2>2. CASE m \notin DOMAIN names
    BY <1>1, <2>2 DEF Gained, Leases, Held
  <2> QED BY <2>1, <2>2
<1> QED BY <1>2, <1>3, <1>4, Zenon DEF Leases, Held

LEMMA TakenLease ==
  ASSUME RegInv, NEW s \in Sessions, NEW n, HeldFor(n, s)
  PROVE  /\ n \in Names /\ Leases[n] = {LeaseOf(ResOf(n))}
         /\ Leases' = [Leases EXCEPT ![n] = {[token |-> TokenOf[s], holder |-> s]}]
<1>1. n \in DOMAIN names /\ names' = names /\ SameObjects
  BY DEF HeldFor, Taken
<1>2. n \in Names /\ names[n] \in DOMAIN heap /\ \A m \in DOMAIN names : names[m] = names[n] => m = n
  BY <1>1, HeldTyped
<1>3. Leases'[n] = {[token |-> TokenOf[s], holder |-> s]}
  <2>1. LeaseOf(ResOf(n))' = [token |-> TokenOf[s], holder |-> s]
    BY <1>1, <1>2 DEF HeldFor, Taken, SameObjects, LeaseOf, ResOf
  <2> QED BY <1>1, <1>2, <2>1, Zenon DEF Leases, Held
<1>4. \A m \in Names \ {n} : Leases'[m] = Leases[m]
  <2> TAKE m \in Names \ {n}
  <2>1. CASE m \in DOMAIN names
    <3>1. names[m] \in DOMAIN heap \ {names[n]}
      BY <1>2, <2>1, HeldTyped
    <3> QED BY <1>1, <2>1, <3>1, LeaseKept DEF HeldFor, Taken
  <2>2. CASE m \notin DOMAIN names
    BY <1>1, <2>2, Zenon DEF Leases, Held
  <2> QED BY <2>1, <2>2
<1> QED BY <1>1, <1>2, <1>3, <1>4, Zenon DEF Leases, Held

LEMMA DroppedLeases ==
  ASSUME RegInv, NEW S, Dropped(S)
  PROVE  Leases' = [n \in Names |-> IF n \in S THEN {} ELSE Leases[n]]
<1>1. \A n \in Names : Leases'[n] = IF n \in S THEN {} ELSE Leases[n]
  <2> TAKE n \in Names
  <2>1. CASE n \in DOMAIN names \ S
    <3>1. names[n] \in DOMAIN heap /\ n \in DOMAIN names' /\ names'[n] = names[n]
      BY <2>1, HeldTyped DEF Dropped, Fewer
    <3> QED BY <2>1, <3>1, LeaseKept, Zenon DEF Dropped, SameSessions
  <2>2. CASE n \notin DOMAIN names \ S
    BY <2>2 DEF Leases, Held, Dropped
  <2> QED BY <2>1, <2>2
<1> QED BY <1>1 DEF Leases

LEMMA LeftLease ==
  ASSUME RegInv, NEW s \in Sessions, NEW o \in DOMAIN heap, LeftBy(o, s)
  PROVE  \/ Leases' = Leases
         \/ \E n \in DOMAIN names :
              /\ ResOf(n).session # NoOne
              /\ \/ Leases' = [Leases EXCEPT ![n] = {}]
                 \/ Leases' = [Leases EXCEPT ![n] = {[token |-> ResOf(n).token, holder |-> NoOne]}]
<1>1. CASE heap[o].session # s
  BY <1>1, SameLeases DEF LeftBy, Same
<1>2. \A m \in DOMAIN names : names[m] # o => Leases'[m] = Leases[m]
  <2> TAKE m \in DOMAIN names
  <2>1. names[m] \in DOMAIN heap
    BY HeldTyped
  <2> QED BY <2>1, LeaseKept DEF LeftBy, Fewer
<1>3. \A m \in Names \ DOMAIN names : Leases'[m] = Leases[m]
  BY DEF LeftBy, Fewer, Leases, Held
<1>4. CASE \A m \in DOMAIN names : names[m] # o
  <2>1. \A m \in Names : Leases'[m] = Leases[m]
    BY <1>2, <1>3, <1>4
  <2> QED BY <2>1, Zenon DEF Leases
<1>5. ASSUME heap[o].session = s, NEW n \in DOMAIN names, names[n] = o
      PROVE  /\ ResOf(n).session # NoOne
             /\ \/ Leases' = [Leases EXCEPT ![n] = {}]
                \/ Leases' = [Leases EXCEPT ![n] = {[token |-> ResOf(n).token, holder |-> NoOne]}]
  <2>1. /\ n \in Names /\ \A m \in DOMAIN names : names[m] = o => m = n
        /\ ResOf(n).session # NoOne
    BY <1>5, HeldTyped, RegistryConstants, Zenon DEF ResOf
  <2>2. \A m \in Names \ {n} : Leases'[m] = Leases[m]
    BY <1>2, <1>3, <2>1
  <2>3. CASE n \in DOMAIN names'
    <3>1. LeaseOf(ResOf(n))' = [token |-> ResOf(n).token, holder |-> NoOne]
      BY <1>5, <2>3 DEF LeftBy, Fewer, SameObjects, LeaseOf, ResOf
    <3>2. Leases'[n] = {[token |-> ResOf(n).token, holder |-> NoOne]}
      BY <2>1, <2>3, <3>1 DEF Leases, Held
    <3> QED BY <2>1, <2>2, <3>2, Zenon DEF Leases
  <2>4. CASE n \notin DOMAIN names'
    <3>1. Leases'[n] = {}
      BY <2>1, <2>4, Zenon DEF Leases, Held
    <3> QED BY <2>1, <2>2, <3>1, Zenon DEF Leases
  <2> QED BY <2>1, <2>3, <2>4
<1> QED BY <1>1, <1>4, <1>5, Zenon

\* Decide counts the names NameLease counts.
LEMMA CapCounts ==
  ASSUME RegInv, NEW t, NEW n
  PROVE  {m \in Names : \E l \in Leases[m] : l.token = t /\ l.holder # NoOne} \ {n}
           = {m \in DOMAIN names \ {n} : heap[names[m]].token = t /\ heap[names[m]].session # NoOne}
<1>1. \A m \in Names \ DOMAIN names : Leases[m] = {}
  BY DEF Leases, Held
<1>2. \A m \in DOMAIN names : m \in Names /\ Leases[m] = {LeaseOf(ResOf(m))}
  BY HeldTyped DEF Leases, Held
<1>3. \A m \in DOMAIN names : /\ LeaseOf(ResOf(m)).token = heap[names[m]].token
                              /\ LeaseOf(ResOf(m)).holder = heap[names[m]].session
  BY DEF LeaseOf, ResOf
<1> QED BY <1>1, <1>2, <1>3

\* The instance's count is the registry's.
LEMMA SameCount == \A S : Lease!Cardinality(S) = Cardinality(S)
  BY Zenon DEF Lease!Cardinality, Lease!IsFiniteSet, Cardinality, IsFiniteSet

LEMMA ClaimsLease ==
  ASSUME RegInv, NEW s \in Sessions, NEW n \in Names, Capped(s), n = Spec1(s).name,
         \/ Leases[n] = {}
         \/ /\ Leases[n] = {LeaseOf(ResOf(n))} /\ ResOf(n).token = TokenOf[s]
            /\ ResOf(n).session # NoOne =>
                 ResOf(n).session # s /\ AgentOf[ResOf(n).session] = AgentOf[s],
         Leases' = [Leases EXCEPT ![n] = {[token |-> TokenOf[s], holder |-> s]}]
  PROVE  Lease!Claim(s, n)
<1>1. \A l \in Leases[n] :
        /\ l.token = TokenOf[s]
        /\ l.holder # NoOne => l.holder # s /\ AgentOf[l.holder] = AgentOf[s]
  BY DEF LeaseOf
<1>2. Lease!HeldBy(TokenOf[s]) \ {n}
        = {m \in DOMAIN names \ {n} :
             heap[names[m]].token = TokenOf[s] /\ heap[names[m]].session # NoOne}
  BY CapCounts, Zenon DEF Lease!HeldBy
<1>3. ~(MaxOf[TokenOf[s]] > 0 /\ Lease!Cardinality(Lease!HeldBy(TokenOf[s]) \ {n}) >= MaxOf[TokenOf[s]])
  BY <1>2, SameCount, Zenon DEF Capped, Active
<1> QED BY <1>1, <1>3, Zenon DEF Lease!Claim

LEMMA LeaseStep ==
  ASSUME RegInv, [Next]_vars
  PROVE  Lease!Next \/ Leases' = Leases
<1>1. CASE Same
  BY <1>1, SameLeases
<1>2. CASE \E s \in Sessions : NewFor(Spec1(s).name, TokenOf[s], s) /\ Capped(s)
  <2>1. PICK s \in Sessions : NewFor(Spec1(s).name, TokenOf[s], s) /\ Capped(s)
    BY <1>2, Zenon
  <2>2. Spec1(s).name \in Names /\ Lease!Claim(s, Spec1(s).name)
    BY <2>1, NewLease, ClaimsLease, Zenon
  <2> QED BY <2>2 DEF Lease!Next
<1>3. CASE \E s \in Sessions : HeldFor(Spec1(s).name, s) /\ Capped(s)
  <2>1. PICK s \in Sessions : HeldFor(Spec1(s).name, s) /\ Capped(s)
    BY <1>3, ZenonT(30)
  <2>2. Spec1(s).name \in Names /\ Lease!Claim(s, Spec1(s).name)
    BY <2>1, TakenLease, ClaimsLease, Zenon DEF HeldFor
  <2> QED BY <2>2 DEF Lease!Next
<1>4. CASE \E s \in Sessions : \E o \in DOMAIN heap : LeftBy(o, s)
  <2>1. SUFFICES ASSUME NEW n \in DOMAIN names, ResOf(n).session # NoOne,
                        \/ Leases' = [Leases EXCEPT ![n] = {}]
                        \/ Leases' = [Leases EXCEPT ![n] =
                                        {[token |-> ResOf(n).token, holder |-> NoOne]}]
                 PROVE  Lease!Next
    BY <1>4, LeftLease, Zenon
  <2> DEFINE l == LeaseOf(ResOf(n))
  <2>2. n \in Names /\ l \in Leases[n] /\ l.holder # NoOne
    BY <2>1, HeldTyped DEF Leases, Held, LeaseOf
  <2>3. [l EXCEPT !.holder = NoOne] = [token |-> ResOf(n).token, holder |-> NoOne]
    BY DEF LeaseOf
  <2> HIDE DEF l
  <2>4. Lease!Leave(n)
    BY <2>1, <2>2, <2>3, Zenon DEF Lease!Leave
  <2> QED BY <2>2, <2>4 DEF Lease!Next
<1>5. CASE \E S : Dropped(S) /\ Waits(S)
  <2>1. PICK S : Dropped(S) /\ Waits(S)
    BY <1>5
  <2>2. \A n \in S : n \in Names /\ \E l \in Leases[n] : l.holder = NoOne
    <3> TAKE n \in S
    <3>1. n \in DOMAIN names /\ ResOf(n).session = NoOne /\ n \in Names
      BY <2>1, HeldTyped DEF Waits
    <3> QED BY <3>1, Zenon DEF Leases, Held, LeaseOf
  <2>3. Lease!Lapse(S) /\ S \in SUBSET Names
    BY <2>1, <2>2, DroppedLeases DEF Lease!Lapse
  <2> QED BY <2>3 DEF Lease!Next
<1>6. CASE \E n \in Names, t \in Tokens : NewFor(n, t, NoOne)
  <2>1. PICK n \in Names, t \in Tokens : NewFor(n, t, NoOne)
    BY <1>6
  <2>2. Lease!Reserve(n, t)
    BY <2>1, NewLease DEF Lease!Reserve
  <2> QED BY <2>2 DEF Lease!Next
<1>7. CASE \E t \in Tokens : Dropped({n \in DOMAIN names : ResOf(n).token = t})
  <2>1. PICK t \in Tokens : Dropped({n \in DOMAIN names : ResOf(n).token = t})
    BY <1>7
  <2> DEFINE S == {n \in DOMAIN names : ResOf(n).token = t}
  <2>2. \A n \in Names : {l \in Leases[n] : l.token # t} = IF n \in S THEN {} ELSE Leases[n]
    BY DEF Leases, Held, LeaseOf
  <2>3. Leases' = [n \in Names |-> IF n \in S THEN {} ELSE Leases[n]]
    BY <2>1, DroppedLeases
  <2> HIDE DEF S
  <2>4. Leases' = [n \in Names |-> {l \in Leases[n] : l.token # t}]
    BY <2>2, <2>3
  <2>5. Lease!Revoke(t)
    BY <2>4 DEF Lease!Revoke
  <2> QED BY <2>5 DEF Lease!Next
<1> QED BY <1>1, <1>2, <1>3, <1>4, <1>5, <1>6, <1>7, Effect, Zenon

\* The registry keeps NameLease's promise: whatever sessions, timers and
\* operators interleave, a name goes to another token only after it was free, a
\* held name only to another session of the same agent, and no token holds more
\* names than its cap (claim, and every deleteLocked).
THEOREM RegistryKeepsLeases == Spec => LeasesKept
<1>1. Init => Lease!Init
  BY DEF Init, Lease!Init, Leases, Held
<1>2. RegInv /\ [Next]_vars => [Lease!Next]_Leases
  BY LeaseStep
<1> QED BY <1>1, <1>2, RegistrySound, PTL DEF Spec, LeasesKept, Lease!Spec

-------------------------------------------------------------------------------
(* One session per agent: nothing is deleted underfoot.                    *)

\* No agent has a second session while its first is not cleaned up, and operators
\* revoke no token.
Undisturbed == Revocable = {} /\ \A s, t \in Sessions : AgentOf[s] = AgentOf[t] => s = t

\* A registering session holds the reservations it works on, each once.
Owning(s) ==
  proc[s].pc \in Registering =>
    /\ proc[s].pc \in Opening => heap[proc[s].res].session = s
    /\ \A k \in DOMAIN proc[s].opened :
         proc[s].opened[k].res # proc[s].res /\ heap[proc[s].opened[k].res].session = s
    /\ \A j, k \in DOMAIN proc[s].opened : proc[s].opened[j].res = proc[s].opened[k].res => j = k

OwnInv == \A s \in Sessions : Owning(s)

LEMMA HandsOwned ==
  ASSUME RegInv, OwnInv, NEW s \in Sessions, NEW o \in InHand(s)
  PROVE  heap[o].session = s /\ o \in DOMAIN heap /\ s # NoOne
<1>1. o \in DOMAIN heap /\ proc[s].pc \in Registering /\ s # NoOne
  BY RegistryConstants, Zenon DEF InHand
<1>2. CASE o = proc[s].res
  <2>1. o # 0 /\ ProcessOK(proc[s], DOMAIN heap)
    BY <1>1, RegistryConstants, Zenon DEF RegInv, TypeOK, Map
  <2>2. proc[s].pc \in Opening
    BY <1>2, <2>1 DEF ProcessOK
  <2> QED BY <1>1, <1>2, <2>2, Zenon DEF OwnInv, Owning
<1>3. CASE heap[o].session = s
  BY <1>1, <1>3, Zenon
<1> QED BY <1>1, <1>2, <1>3, Zenon DEF InHand

\* The steps that leave a held reservation its name.
LEMMA NotUnderfoot ==
  ASSUME RegInv, OwnInv,
         \/ SameObjects /\ names' = names
         \/ \E n, o, x : Gained(n, o, x)
         \/ \E S : Dropped(S) /\ Waits(S)
         \/ \E s \in Sessions : \E p \in DOMAIN heap : LeftBy(p, s) /\ p \notin InHand(s)'
  PROVE  ~DeletedUnderfoot
<1> SUFFICES ASSUME NEW s \in Sessions, NEW o \in InHand(s) \cap InHand(s)', InNames(o)
             PROVE  heap'[o].name \in DOMAIN names' /\ names'[heap'[o].name] = o
  BY DEF DeletedUnderfoot, InNames
<1>0. heap[o].session = s /\ o \in DOMAIN heap /\ s # NoOne /\ heap[o].name \in DOMAIN names
      /\ names[heap[o].name] = o
  BY HandsOwned DEF InNames
<1>1. CASE SameObjects /\ names' = names
  BY <1>0, <1>1, Zenon DEF SameObjects
<1>2. CASE \E n, q, x : Gained(n, q, x)
  <2>1. PICK n, q, x : Gained(n, q, x)
    BY <1>2
  <2>2. o # q /\ heap'[o] = heap[o]
    BY <1>0, <2>1, Zenon DEF Gained
  <2> QED BY <1>0, <2>1, <2>2 DEF Gained
<1>3. CASE \E S : Dropped(S) /\ Waits(S)
  BY <1>0, <1>3, Zenon DEF Dropped, Waits, SameObjects, Fewer, ResOf
<1>4. CASE \E r \in Sessions : \E p \in DOMAIN heap : LeftBy(p, r) /\ p \notin InHand(r)'
  <2>1. PICK r \in Sessions, p \in DOMAIN heap : LeftBy(p, r) /\ p \notin InHand(r)'
    BY <1>4
  <2>2. CASE p = o
    <3>1. r # s
      BY <2>1, <2>2
    <3> QED BY <1>0, <2>1, <2>2, <3>1, Zenon DEF LeftBy, SameObjects
  <2>3. CASE p # o
    BY <1>0, <2>1, <2>3, Zenon DEF LeftBy, SameObjects, Fewer
  <2> QED BY <2>2, <2>3
<1> QED BY <1>1, <1>2, <1>3, <1>4, Zenon

\* A session that takes no step keeps what it holds, if nobody takes it.
LEMMA OwnStays ==
  ASSUME RegInv, OwnInv, NEW r \in Sessions, proc'[r] = proc[r],
         \A p \in DOMAIN heap : p \in Refs(proc[r]) /\ heap[p].session = r => heap'[p].session = r
  PROVE  Owning(r)'
<1>1. ProcessOK(proc[r], DOMAIN heap) /\ Owning(r)
  BY Zenon DEF RegInv, TypeOK, OwnInv
<1>2. proc[r].pc \in Opening => proc[r].res \in DOMAIN heap /\ proc[r].res \in Refs(proc[r])
  BY <1>1 DEF ProcessOK, Refs
<1>3. \A k \in DOMAIN proc[r].opened :
        proc[r].opened[k].res \in DOMAIN heap /\ proc[r].opened[k].res \in Refs(proc[r])
  BY <1>1, Zenon DEF ProcessOK, Refs
<1> QED BY <1>1, <1>2, <1>3, Zenon DEF Owning

\* A session that goes on with what it has, or with less.
LEMMA OwnWalks ==
  ASSUME RegInv, OwnInv, NEW s \in Sessions,
         proc'[s].pc \in Registering => proc[s].pc \in Registering,
         proc'[s].pc \in Opening => proc[s].pc \in Opening,
         proc'[s].res = proc[s].res, proc'[s].opened = proc[s].opened,
         SameSessions
  PROVE  Owning(s)'
<1>1. ProcessOK(proc[s], DOMAIN heap) /\ Owning(s)
  BY Zenon DEF RegInv, TypeOK, OwnInv
<1>2. proc[s].pc \in Opening => proc[s].res \in DOMAIN heap
  BY <1>1, Zenon DEF ProcessOK
<1>3. \A k \in DOMAIN proc[s].opened : proc[s].opened[k].res \in DOMAIN heap
  BY <1>1 DEF ProcessOK
<1>4. proc[s].pc \in Opening => heap'[proc[s].res].session = heap[proc[s].res].session
  BY <1>2, Zenon DEF SameSessions
<1>5. \A k \in DOMAIN proc[s].opened :
        heap'[proc[s].opened[k].res].session = heap[proc[s].opened[k].res].session
  BY <1>3, Zenon DEF SameSessions
<1> QED BY <1>1, <1>4, <1>5, Zenon DEF Owning

LEMMA OwnRest ==
  ASSUME RegInv, OwnInv, NEW s \in Sessions, \A r \in Sessions \ {s} : proc'[r] = proc[r],
         \A r \in Sessions \ {s} : \A p \in DOMAIN heap :
           p \in Refs(proc[r]) /\ heap[p].session = r => heap'[p].session = r,
         Owning(s)'
  PROVE  OwnInv'
<1>1. \A r \in Sessions \ {s} : Owning(r)'
  BY OwnStays
<1> QED BY <1>1 DEF OwnInv

\* The steps that leave a session what it has in hand.
LEMMA Searches ==
  ASSUME RegInv, NEW s \in Sessions,
         \/ ClaimRefused(s) \/ ClaimInCluster(s) \/ ChoosePort(s) \/ ListenHeld(s)
         \/ ReservePort(s) \/ Bind(s) \/ End(s) \/ SetDomains(s) \/ SetPort(s)
  PROVE  /\ \E pc, cand : Walked(s, pc, cand)
         /\ SameObjects /\ SameSessions /\ names' = names
         /\ proc[s].pc \in Registering \/ proc'[s].pc = "closing"
<1>1. CASE ClaimRefused(s) \/ ClaimInCluster(s) \/ SetDomains(s)
  <2>1. \E pc : Goto(s, pc)
    BY <1>1, Zenon DEF ClaimRefused, ClaimInCluster, SetDomains
  <2>2. proc[s].pc \in Registering
    BY <1>1 DEF ClaimRefused, ClaimInCluster, SetDomains, Registering, Opening
  <2>3. SameObjects /\ SameSessions /\ names' = names
    <3>1. CASE UNCHANGED <<heap, names>>
      BY <3>1, Zenon DEF RegInv, TypeOK, SameObjects, SameSessions
    <3> QED BY <1>1, <3>1, SetDomainsKeeps, Zenon DEF ClaimRefused, ClaimInCluster
  <2> QED BY <2>1, <2>2, <2>3, GotoEffect, Zenon
<1>2. CASE End(s)
  <2>1. Walked(s, "closing", proc[s].cand) /\ UNCHANGED <<heap, names>>
    BY <1>2, GotoEffect, Zenon DEF End
  <2> QED BY <2>1, Zenon DEF Walked, RegInv, TypeOK, SameObjects, SameSessions
<1>3. CASE ChoosePort(s) \/ ListenHeld(s) \/ ReservePort(s) \/ Bind(s)
  <2>1. UNCHANGED <<heap, names>> /\ proc[s].pc \in {"ports", "listen", "reserve", "bind"}
    BY <1>3, Zenon DEF ChoosePort, ListenHeld, ReservePort, Bind
  <2>2. \/ \E pc : Goto(s, pc)
        \/ \E pc, cand : proc' = [proc EXCEPT ![s].pc = pc, ![s].cand = cand]
        \/ \E cand : proc' = [proc EXCEPT ![s].cand = cand]
    <3>1. CASE ChoosePort(s)
      BY <3>1, Zenon DEF ChoosePort
    <3>2. CASE ListenHeld(s)
      BY <3>2, Zenon DEF ListenHeld
    <3>3. CASE ReservePort(s)
      BY <3>3, Zenon DEF ReservePort
    <3>4. CASE Bind(s)
      BY <3>4, Zenon DEF Bind
    <3> QED BY <1>3, <3>1, <3>2, <3>3, <3>4, Zenon
  <2>3. \E pc, cand : Walked(s, pc, cand)
    <3>1. CASE \E cand : proc' = [proc EXCEPT ![s].cand = cand]
      <4>1. PICK cand : proc' = [proc EXCEPT ![s].cand = cand]
        BY <3>1, Zenon
      <4>2. proc[s] \in Process /\ DOMAIN proc = Sessions
        BY Opens, Zenon
      <4>3. [proc EXCEPT ![s].cand = cand] = [proc EXCEPT ![s].pc = proc[s].pc, ![s].cand = cand]
        BY <4>2, Zenon DEF Process
      <4> QED BY <4>1, <4>3, WalkEffect, Zenon
    <3>2. CASE \E pc, cand : proc' = [proc EXCEPT ![s].pc = pc, ![s].cand = cand]
      BY <3>2, WalkEffect, Zenon
    <3> QED BY <2>2, <3>1, <3>2, GotoEffect, Zenon
  <2> QED BY <2>1, <2>3, Zenon DEF RegInv, TypeOK, SameObjects, SameSessions, Registering, Opening
<1>4. CASE SetPort(s)
  <2>1. proc' = [proc EXCEPT ![s].pc = "activate", ![s].cand = << >>] /\ proc[s].pc = "setPort"
    BY <1>4 DEF SetPort
  <2>2. Walked(s, "activate", << >>)
    BY <2>1, WalkEffect, Zenon
  <2> QED BY <1>4, <2>1, <2>2, SetPortKeeps, Zenon DEF Registering, Opening
<1> QED BY <1>1, <1>2, <1>3, <1>4, Zenon

LEMMA SearchOwns ==
  ASSUME RegInv, RegInv', OwnInv, NEW s \in Sessions,
         \/ ClaimRefused(s) \/ ClaimInCluster(s) \/ ChoosePort(s) \/ ListenHeld(s)
         \/ ReservePort(s) \/ Bind(s) \/ End(s) \/ SetDomains(s) \/ SetPort(s)
  PROVE  OwnInv' /\ ~DeletedUnderfoot
<1>1. PICK pc, cand : Walked(s, pc, cand)
  BY Searches, Zenon
<1>2. /\ SameObjects /\ SameSessions /\ names' = names
      /\ proc[s].pc \in Registering \/ proc'[s].pc = "closing"
  BY Searches
<1>3. proc'[s].pc \in Opening => proc[s].pc \in Opening
  <2>1. ProcessOK(proc[s], DOMAIN heap) /\ ProcessOK(proc[s], DOMAIN heap)'
    BY Zenon DEF RegInv, TypeOK
  <2> QED BY <1>1, <2>1, Zenon DEF ProcessOK, Walked
<1>4. proc'[s].pc \in Registering => proc[s].pc \in Registering
  BY <1>2, Zenon DEF Registering, Opening
<1>5. Owning(s)'
  BY <1>1, <1>2, <1>3, <1>4, OwnWalks, Zenon DEF Walked
<1>6. OwnInv'
  BY <1>1, <1>2, <1>5, OwnRest, Zenon DEF Walked, SameSessions
<1> QED BY <1>2, <1>6, NotUnderfoot, Zenon

\* A new name is made of memory nobody points at.
LEMMA ClaimNewOwns ==
  ASSUME RegInv, OwnInv, NEW s \in Sessions, ClaimNew(s)
  PROVE  OwnInv' /\ ~DeletedUnderfoot
<1>1. PICK o \in Objects, x \in Reservation :
           /\ Gained(Spec1(s).name, o, x) /\ Spec1(s).name \in Names \ DOMAIN names
           /\ x.name = Spec1(s).name /\ x.token = TokenOf[s] /\ x.session = s
           /\ x.port = 0 /\ x.domains = {}
           /\ proc' = [proc EXCEPT ![s].pc = "domains", ![s].res = o, ![s].existed = FALSE]
  BY ClaimNewGains, Zenon
<1>2. /\ \A r \in Sessions \ {s} : proc'[r] = proc[r]
      /\ proc'[s].pc = "domains" /\ proc'[s].res = o /\ proc'[s].opened = proc[s].opened
  BY <1>1, ClaimEffect, Zenon
<1>3. \A r \in Sessions : o \notin Refs(proc[r])
  <2>1. PICK q \in Objects : Fresh(q) /\ proc' = [proc EXCEPT ![s].pc = "domains", ![s].res = q, ![s].existed = FALSE]
    BY Zenon DEF ClaimNew
  <2>2. q = o
    BY <1>2, <2>1, ClaimEffect, Zenon
  <2> QED BY <2>1, <2>2 DEF Fresh, Referenced, Refs
<1>4. heap'[o].session = s /\ \A p \in DOMAIN heap \ {o} : heap'[p].session = heap[p].session
  BY <1>1 DEF Gained
<1>5. Owning(s)'
  <2>1. ProcessOK(proc[s], DOMAIN heap) /\ Owning(s) /\ proc[s].pc \in Registering
    BY DEF RegInv, TypeOK, OwnInv, ClaimNew, Registering
  <2>2. ASSUME NEW k \in DOMAIN proc[s].opened
        PROVE  /\ proc[s].opened[k].res # o /\ heap'[proc[s].opened[k].res].session = s
    <3>1. proc[s].opened[k].res \in Refs(proc[s]) /\ proc[s].opened[k].res \in DOMAIN heap
      <4>1. proc[s].opened[k].res \in DOMAIN heap
        BY <2>1, Zenon DEF ProcessOK
      <4> QED BY <4>1, Zenon DEF Refs
    <3>2. heap[proc[s].opened[k].res].session = s
      BY <2>1 DEF Owning
    <3> QED BY <1>3, <1>4, <3>1, <3>2, Zenon
  <2> QED BY <1>2, <1>4, <2>1, <2>2, Zenon DEF Owning
<1>6. OwnInv'
  BY <1>2, <1>3, <1>4, <1>5, OwnRest, Zenon
<1> QED BY <1>1, <1>6, NotUnderfoot, Zenon

\* With one session per agent, only a parked name is claimed again.
LEMMA ClaimHeldOwns ==
  ASSUME RegInv, OwnInv, Undisturbed, NEW s \in Sessions, ClaimHeld(s)
  PROVE  OwnInv' /\ ~DeletedUnderfoot
<1> DEFINE n == Spec1(s).name
           o == names[n]
<1>1. Taken(n, s) /\ o \in DOMAIN heap
  BY ClaimHeldTakes, HeldTyped, Zenon DEF Taken
<1>2. heap[o].session = NoOne
  <2>1. /\ n \in DOMAIN names
        /\ ResOf(n).session # NoOne => ResOf(n).session # s /\ AgentOf[ResOf(n).session] = AgentOf[s]
    BY Decided, Zenon DEF ClaimHeld
  <2>2. ResOf(n).session \in Sessions \cup {NoOne}
    BY <2>1, HeldTyped
  <2> QED BY <2>1, <2>2 DEF Undisturbed, ResOf
<1>3. /\ \A r \in Sessions \ {s} : proc'[r] = proc[r]
      /\ proc'[s].pc = "domains" /\ proc'[s].res = o /\ proc'[s].opened = proc[s].opened
  <2>1. proc' = [proc EXCEPT ![s].pc = "domains", ![s].res = o, ![s].existed = TRUE]
    BY Zenon DEF ClaimHeld
  <2> QED BY <2>1, ClaimEffect, Zenon
<1>4. NoOne \notin Sessions
  BY RegistryConstants, Zenon
<1> HIDE DEF o
<1>5. heap'[o].session = s /\ \A p \in DOMAIN heap \ {o} : heap'[p].session = heap[p].session
  BY <1>1 DEF Taken, o
<1>6. Owning(s)'
  <2>1. ProcessOK(proc[s], DOMAIN heap) /\ Owning(s) /\ proc[s].pc \in Registering
    BY DEF RegInv, TypeOK, OwnInv, ClaimHeld, Registering
  <2>2. ASSUME NEW k \in DOMAIN proc[s].opened
        PROVE  /\ proc[s].opened[k].res # o /\ heap'[proc[s].opened[k].res].session = s
    <3>1. proc[s].opened[k].res \in DOMAIN heap /\ heap[proc[s].opened[k].res].session = s
      <4>1. proc[s].opened[k].res \in DOMAIN heap
        BY <2>1 DEF ProcessOK
      <4> QED BY <2>1, <4>1, Zenon DEF Owning
    <3> QED BY <1>2, <1>4, <1>5, <3>1, Zenon
  <2> QED BY <1>3, <1>5, <2>1, <2>2, ZenonT(30) DEF Owning
<1>7. OwnInv'
  <2>1. \A r \in Sessions \ {s} : \A p \in DOMAIN heap :
          p \in Refs(proc[r]) /\ heap[p].session = r => heap'[p].session = r
    BY <1>2, <1>4, <1>5, Zenon
  <2> QED BY <1>3, <1>6, <2>1, OwnRest, Zenon
<1> QED BY <1>1, <1>7, NotUnderfoot, Zenon DEF Taken

LEMMA ActivateOwns ==
  ASSUME RegInv, OwnInv, NEW s \in Sessions, Activate(s)
  PROVE  OwnInv' /\ ~DeletedUnderfoot
<1> DEFINE last == Len(proc[s].opened) + 1
<1>1. /\ \A r \in Sessions \ {s} : proc'[r] = proc[r]
      /\ proc'[s].pc \in {"claim", "served"} /\ proc'[s].res = 0
      /\ proc[s].pc = "activate" /\ proc[s].res \in DOMAIN heap
      /\ DOMAIN proc'[s].opened = DOMAIN proc[s].opened \cup {last}
      /\ \A k \in DOMAIN proc[s].opened : proc'[s].opened[k] = proc[s].opened[k]
      /\ proc'[s].opened[last].res = proc[s].res
      /\ last \notin DOMAIN proc[s].opened
  BY ActivateEffect, Zenon
<1> HIDE DEF last
<1>2. SameObjects /\ SameSessions /\ names' = names
  BY ActivateKeeps
<1>3. Owning(s)'
  <2>1. /\ heap[proc[s].res].session = s
        /\ \A k \in DOMAIN proc[s].opened :
             proc[s].opened[k].res # proc[s].res /\ heap[proc[s].opened[k].res].session = s
        /\ \A j, k \in DOMAIN proc[s].opened : proc[s].opened[j].res = proc[s].opened[k].res => j = k
    <3>1. proc[s].pc \in Opening /\ proc[s].pc \in Registering /\ Owning(s)
      BY <1>1, Zenon DEF Opening, Registering, OwnInv
    <3> QED BY <3>1, Zenon DEF Owning
  <2>2. \A k \in DOMAIN proc[s].opened : proc[s].opened[k].res \in DOMAIN heap /\ proc[s].opened[k].res # 0
    BY RegistryConstants, Zenon DEF RegInv, TypeOK, ProcessOK, Map
  <2>3. proc[s].res # 0 /\ proc'[s].pc \notin Opening
    BY <1>1, RegistryConstants, Zenon DEF RegInv, TypeOK, Map, Opening
  <2>4. ASSUME NEW k \in DOMAIN proc'[s].opened
        PROVE  proc'[s].opened[k].res # 0 /\ heap'[proc'[s].opened[k].res].session = s
    <3>1. \A p \in DOMAIN heap : heap'[p].session = heap[p].session
      BY <1>2 DEF SameSessions
    <3>2. CASE k = last
      BY <1>1, <2>1, <2>3, <3>1, <3>2, ZenonT(30)
    <3>3. CASE k \in DOMAIN proc[s].opened
      <4>1. proc'[s].opened[k] = proc[s].opened[k]
        BY <1>1, <3>3, Zenon
      <4>2. /\ proc[s].opened[k].res \in DOMAIN heap /\ proc[s].opened[k].res # 0
            /\ heap[proc[s].opened[k].res].session = s
        BY <2>1, <2>2, <3>3, Zenon
      <4> QED BY <3>1, <4>1, <4>2
    <3> QED BY <1>1, <3>2, <3>3, Zenon
  <2>5. ASSUME NEW j \in DOMAIN proc'[s].opened, NEW k \in DOMAIN proc'[s].opened,
               proc'[s].opened[j].res = proc'[s].opened[k].res
        PROVE  j = k
    <3>1. CASE j = last /\ k # last
      BY <1>1, <2>1, <2>5, <3>1, ZenonT(30)
    <3>2. CASE j # last /\ k = last
      BY <1>1, <2>1, <2>5, <3>2, Zenon
    <3>3. CASE j # last /\ k # last
      BY <1>1, <2>1, <2>5, <3>3, Zenon
    <3> QED BY <3>1, <3>2, <3>3, Zenon
  <2> QED BY <1>1, <2>3, <2>4, <2>5, Zenon DEF Owning
<1>4. OwnInv'
  BY <1>1, <1>2, <1>3, OwnRest, Zenon DEF SameSessions
<1> QED BY <1>2, <1>4, NotUnderfoot

\* A reservation that is rolled back is in hand no more.
LEMMA UndoOwns ==
  ASSUME RegInv, RegInv', OwnInv, NEW s \in Sessions, Undo(s)
  PROVE  OwnInv' /\ ~DeletedUnderfoot
<1> DEFINE o == proc[s].res
<1>1. /\ \A r \in Sessions \ {s} : proc'[r] = proc[r]
      /\ proc'[s].pc = "unwind" /\ proc'[s].res = 0 /\ proc'[s].opened = proc[s].opened
  BY UndoEffect, Zenon DEF Undo
<1>2. proc[s].pc = "undo" /\ o \in DOMAIN heap /\ s # NoOne
  BY Opens, RegistryConstants, Zenon DEF Undo, Opening
<1>3. LeftBy(o, s)
  BY <1>2, RollsBackLeaves, Zenon DEF Undo
<1>4. /\ \A k \in DOMAIN proc[s].opened :
           /\ proc[s].opened[k].res # o /\ heap[proc[s].opened[k].res].session = s
           /\ proc[s].opened[k].res \in DOMAIN heap /\ proc[s].opened[k].res # 0
      /\ \A j, k \in DOMAIN proc[s].opened : proc[s].opened[j].res = proc[s].opened[k].res => j = k
  <2>1. proc[s].pc \in Registering /\ Owning(s) /\ ProcessOK(proc[s], DOMAIN heap)
    BY <1>2, Zenon DEF Opening, Registering, OwnInv, RegInv, TypeOK
  <2>2. 0 \notin DOMAIN heap
    BY RegistryConstants, Zenon DEF RegInv, TypeOK, Map
  <2> QED BY <2>1, <2>2, Zenon DEF Owning, ProcessOK
<1> HIDE DEF o
<1>5. /\ \A p \in DOMAIN heap \ {o} : heap'[p].session = heap[p].session
      /\ heap[o].session # s => SameSessions
  BY <1>3 DEF LeftBy
<1>6. Owning(s)'
  <2>1. proc'[s].pc \notin Opening
    BY <1>1 DEF Opening
  <2>2. \A k \in DOMAIN proc[s].opened : heap'[proc[s].opened[k].res].session = s
    BY <1>4, <1>5, Zenon
  <2> QED BY <1>1, <1>4, <2>1, <2>2, Zenon DEF Owning
<1>7. OwnInv'
  <2>1. \A r \in Sessions \ {s} : \A p \in DOMAIN heap :
          p \in Refs(proc[r]) /\ heap[p].session = r => heap'[p].session = r
    BY <1>5, Zenon DEF SameSessions
  <2> QED BY <1>1, <1>6, <2>1, OwnRest, Zenon
<1>8. o \notin InHand(s)'
  <2>1. 0 \notin DOMAIN heap'
    BY RegistryConstants, Zenon DEF RegInv, TypeOK, Map
  <2> QED BY <1>1, <1>4, <2>1, Zenon DEF InHand
<1> QED BY <1>2, <1>3, <1>7, <1>8, NotUnderfoot, Zenon

LEMMA FirstOwns ==
  ASSUME RegInv, RegInv', OwnInv, NEW s \in Sessions, Unwind(s) \/ CloseTunnels(s), proc[s].opened # << >>
  PROVE  OwnInv' /\ ~DeletedUnderfoot
<1> DEFINE o == Head(proc[s].opened).res
<1>0. /\ proc' = [proc EXCEPT ![s].opened = Tail(@)] /\ proc[s].pc \in {"unwind", "closing"}
      /\ RollsBack(o, s, Head(proc[s].opened).existed) \/ Parks(o, s)
  BY DEF Unwind, CloseTunnels
<1>1. /\ \A r \in Sessions \ {s} : proc'[r] = proc[r]
      /\ proc'[s].pc = proc[s].pc /\ proc'[s].res = proc[s].res
      /\ 1 \in DOMAIN proc[s].opened /\ Head(proc[s].opened) = proc[s].opened[1]
      /\ \A k \in DOMAIN proc'[s].opened :
           /\ k \in Nat \ {0} /\ k + 1 \in DOMAIN proc[s].opened
           /\ proc'[s].opened[k] = proc[s].opened[k + 1]
  BY <1>0, FirstEffect, Zenon
<1>2. o \in DOMAIN heap
  BY <1>0, TakesFirst, Zenon
<1>3. LeftBy(o, s)
  BY <1>0, <1>2, RollsBackLeaves, ParksLeaves, Zenon
<1>4. proc[s].pc = "unwind" =>
        /\ proc'[s].res = 0
        /\ \A k \in DOMAIN proc'[s].opened :
             /\ proc'[s].opened[k].res # o /\ heap[proc'[s].opened[k].res].session = s
             /\ proc'[s].opened[k].res \in DOMAIN heap
        /\ \A j, k \in DOMAIN proc'[s].opened :
             proc'[s].opened[j].res = proc'[s].opened[k].res => j = k
  <2> SUFFICES ASSUME proc[s].pc = "unwind"
               PROVE  /\ proc'[s].res = 0
                      /\ \A k \in DOMAIN proc'[s].opened :
                           /\ proc'[s].opened[k].res # o /\ heap[proc'[s].opened[k].res].session = s
                           /\ proc'[s].opened[k].res \in DOMAIN heap
                      /\ \A j, k \in DOMAIN proc'[s].opened :
                           proc'[s].opened[j].res = proc'[s].opened[k].res => j = k
    BY Zenon
  <2>1. /\ proc[s].res = 0
        /\ \A k \in DOMAIN proc[s].opened :
             heap[proc[s].opened[k].res].session = s /\ proc[s].opened[k].res \in DOMAIN heap
        /\ \A j, k \in DOMAIN proc[s].opened : proc[s].opened[j].res = proc[s].opened[k].res => j = k
    <3>1. proc[s].pc \in Registering /\ proc[s].pc \notin Opening /\ Owning(s)
          /\ ProcessOK(proc[s], DOMAIN heap)
      BY Zenon DEF Opening, Registering, OwnInv, RegInv, TypeOK
    <3> QED BY <3>1, Zenon DEF Owning, ProcessOK
  <2>2. \A j, k \in Nat \ {0} : j + 1 # 1 /\ (j + 1 = k + 1 => j = k)
    OBVIOUS
  <2>3. ASSUME NEW k \in DOMAIN proc'[s].opened
        PROVE  proc'[s].opened[k].res # o
    <3>1. k + 1 # 1 /\ {1, k + 1} \subseteq DOMAIN proc[s].opened
      BY <1>1, <2>2
    <3>2. proc'[s].opened[k] = proc[s].opened[k + 1] /\ o = proc[s].opened[1].res
      BY <1>1, Zenon
    <3>3. proc[s].opened[k + 1].res # proc[s].opened[1].res
      BY <2>1, <3>1, ZenonT(30)
    <3> QED BY <3>2, <3>3, Zenon
  <2>4. ASSUME NEW k \in DOMAIN proc'[s].opened
        PROVE  heap[proc'[s].opened[k].res].session = s /\ proc'[s].opened[k].res \in DOMAIN heap
    <3>1. k + 1 \in DOMAIN proc[s].opened /\ proc'[s].opened[k] = proc[s].opened[k + 1]
      BY <1>1, Zenon
    <3> QED BY <2>1, <3>1
  <2>5. ASSUME NEW j \in DOMAIN proc'[s].opened, NEW k \in DOMAIN proc'[s].opened,
               proc'[s].opened[j].res = proc'[s].opened[k].res
        PROVE  j = k
    <3>1. /\ j \in Nat \ {0} /\ k \in Nat \ {0} /\ {j + 1, k + 1} \subseteq DOMAIN proc[s].opened
          /\ proc'[s].opened[j] = proc[s].opened[j + 1] /\ proc'[s].opened[k] = proc[s].opened[k + 1]
      BY <1>1, Zenon
    <3>2. j + 1 = k + 1
      BY <2>1, <2>5, <3>1, Zenon
    <3> QED BY <2>2, <3>1, <3>2, Zenon
  <2> QED BY <1>1, <2>1, <2>3, <2>4, <2>5, Zenon
<1> HIDE DEF o
<1>5. /\ \A p \in DOMAIN heap \ {o} : heap'[p].session = heap[p].session
      /\ heap[o].session # s => SameSessions
  BY <1>3, Zenon DEF LeftBy
<1>6. "closing" \notin Registering /\ "unwind" \notin Opening
  BY DEF Registering, Opening
<1>7. Owning(s)'
  <2>1. CASE proc[s].pc = "unwind"
    <3>1. \A k \in DOMAIN proc'[s].opened : proc'[s].opened[k].res # proc'[s].res
      <4>1. 0 \notin DOMAIN heap
        BY RegistryConstants, Zenon DEF RegInv, TypeOK, Map
      <4> QED BY <1>4, <2>1, <4>1, ZenonT(30)
    <3>2. \A k \in DOMAIN proc'[s].opened : heap'[proc'[s].opened[k].res].session = s
      BY <1>4, <1>5, <2>1
    <3> QED BY <1>1, <1>4, <1>6, <2>1, <3>1, <3>2, Zenon DEF Owning
  <2>2. CASE proc[s].pc = "closing"
    BY <1>1, <1>6, <2>2, Zenon DEF Owning
  <2> QED BY <1>0, <2>1, <2>2
<1>8. OwnInv'
  <2>1. \A r \in Sessions \ {s} : \A p \in DOMAIN heap :
          p \in Refs(proc[r]) /\ heap[p].session = r => heap'[p].session = r
    BY <1>5, Zenon DEF SameSessions
  <2> QED BY <1>1, <1>7, <2>1, OwnRest, Zenon
<1>9. o \notin InHand(s)'
  <2>1. 0 \notin DOMAIN heap'
    BY RegistryConstants, Zenon DEF RegInv, TypeOK, Map
  <2> QED BY <1>0, <1>1, <1>4, <1>6, <2>1 DEF InHand
<1> QED BY <1>2, <1>3, <1>8, <1>9, NotUnderfoot, Zenon

LEMMA EndOwns ==
  ASSUME RegInv, OwnInv, NEW s \in Sessions,
         \/ \E specs \in Requests : Register(s, specs)
         \/ (Unwind(s) \/ CloseTunnels(s)) /\ proc[s].opened = << >>
  PROVE  OwnInv' /\ ~DeletedUnderfoot
<1>1. proc[s] \in Process /\ DOMAIN proc = Sessions /\ ProcessOK(proc[s], DOMAIN heap)
  BY Opens, Zenon
<1>2. UNCHANGED <<heap, names>>
  BY DEF Register, Unwind, CloseTunnels, Stores
<1>3. /\ \A r \in Sessions \ {s} : proc'[r] = proc[r]
      /\ proc'[s].pc \in {"refused", "gone"} \/ (proc'[s].pc = "claim" /\ proc'[s].opened = << >>)
  <2>1. ASSUME NEW specs \in Requests, Register(s, specs)
        PROVE  /\ \A r \in Sessions \ {s} : proc'[r] = proc[r]
               /\ proc'[s].pc = "claim" /\ proc'[s].opened = << >>
    <3>1. /\ proc'[s] = [[proc[s] EXCEPT !.pc = "claim"] EXCEPT !.specs = specs]
          /\ \A r \in Sessions \ {s} : proc'[r] = proc[r] /\ proc[s].pc = "new"
      BY <1>1, <2>1, Zenon DEF Register
    <3>2. proc'[s].pc = "claim" /\ proc'[s].opened = proc[s].opened
      BY <1>1, <3>1, Zenon DEF Process
    <3>3. proc[s].opened = << >>
      BY <1>1, <2>1, Zenon DEF ProcessOK, Register
    <3> QED BY <3>1, <3>2, <3>3
  <2>2. CASE Goto(s, "refused")
    <3>1. Walked(s, "refused", proc[s].cand)
      BY <2>2, GotoEffect, Zenon
    <3> QED BY <3>1, Zenon DEF Walked
  <2>3. CASE proc' = [proc EXCEPT ![s] = [NewProcess EXCEPT !.pc = "gone"]]
    BY <1>1, <2>3, Zenon DEF NewProcess
  <2> QED BY <2>1, <2>2, <2>3 DEF Unwind, CloseTunnels
<1>4. Owning(s)'
  BY <1>3 DEF Owning, Registering, Opening
<1>5. SameObjects /\ SameSessions
  BY <1>2, Zenon DEF RegInv, TypeOK, SameObjects, SameSessions
<1>6. OwnInv'
  BY <1>3, <1>4, <1>5, OwnRest, Zenon DEF SameSessions
<1> QED BY <1>2, <1>5, <1>6, NotUnderfoot, Zenon

\* Timers, operators and shutdown take nothing that is held.
LEMMA OutsideOwns ==
  ASSUME RegInv, OwnInv, UNCHANGED proc,
         \/ SameObjects /\ SameSessions /\ names' = names
         \/ \E S : Dropped(S) /\ Waits(S)
  PROVE  OwnInv' /\ ~DeletedUnderfoot
<1>1. SameSessions
  BY Zenon DEF Dropped
<1>2. OwnInv'
  BY <1>1, OwnStays, Zenon DEF OwnInv, SameSessions
<1> QED BY <1>2, NotUnderfoot

LEMMA ReserveOwns ==
  ASSUME RegInv, OwnInv, NEW q \in Reservable, Reserve(q)
  PROVE  OwnInv' /\ ~DeletedUnderfoot
<1>0. UNCHANGED proc
  BY DEF Reserve
<1>1. CASE SameObjects /\ SameSessions /\ names' = names
  BY <1>0, <1>1, OutsideOwns
<1>2. CASE q.name \notin DOMAIN names
  <2>1. PICK o \in Objects, x \in Reservation : Gained(q.name, o, x)
    <3>1. ~(names' = names)
      <4>1. \E o : names' = With(names, q.name, o)
        BY ReserveWrites
      <4>2. q.name \in DOMAIN names'
        BY <4>1 DEF With
      <4> QED BY <1>2, <4>2, Zenon
    <3> QED BY <3>1, ReserveGains
  <2>2. PICK p \in Objects : Fresh(p) /\ names' = With(names, q.name, p)
    BY <1>2, ReserveWrites, Zenon
  <2>3. p = o
    BY <2>1, <2>2 DEF Gained, With
  <2>4. \A r \in Sessions : o \notin Refs(proc[r])
    <3>1. ASSUME NEW r \in Sessions, o \in Refs(proc[r])
          PROVE  o \in Referenced
      BY <3>1 DEF Referenced, Refs
    <3> QED BY <2>2, <2>3, <3>1, Zenon DEF Fresh
  <2>5. \A r \in Sessions : Owning(r)'
    BY <1>0, <2>1, <2>4, OwnStays, Zenon DEF Gained
  <2> QED BY <2>1, <2>5, NotUnderfoot, Zenon DEF OwnInv
<1>3. CASE q.name \in DOMAIN names
  <2>1. names' = names
    <3>1. names' = With(names, q.name, names[q.name])
      BY <1>3, ReserveWrites, Zenon
    <3>2. DOMAIN names' = DOMAIN names /\ \A n \in DOMAIN names : names'[n] = names[n]
      BY <1>3, <3>1, Zenon DEF With
    <3>3. names \in [DOMAIN names -> DOMAIN heap]
      BY Zenon DEF RegInv, TypeOK, Map
    <3> QED BY <3>1, <3>2, <3>3 DEF With
  <2>2. SameObjects /\ SameSessions
    BY <1>3, ReserveGains
  <2> QED BY <1>1, <2>1, <2>2, Zenon
<1> QED BY <1>2, <1>3

LEMMA OwnStep ==
  ASSUME RegInv, OwnInv, Undisturbed, [Next]_vars
  PROVE  OwnInv' /\ ~DeletedUnderfoot
<1>0. RegInv'
  BY RegStep
<1>1. ASSUME NEW s \in Sessions, NEW specs \in Requests, Register(s, specs)
      PROVE  OwnInv' /\ ~DeletedUnderfoot
  BY <1>1, EndOwns
<1>2. ASSUME NEW s \in Sessions, Step(s) \/ End(s)
      PROVE  OwnInv' /\ ~DeletedUnderfoot
  <2>1. CASE \/ ClaimRefused(s) \/ ClaimInCluster(s) \/ ChoosePort(s) \/ ListenHeld(s)
             \/ ReservePort(s) \/ Bind(s) \/ End(s) \/ SetDomains(s) \/ SetPort(s)
    BY <1>0, <2>1, SearchOwns
  <2>2. CASE ClaimNew(s) \/ ClaimHeld(s) \/ Activate(s)
    BY <2>2, ClaimNewOwns, ClaimHeldOwns, ActivateOwns, Zenon
  <2>3. CASE Undo(s) \/ Unwind(s) \/ CloseTunnels(s)
    BY <1>0, <2>3, UndoOwns, FirstOwns, EndOwns, Zenon
  <2> QED BY <1>2, <2>1, <2>2, <2>3, Zenon DEF Step
<1>3. ASSUME NEW o \in Objects, Fire(o) \/ Expire(o)
      PROVE  OwnInv' /\ ~DeletedUnderfoot
  <2>1. UNCHANGED proc
    BY <1>3 DEF Fire, Expire
  <2> QED BY <1>3, <2>1, FireKeeps, ExpireDrops, OutsideOwns, Zenon
<1>4. ASSUME NEW r \in Reservable, Reserve(r)
      PROVE  OwnInv' /\ ~DeletedUnderfoot
  BY <1>4, ReserveOwns
<1>5. ASSUME NEW n \in Names, Unreserve(n)
      PROVE  OwnInv' /\ ~DeletedUnderfoot
  <2>1. UNCHANGED proc
    BY <1>5 DEF Unreserve
  <2> QED BY <1>5, <2>1, UnreserveDrops, OutsideOwns, Zenon
<1>6. CASE Close
  <2>1. UNCHANGED proc
    BY <1>6 DEF Close
  <2> QED BY <1>6, <2>1, CloseDrops, OutsideOwns, Zenon
<1>7. CASE UNCHANGED vars
  <2>1. UNCHANGED <<proc, heap, names>>
    BY <1>7 DEF vars
  <2> QED BY <2>1, OutsideOwns, Zenon DEF RegInv, TypeOK, SameObjects, SameSessions
<1> QED BY <1>1, <1>2, <1>3, <1>4, <1>5, <1>6, <1>7, Zenon DEF Next, Undisturbed

\* Without revocations, and with one session per agent, no reservation leaves the
\* registry under a session that goes on with it, in any order of registrations,
\* failures, grace timers, reservations and shutdowns (openTunnel, rollback,
\* closeTunnels, park, expire, unreserve, close).
THEOREM NothingUnderfoot == Undisturbed => (Spec => [][~DeletedUnderfoot]_vars)
<1> SUFFICES ASSUME Undisturbed PROVE Spec => [][~DeletedUnderfoot]_vars
  BY Zenon
<1>1. Init => OwnInv
  BY DEF Init, NewProcess, OwnInv, Owning, Registering, Opening
<1>2. RegInv /\ OwnInv /\ [Next]_vars => RegInv' /\ OwnInv' /\ ~DeletedUnderfoot
  BY OwnStep, RegStep
<1> QED BY RegInitInv, <1>1, <1>2, PTL DEF Spec

===============================================================================
