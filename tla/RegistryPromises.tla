--------------------------- MODULE RegistryPromises ----------------------------
(***************************************************************************)
(* What NameRegistry promises the sessions and the operators beyond its    *)
(* own books: the properties of its names over time, and the leases it     *)
(* implements.                                                             *)
(***************************************************************************)
EXTENDS NameRegistry

Held(n) == n \in DOMAIN names

Waiting(n) == Held(n) /\ ResOf(n).session = NoOne /\ ~ResOf(n).permanent

\* A parked, non-permanent name is reclaimed or freed in the end: no sequence of
\* disconnects, claims and operators' calls leaves it without a timer that frees it
\* (park, reserve, unreserve and claim all touch the timer).
ParkedEnds == \A n \in Names : Waiting(n) ~> ~Waiting(n)

\* A name stops being held only by a step of the session holding it, or by the
\* revocation of its token: the cleanup of a session that lost the name to a
\* takeover, and a late timer, leave it alone (park's and rollback's checks).
OwnerOnlyStops ==
  [][\A n \in DOMAIN names :
       LET s == ResOf(n).session IN
       s # NoOne /\ ~(Held(n)' /\ (ResOf(n).session # NoOne)') =>
         proc'[s] # proc[s] \/ released' # released]_vars

\* The leases the maps stand for.
LeaseOf(r) == [token |-> r.token, holder |-> r.session]

Leases == [n \in Names |-> IF Held(n) THEN {LeaseOf(ResOf(n))} ELSE {}]

Lease == INSTANCE NameLease WITH lease <- Leases

\* The registry keeps NameLease's promise: whatever sessions, timers and
\* operators interleave, a name goes to another token only after it was free, a
\* held name only to another session of the same agent, and no token holds more
\* names than its policy allows.
LeasesKept == Lease!Spec

Idle == \A s \in Sessions : proc[s].pc \in {"new", "gone"}

\* With no session left, only the reservations in names hold ports and domains,
\* as the comment on nameRegistry says it tracks those in use.
NothingLeaks == Idle =>
  /\ \A d \in DOMAIN domains : InNames(domains[d])
  /\ ports \subseteq {ResOf(n).port : n \in DOMAIN names}

Settled == \A s \in Sessions : proc[s].pc \in {"new", "served", "refused", "gone"}

\* What the comments on activate and lookup say: the tunnel a name resolves to
\* is the one serving it, that of the session holding the name, at least once
\* every session is done opening and closing.
ServingIsOwner == Settled =>
  \A n \in DOMAIN names : ResOf(n).tunnel \in {NoOne, ResOf(n).session}
===============================================================================
