----------------------------- MODULE NameRegistry -----------------------------
(***************************************************************************)
(* A relay's own registry (go/tunnel/relay/registry.go) and the sessions   *)
(* that use it.  Every registry method holds one mutex, so each call is    *)
(* one action; between the calls of openTunnel, register and closeTunnels  *)
(* other sessions, grace timers and operators run.  Reservations are       *)
(* pointers in the code, which sessions keep across calls: here they are   *)
(* Objects, and a session may hold one that left the registry long ago.    *)
(***************************************************************************)
EXTENDS ClaimRules, Sequences, FiniteSets

CONSTANTS
  Sessions, Tokens, Names, Domains,
  AgentOf, TokenOf,      \* the agent ID and token of a session
  MaxOf,                 \* MaxTunnels of a token's policy, 0 = no cap
  PolicyOf,              \* <<PortMin, PortMax>> of a token's policy, <<0, 0>> = none
  PortMin, PortMax,      \* the relay's port range
  Busy,                  \* ports another program of the machine listens on
  BadNames,              \* names the checks before claim refuse
  Requests,              \* the spec lists a Register may carry
  Reservable,            \* the [name, token, port] operators may reserve
  Revocable,             \* the tokens operators may revoke
  Modes,                 \* whether the relay may, or must, be a node of a cluster
  Objects,               \* reservation objects: a bound on the heap
  NoOne                  \* a nil session or tunnel

Ports == PortMin..PortMax
PortOrNone == Ports \cup {0}

TunnelSpec == [name : Names, hasPort : BOOLEAN, port : Nat, prev : Nat, domains : SUBSET Domains]

ASSUME RegistryConstants ==
  /\ AgentOf \in [Sessions -> {AgentOf[s] : s \in Sessions}]
  /\ TokenOf \in [Sessions -> Tokens]
  /\ MaxOf \in [Tokens -> Nat]
  /\ PolicyOf \in [Tokens -> Nat \X Nat]
  /\ PortMin \in Nat \ {0} /\ PortMax \in Nat
  /\ Busy \subseteq Ports
  /\ Requests \subseteq Seq(TunnelSpec)
  /\ Reservable \subseteq [name : Names, token : Tokens, port : PortOrNone]
  /\ Revocable \subseteq Tokens
  /\ Modes \subseteq BOOLEAN
  /\ Objects \subseteq Nat \ {0}
  /\ NoOne \notin Sessions

VARIABLES
  heap,      \* the reservations, by object
  names,     \* names: tunnel name -> reservation
  domains,   \* domains: custom domain -> reservation
  ports,     \* ports: the public ports taken
  closed,    \* closed
  firing,    \* expire callbacks that wait for the mutex
  bound,     \* the operating system's listeners: port -> session, reservation
  proc,      \* where each session is in serveAgent
  revoked,   \* tokens deleted from the store
  released,  \* and whose reservations were released
  clustered  \* the relay is a node of a cluster

vars == <<heap, names, domains, ports, closed, firing, bound, proc, revoked, released, clustered>>

\* armed: the reservation's grace timer runs.  agentID is the session's.
NewReservation(n, t) ==
  [name |-> n, token |-> t, port |-> 0, domains |-> {}, permanent |-> FALSE,
   session |-> NoOne, tunnel |-> NoOne, armed |-> FALSE]

\* pc: where the session is; specs, i: the Register's tunnels and the one being
\* opened; res, existed: what its claim returned; cand: the ports to try; opened:
\* the tunnels opened so far, then the session's own.
NewProcess == [pc |-> "new", specs |-> << >>, i |-> 1, res |-> 0, existed |-> FALSE,
               cand |-> << >>, opened |-> << >>]

Init ==
  /\ heap = << >> /\ names = << >> /\ domains = << >> /\ bound = << >>
  /\ ports = {} /\ firing = {} /\ revoked = {} /\ released = {}
  /\ closed = FALSE /\ clustered \in Modes
  /\ proc = [s \in Sessions |-> NewProcess]

-------------------------------------------------------------------------------
(* The registry's helpers, as functions of its state.                      *)

Without(f, S) == [k \in DOMAIN f \ S |-> f[k]]
With(f, k, v) == [x \in DOMAIN f \cup {k} |-> IF x = k THEN v ELSE f[x]]

InNames(o) == heap[o].name \in DOMAIN names /\ names[heap[o].name] = o

\* An object nothing points at: Go may reuse its memory.
Referenced ==
  {names[n] : n \in DOMAIN names} \cup {domains[d] : d \in DOMAIN domains} \cup firing
    \cup {proc[s].res : s \in Sessions}
    \cup UNION {{proc[s].opened[i].res : i \in DOMAIN proc[s].opened} : s \in Sessions}
Fresh(o) ==
  /\ o \in Objects \ Referenced
  /\ \A q \in Objects \ Referenced : o <= q

Stores(h) == heap' = h /\ UNCHANGED <<names, domains, ports>>

\* A faulty variant of Deletes: domains stay taken.
DeletesKeepDomains(h, O) ==
  /\ heap' = [o \in DOMAIN h |-> [h[o] EXCEPT !.armed = @ /\ o \notin O]]
  /\ names' = Without(names, {n \in DOMAIN names : names[n] \in O})
  /\ ports' = ports \ {h[o].port : o \in O}
  /\ UNCHANGED domains

\* deleteLocked of every reservation of O, whose fields are h's.
Deletes(h, O) ==
  /\ heap' = [o \in DOMAIN h |-> [h[o] EXCEPT !.armed = @ /\ o \notin O]]
  /\ names' = Without(names, {n \in DOMAIN names : names[n] \in O})
  /\ ports' = ports \ {h[o].port : o \in O}
  /\ domains' = Without(domains, {d \in DOMAIN domains : domains[d] \in O /\ d \in h[domains[d]].domains})

\* Faulty variants of Parks: no timer is started, or whoever asks is believed.
ParksNoTimer(o, s) ==
  IF heap[o].session # s THEN Stores(heap)
  ELSE Stores([heap EXCEPT ![o].session = NoOne, ![o].tunnel = NoOne])
ParksForAnyone(o, s) ==
  LET h == [heap EXCEPT ![o].session = NoOne, ![o].tunnel = NoOne] IN
  IF ~InNames(o) \/ heap[o].permanent THEN Stores(h)
  ELSE IF closed \/ clustered THEN Deletes(h, {o})
  ELSE Stores([h EXCEPT ![o].armed = TRUE])

\* park: nothing when another session took the reservation over.
Parks(o, s) ==
  LET h == [heap EXCEPT ![o].session = NoOne, ![o].tunnel = NoOne] IN
  IF heap[o].session # s THEN Stores(heap)
  ELSE IF ~InNames(o) \/ heap[o].permanent THEN Stores(h)
  ELSE IF closed \/ clustered THEN Deletes(h, {o})
  ELSE Stores([h EXCEPT ![o].armed = TRUE])

\* rollback: a reclaimed reservation is parked again, a new one is released.
RollsBack(o, s, existed) ==
  IF existed THEN Parks(o, s)
  ELSE IF heap[o].session = s THEN Deletes(heap, {o})
  ELSE Stores(heap)

\* tunnel.close: the listener of session s's tunnel of reservation o.
Unlistened(o, s) == Without(bound, {p \in DOMAIN bound : bound[p] = [session |-> s, res |-> o]})

-------------------------------------------------------------------------------
(* register and openTunnel, one action per registry call or bind.          *)

Spec1(s) == proc[s].specs[proc[s].i]
Goto(s, pc) == proc' = [proc EXCEPT ![s].pc = pc]

\* The agent's session starts with its one Register; a closing relay or a
\* revoked token lets no session in.
Register(s, specs) ==
  /\ proc[s].pc = "new"
  /\ ~closed /\ TokenOf[s] \notin revoked
  /\ specs # << >>
  /\ proc' = [proc EXCEPT ![s].pc = "claim", ![s].specs = specs]
  /\ UNCHANGED <<heap, names, domains, ports, closed, firing, bound, revoked, released, clustered>>

\* activeLocked: the token's connected tunnels, not counting name's.
Active(token, name) ==
  Cardinality({n \in DOMAIN names \ {name} :
                 heap[names[n]].token = token /\ heap[names[n]].session # NoOne})

HolderOf(name, s) ==
  {LET h == heap[names[n]] IN
   [token |-> h.token, agent |-> IF h.session = NoOne THEN NoOne ELSE AgentOf[h.session],
    connected |-> h.session # NoOne, sameSession |-> h.session = s] :
      n \in {name} \cap DOMAIN names}

Decision(s) ==
  LET name == Spec1(s).name IN
  Decide(HolderOf(name, s), TokenOf[s], AgentOf[s], Active(TokenOf[s], name), MaxOf[TokenOf[s]])

\* The checks of openTunnel that need no registry, and claim's refusal.
Refused(s) == Spec1(s).name \in BadNames \/ Decision(s) \in Refusals

ClaimRefused(s) ==
  /\ proc[s].pc = "claim" /\ Refused(s)
  /\ Goto(s, "unwind")
  /\ UNCHANGED <<heap, names, domains, ports, closed, firing, bound, revoked, released, clustered>>

ClaimNew(s) ==
  /\ proc[s].pc = "claim" /\ ~Refused(s) /\ Decision(s) = "NEW"
  /\ \E o \in Objects :
       /\ Fresh(o)
       /\ heap' = With(heap, o, [NewReservation(Spec1(s).name, TokenOf[s]) EXCEPT !.session = s])
       /\ names' = With(names, Spec1(s).name, o)
       /\ proc' = [proc EXCEPT ![s].pc = "domains", ![s].res = o, ![s].existed = FALSE]
  /\ UNCHANGED <<domains, ports, closed, firing, bound, revoked, released, clustered>>

\* A reclaim or a takeover; a takeover stops the stale session's listener.
ClaimHeld(s) ==
  LET o == names[Spec1(s).name] IN
  /\ proc[s].pc = "claim" /\ ~Refused(s) /\ Decision(s) \in {"RECLAIM", "TAKEOVER"}
  /\ heap' = [heap EXCEPT ![o].session = s, ![o].tunnel = NoOne, ![o].armed = FALSE]
  /\ bound' = IF heap[o].tunnel # NoOne /\ Decision(s) = "TAKEOVER"
                THEN Unlistened(o, heap[o].tunnel) ELSE bound
  /\ proc' = [proc EXCEPT ![s].pc = "domains", ![s].res = o, ![s].existed = TRUE]
  /\ UNCHANGED <<names, domains, ports, closed, firing, revoked, released, clustered>>

\* setDomains: all of the spec's domains, or none.
SetDomains(s) ==
  LET o == proc[s].res
      new == Spec1(s).domains
      taken == \E d \in new \cap DOMAIN domains : domains[d] # o
      own == {d \in DOMAIN domains : d \in heap[o].domains /\ domains[d] = o}
  IN
  /\ proc[s].pc = "domains"
  /\ \/ taken /\ Goto(s, "undo") /\ UNCHANGED <<heap, domains>>
     \/ /\ ~taken
        /\ heap' = [heap EXCEPT ![o].domains = new]
        /\ domains' = [d \in (DOMAIN domains \ own) \cup new |-> IF d \in new THEN o ELSE domains[d]]
        /\ Goto(s, IF clustered THEN "cluster" ELSE IF Spec1(s).hasPort THEN "ports" ELSE "activate")
  /\ UNCHANGED <<names, ports, closed, firing, bound, revoked, released, clustered>>

\* claimInCluster: the cluster's registry answers in its own time.
ClaimInCluster(s) ==
  /\ proc[s].pc = "cluster"
  /\ \E granted \in BOOLEAN : Goto(s, IF granted THEN "activate" ELSE "undo")
  /\ UNCHANGED <<heap, names, domains, ports, closed, firing, bound, revoked, released, clustered>>

\* listenTunnelPort: the port held, or the candidates in the order tried.
ChoosePort(s) ==
  LET spec == Spec1(s)
      held == heap[proc[s].res].port
      range == PolicyRange(PolicyOf[TokenOf[s]][1], PolicyOf[TokenOf[s]][2], PortMin, PortMax)
      inRange == [k \in 1..(range[2] - range[1] + 1) |-> range[1] + k - 1]
      try(pc, cand) == proc' = [proc EXCEPT ![s].pc = pc, ![s].cand = cand]
  IN
  /\ proc[s].pc = "ports"
  /\ IF held # 0 /\ spec.port \in {0, held} THEN try("listen", <<held>>)
     ELSE IF spec.port # 0
       THEN IF CheckRequestedPort(spec.port, range, PortMin, PortMax) = "OK"
              THEN try("reserve", <<spec.port>>) ELSE Goto(s, "undo")
     ELSE IF ~RangeOverlaps(range) THEN Goto(s, "undo")
     ELSE try("reserve", (IF spec.prev \in range[1]..range[2] THEN <<spec.prev>> ELSE << >>) \o inRange)
  /\ UNCHANGED <<heap, names, domains, ports, closed, firing, bound, revoked, released, clustered>>

Free(p) == p \notin DOMAIN bound \cup Busy
Listens(s, p) == bound' = With(bound, p, [session |-> s, res |-> proc[s].res])

\* The held port is bound without reservePort: the reservation has it.
ListenHeld(s) ==
  LET p == Head(proc[s].cand) IN
  /\ proc[s].pc = "listen"
  /\ \/ Free(p) /\ Listens(s, p) /\ proc' = [proc EXCEPT ![s].pc = "activate", ![s].cand = << >>]
     \/ ~Free(p) /\ proc' = [proc EXCEPT ![s].pc = "undo", ![s].cand = << >>] /\ UNCHANGED bound
  /\ UNCHANGED <<heap, names, domains, ports, closed, firing, revoked, released, clustered>>

\* tryListen: reservePort, then the bind, which fails for another's listener
\* and gives the port back.
ReservePort(s) ==
  LET cand == proc[s].cand IN
  /\ proc[s].pc = "reserve"
  /\ \/ cand = << >> /\ Goto(s, "undo") /\ UNCHANGED ports
     \/ /\ cand # << >> /\ Head(cand) \in ports
        /\ proc' = [proc EXCEPT ![s].cand = Tail(cand)]
        /\ UNCHANGED ports
     \/ /\ cand # << >> /\ Head(cand) \notin ports
        /\ ports' = ports \cup {Head(cand)}
        /\ Goto(s, "bind")
  /\ UNCHANGED <<heap, names, domains, closed, firing, bound, revoked, released, clustered>>

Bind(s) ==
  LET p == Head(proc[s].cand) IN
  /\ proc[s].pc = "bind"
  /\ \/ Free(p) /\ Listens(s, p) /\ Goto(s, "setPort") /\ UNCHANGED ports
     \/ /\ ~Free(p)
        /\ ports' = ports \ {p}
        /\ proc' = [proc EXCEPT ![s].pc = "reserve", ![s].cand = Tail(@)]
        /\ UNCHANGED bound
  /\ UNCHANGED <<heap, names, domains, closed, firing, revoked, released, clustered>>

SetPort(s) ==
  LET o == proc[s].res
      p == Head(proc[s].cand)
  IN
  /\ proc[s].pc = "setPort"
  /\ ports' = ports \ ({heap[o].port} \ {0, p})
  /\ heap' = [heap EXCEPT ![o].port = p]
  /\ proc' = [proc EXCEPT ![s].pc = "activate", ![s].cand = << >>]
  /\ UNCHANGED <<names, domains, closed, firing, bound, revoked, released, clustered>>

Activate(s) ==
  LET me == proc[s]
      next == IF me.i < Len(me.specs) THEN [me EXCEPT !.pc = "claim", !.i = @ + 1]
                                      ELSE [me EXCEPT !.pc = "served"]
  IN
  /\ me.pc = "activate"
  /\ heap' = [heap EXCEPT ![me.res].tunnel = s]
  /\ proc' = [proc EXCEPT ![s] = [next EXCEPT !.res = 0, !.existed = FALSE,
                !.opened = Append(@, [res |-> me.res, existed |-> me.existed])]]
  /\ UNCHANGED <<names, domains, ports, closed, firing, bound, revoked, released, clustered>>

\* The failed tunnel's own rollback in openTunnel.
Undo(s) ==
  /\ proc[s].pc = "undo"
  /\ RollsBack(proc[s].res, s, proc[s].existed)
  /\ proc' = [proc EXCEPT ![s].pc = "unwind", ![s].res = 0, ![s].existed = FALSE]
  /\ UNCHANGED <<closed, firing, bound, revoked, released, clustered>>

\* register's rollback of the tunnels it opened before.
Unwind(s) ==
  LET me == proc[s] IN
  /\ me.pc = "unwind"
  /\ IF me.opened = << >>
       THEN Goto(s, "refused") /\ Stores(heap) /\ UNCHANGED bound
       ELSE LET t == Head(me.opened) IN
            /\ bound' = Unlistened(t.res, s)
            /\ RollsBack(t.res, s, t.existed)
            /\ proc' = [proc EXCEPT ![s].opened = Tail(@)]
  /\ UNCHANGED <<closed, firing, revoked, released, clustered>>

\* The control loop ends: the agent left, missed heartbeats or was told to go.
End(s) ==
  /\ proc[s].pc \in {"served", "refused"}
  /\ Goto(s, "closing")
  /\ UNCHANGED <<heap, names, domains, ports, closed, firing, bound, revoked, released, clustered>>

\* closeTunnels, one tunnel at a time.
CloseTunnels(s) ==
  LET me == proc[s] IN
  /\ me.pc = "closing"
  /\ IF me.opened = << >>
       THEN proc' = [proc EXCEPT ![s] = [NewProcess EXCEPT !.pc = "gone"]]
            /\ Stores(heap) /\ UNCHANGED bound
       ELSE LET t == Head(me.opened) IN
            /\ bound' = Unlistened(t.res, s)
            /\ Parks(t.res, s)
            /\ proc' = [proc EXCEPT ![s].opened = Tail(@)]
  /\ UNCHANGED <<closed, firing, revoked, released, clustered>>

Step(s) ==
  \/ ClaimRefused(s) \/ ClaimNew(s) \/ ClaimHeld(s) \/ SetDomains(s) \/ ClaimInCluster(s)
  \/ ChoosePort(s) \/ ListenHeld(s) \/ ReservePort(s) \/ Bind(s) \/ SetPort(s)
  \/ Activate(s) \/ Undo(s) \/ Unwind(s) \/ CloseTunnels(s)

-------------------------------------------------------------------------------
(* Grace timers, operators and shutdown.                                   *)

\* The grace period is over; the callback now waits for the mutex.  A session
\* between claim and activate waits for nothing but the mutex and a bind, so it
\* is through before the grace period of what it is opening ends.
Fire(o) ==
  /\ o \in DOMAIN heap \ firing
  /\ \A s \in Sessions : proc[s].res # o
  /\ heap[o].armed
  /\ heap' = [heap EXCEPT ![o].armed = FALSE]
  /\ firing' = firing \cup {o}
  /\ UNCHANGED <<names, domains, ports, closed, bound, proc, revoked, released, clustered>>

Expire(o) ==
  /\ o \in firing
  /\ firing' = firing \ {o}
  /\ IF InNames(o) /\ heap[o].session = NoOne /\ ~heap[o].permanent
       THEN Deletes(heap, {o}) ELSE Stores(heap)
  /\ UNCHANGED <<closed, bound, proc, revoked, released, clustered>>

\* reserve: a name nobody or the same token holds, and a port nobody holds.
ReserveOK(r) ==
  /\ r.name \in DOMAIN names => heap[names[r.name]].token = r.token
  /\ r.port # 0 /\ r.port \in ports =>
       r.name \in DOMAIN names /\ heap[names[r.name]].port = r.port

Reserve(r) ==
  /\ r \in Reservable /\ r.token \notin revoked /\ ~closed
  /\ ReserveOK(r)
  /\ \E o \in Objects :
       LET old == IF r.name \in DOMAIN names THEN heap[o] ELSE NewReservation(r.name, r.token)
           port == IF r.port # 0 THEN r.port ELSE old.port
       IN /\ IF r.name \in DOMAIN names THEN o = names[r.name] ELSE Fresh(o)
          /\ heap' = With(heap, o, [old EXCEPT !.port = port, !.permanent = TRUE, !.armed = FALSE])
          /\ names' = With(names, r.name, o)
          /\ ports' = (ports \ ({old.port} \ {port})) \cup ({r.port} \ {0, old.port})
  /\ UNCHANGED <<domains, closed, firing, bound, proc, revoked, released, clustered>>

Unreserve(n) ==
  /\ n \in DOMAIN names /\ heap[names[n]].permanent
  /\ LET o == names[n]
         h == [heap EXCEPT ![o].permanent = FALSE]
     IN IF heap[o].session = NoOne THEN Deletes(h, {o}) ELSE Stores(h)
  /\ UNCHANGED <<closed, firing, bound, proc, revoked, released, clustered>>

\* revokeToken: the store's token is gone first, so no new session starts;
\* then releaseToken.  The sessions it ends run closeTunnels on their own.
DeleteToken(t) ==
  /\ t \in Revocable \ revoked
  /\ revoked' = revoked \cup {t}
  /\ UNCHANGED <<heap, names, domains, ports, closed, firing, bound, proc, released, clustered>>

ReleaseToken(t) ==
  /\ t \in revoked \ released
  /\ released' = released \cup {t}
  /\ Deletes(heap, {names[n] : n \in {m \in DOMAIN names : heap[names[m]].token = t}})
  /\ UNCHANGED <<closed, firing, bound, proc, revoked, clustered>>

\* Server.Close waits for every session before it closes the registry.
Close ==
  /\ ~closed
  /\ \A s \in Sessions : proc[s].pc \in {"new", "gone"}
  /\ closed' = TRUE
  /\ LET parked == {names[n] : n \in DOMAIN names}
         h == [o \in DOMAIN heap |-> [heap[o] EXCEPT !.armed = @ /\ o \notin parked]]
     IN Deletes(h, {o \in parked : ~heap[o].permanent})
  /\ UNCHANGED <<firing, bound, proc, revoked, released, clustered>>

Next ==
  \/ \E s \in Sessions, specs \in Requests : Register(s, specs)
  \/ \E s \in Sessions : Step(s) \/ End(s)
  \/ \E o \in Objects : Fire(o) \/ Expire(o)
  \/ \E r \in Reservable : Reserve(r)
  \/ \E n \in Names : Unreserve(n)
  \/ \E t \in Revocable : DeleteToken(t) \/ ReleaseToken(t)
  \/ Close

Spec == Init /\ [][Next]_vars

\* Sessions run on, timers fire and their callbacks get the mutex; whether an
\* agent, an operator or a shutdown ever comes is not assumed.
FairSpec ==
  /\ Spec
  /\ \A s \in Sessions : WF_vars(Step(s))
  /\ \A o \in Objects : WF_vars(Fire(o)) /\ WF_vars(Expire(o))

-------------------------------------------------------------------------------
(* Properties.                                                             *)

ResOf(n) == heap[names[n]]

\* The ports sessions have taken but not recorded yet (reservePort to setPort).
Trying == {Head(proc[s].cand) : s \in {x \in Sessions : proc[x].pc \in {"bind", "setPort"}}}

\* What names hold and what is marked taken agree, as no token is revoked: every
\* domain of a name is taken for it and for no other, and no domain without its
\* name; the ports taken are those of the names, each one name's, and those
\* sessions are about to record.  Nothing is lost, shared, or freed while held
\* (setDomains, setPort, deleteLocked).
HoldingsOwned ==
  /\ \A n \in DOMAIN names : \A d \in ResOf(n).domains :
       d \in DOMAIN domains /\ domains[d] = names[n]
  /\ \A d \in DOMAIN domains : InNames(domains[d]) /\ d \in heap[domains[d]].domains
  /\ ports = ({ResOf(n).port : n \in DOMAIN names} \ {0}) \cup Trying
  /\ \A m, n \in DOMAIN names : ResOf(m).port # 0 /\ ResOf(m).port = ResOf(n).port => m = n
===============================================================================
