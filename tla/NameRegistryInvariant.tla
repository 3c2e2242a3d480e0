------------------------- MODULE NameRegistryInvariant ------------------------
(***************************************************************************)
(* What holds in every state of NameRegistry, for every set of sessions,   *)
(* tokens, names, domains and ports and for every request; and what each   *)
(* of its steps does to the reservations.                                  *)
(***************************************************************************)
EXTENDS NameRegistry, TLAPS

(* Finite sets.                                                            *)

LEMMA EmptyIsFinite == IsFiniteSet({})
  <1> DEFINE q == << >>
  <1>1. q \in Seq({}) /\ \A x \in {} : \E k \in 1..Len(q) : q[k] = x
    OBVIOUS
  <1> QED BY <1>1, Zenon DEF IsFiniteSet

LEMMA SubsetIsFinite ==
  ASSUME NEW S, IsFiniteSet(S), NEW T \in SUBSET S
  PROVE  IsFiniteSet(T)
<1>1. CASE T = {}
  BY <1>1, EmptyIsFinite
<1>2. CASE T # {}
  <2>1. PICK q \in Seq(S) : \A x \in S : \E k \in 1..Len(q) : q[k] = x
    BY DEF IsFiniteSet
  <2>2. PICK t : t \in T
    BY <1>2
  <2> DEFINE kept == [k \in 1..Len(q) |-> IF q[k] \in T THEN q[k] ELSE t]
  <2>3. Len(q) \in Nat /\ kept \in [1..Len(q) -> T]
    BY <2>2
  <2>4. kept \in Seq(T) /\ Len(kept) = Len(q)
    BY <2>3
  <2>5. ASSUME NEW x \in T
        PROVE  \E k \in 1..Len(kept) : kept[k] = x
    BY <2>1, <2>4, Zenon
  <2> QED BY <2>4, <2>5, Zenon DEF IsFiniteSet
<1> QED BY <1>1, <1>2

LEMMA AddedIsFinite ==
  ASSUME NEW S, IsFiniteSet(S), NEW x
  PROVE  IsFiniteSet(S \cup {x})
<1>1. PICK q \in Seq(S) : \A y \in S : \E k \in 1..Len(q) : q[k] = y
  BY DEF IsFiniteSet
<1>2. q \in Seq(S \cup {x})
  OBVIOUS
<1> DEFINE r == Append(q, x)
<1>3. /\ r \in Seq(S \cup {x}) /\ Len(r) = Len(q) + 1 /\ r[Len(q) + 1] = x
      /\ \A k \in 1..Len(q) : r[k] = q[k]
  BY <1>2
<1>4. Len(q) \in Nat
  OBVIOUS
<1> HIDE DEF r
<1>5. ASSUME NEW y \in S \cup {x}
      PROVE  \E k \in 1..Len(r) : r[k] = y
  <2>1. 1..Len(q) \subseteq 1..Len(r) /\ Len(q) + 1 \in 1..Len(r)
    BY <1>3, <1>4
  <2>2. CASE y = x
    BY <1>3, <2>1, <2>2, Zenon
  <2>3. CASE y \in S
    BY <1>1, <1>3, <2>1, <2>3, Zenon
  <2> QED BY <2>2, <2>3
<1> QED BY <1>3, <1>5, Zenon DEF IsFiniteSet

-------------------------------------------------------------------------------
Map(f, S, T) == f \in [DOMAIN f -> T] /\ DOMAIN f \subseteq S

Reservation ==
  [name : Names, token : Tokens, port : Nat, domains : SUBSET Domains, permanent : BOOLEAN,
   session : Sessions \cup {NoOne}, tunnel : Sessions \cup {NoOne}, armed : BOOLEAN]

\* Where a session has a reservation in its hands.
Opening == {"domains", "cluster", "ports", "listen", "reserve", "bind", "setPort", "activate", "undo"}

Opened == [res : Objects, existed : BOOLEAN]

Process ==
  [pc : Opening \cup {"new", "claim", "unwind", "served", "refused", "closing", "gone"},
   specs : Seq(TunnelSpec), i : Nat, res : Objects \cup {0}, existed : BOOLEAN,
   cand : Seq(Nat), opened : Seq(Opened)]

\* A session's state fits its place, and its pointers are good in a heap of objects D.
ProcessOK(me, D) ==
  /\ me \in Process
  /\ me.pc \in Opening <=> me.res # 0
  /\ me.res # 0 => me.res \in D
  /\ \A k \in DOMAIN me.opened : me.opened[k].res \in D
  /\ me.pc \in Opening \cup {"claim"} => me.i \in 1..Len(me.specs)
  /\ me.pc \in {"listen", "bind", "setPort"} => me.cand # << >>
  /\ me.pc \in {"new", "gone"} => me.opened = << >>
  /\ me.pc = "new" => me.i = 1

\* The reservations session s has in its hands.
Refs(me) == {me.res} \cup {me.opened[k].res : k \in DOMAIN me.opened}

TypeOK ==
  /\ Map(heap, Objects, Reservation)
  /\ Map(names, Names, DOMAIN heap) /\ IsFiniteSet(DOMAIN names)
  /\ Map(domains, Domains, DOMAIN heap)
  /\ firing \subseteq DOMAIN heap
  /\ DOMAIN proc = Sessions
  /\ \A s \in Sessions : ProcessOK(proc[s], DOMAIN heap)

\* The inductive invariant: a name leads to a reservation of that name, and the
\* session a held name is of still has it in its hands.
RegInv ==
  /\ TypeOK
  /\ \A n \in DOMAIN names : heap[names[n]].name = n
  /\ \A n \in DOMAIN names :
       ResOf(n).session # NoOne => names[n] \in Refs(proc[ResOf(n).session])

LEMMA NewProcessTyped ==
  NewProcess \in Process /\ NewProcess.res = 0 /\ NewProcess.opened = << >>
<1>1. << >> \in Seq(TunnelSpec) /\ << >> \in Seq(Nat) /\ << >> \in Seq(Opened)
  OBVIOUS
<1> QED BY <1>1 DEF NewProcess, Process, Opening

LEMMA RegInitInv == Init => RegInv
<1> SUFFICES ASSUME Init PROVE RegInv
  OBVIOUS
<1>1. /\ DOMAIN heap = {} /\ DOMAIN names = {} /\ DOMAIN domains = {} /\ firing = {}
      /\ heap \in [{} -> Reservation] /\ names \in [{} -> {}] /\ domains \in [{} -> {}]
  BY DEF Init
<1>3. ProcessOK(NewProcess, {})
  BY NewProcessTyped DEF ProcessOK, NewProcess, Opening
<1>4. DOMAIN proc = Sessions /\ \A s \in Sessions : proc[s] = NewProcess
  BY DEF Init
<1>5. IsFiniteSet({})
  BY EmptyIsFinite
<1> QED BY <1>1, <1>3, <1>4, <1>5 DEF RegInv, TypeOK, Map

-------------------------------------------------------------------------------
(* What the steps do to the reservations.                                  *)

\* The heap stays well typed, with every reservation's name and token.
SameObjects ==
  /\ Map(heap', Objects, Reservation) /\ DOMAIN heap' = DOMAIN heap
  /\ \A o \in DOMAIN heap : heap'[o].name = heap[o].name /\ heap'[o].token = heap[o].token

SameSessions == \A o \in DOMAIN heap : heap'[o].session = heap[o].session

\* Names and domains are dropped at most.
Fewer ==
  /\ Map(names', Names, DOMAIN heap) /\ DOMAIN names' \subseteq DOMAIN names
  /\ \A n \in DOMAIN names' : names'[n] = names[n]
  /\ Map(domains', Domains, DOMAIN heap)

\* Session s lets go of reservation o, if it is its own: nobody's then, or no name's.
LeftBy(o, s) ==
  /\ SameObjects /\ Fewer
  /\ \A p \in DOMAIN heap \ {o} : heap'[p].session = heap[p].session
  /\ \A n \in DOMAIN names : names[n] # o => n \in DOMAIN names'
  /\ heap[o].session # s => SameSessions /\ names' = names
  /\ heap[o].session = s => heap'[o].session = NoOne \/ \A n \in DOMAIN names' : names[n] # o

\* A helper for the deletions: what Deletes makes of the maps.
LEMMA DeletesDrops ==
  ASSUME RegInv, NEW h, NEW O, Map(h, Objects, Reservation), DOMAIN h = DOMAIN heap,
         Deletes(h, O)
  PROVE  /\ Map(heap', Objects, Reservation) /\ DOMAIN heap' = DOMAIN heap /\ Fewer
         /\ \A o \in DOMAIN heap :
              /\ heap'[o].name = h[o].name /\ heap'[o].token = h[o].token
              /\ heap'[o].session = h[o].session
         /\ DOMAIN names' = {n \in DOMAIN names : names[n] \notin O}
<1>1. heap' = [o \in DOMAIN h |-> [h[o] EXCEPT !.armed = @ /\ o \notin O]]
  BY DEF Deletes
<1>2. \A o \in DOMAIN h : h[o] \in Reservation
  BY DEF Map
<1>3. ASSUME NEW o \in DOMAIN h
      PROVE  /\ heap'[o] \in Reservation
             /\ heap'[o].name = h[o].name /\ heap'[o].token = h[o].token
             /\ heap'[o].session = h[o].session
  <2>1. heap'[o] = [h[o] EXCEPT !.armed = h[o].armed /\ o \notin O]
    BY <1>1
  <2> QED BY <1>2, <2>1, Zenon DEF Reservation
<1>4. Map(heap', Objects, Reservation) /\ DOMAIN heap' = DOMAIN heap
  BY <1>1, <1>3 DEF Map
<1>5. /\ Fewer /\ DOMAIN names' = {n \in DOMAIN names : names[n] \notin O}
  BY DEF Deletes, Without, Fewer, Map, RegInv, TypeOK
<1> QED BY <1>3, <1>4, <1>5

\* What is stored in place leaves the names alone.
LEMMA StoresKeeps ==
  ASSUME RegInv, NEW h, Map(h, Objects, Reservation), DOMAIN h = DOMAIN heap, Stores(h)
  PROVE  heap' = h /\ names' = names /\ domains' = domains /\ Fewer
  BY DEF Stores, Fewer, RegInv, TypeOK, Map

LEMMA ParksLeaves ==
  ASSUME RegInv, NEW o \in DOMAIN heap, NEW s \in Sessions, Parks(o, s)
  PROVE  LeftBy(o, s)
<1> DEFINE h == [heap EXCEPT ![o].session = NoOne, ![o].tunnel = NoOne]
<1>0. Map(heap, Objects, Reservation) /\ s # NoOne
  BY RegistryConstants DEF RegInv, TypeOK
<1>1. /\ Map(h, Objects, Reservation) /\ DOMAIN h = DOMAIN heap
      /\ h[o].session = NoOne /\ h[o].name = heap[o].name /\ h[o].token = heap[o].token
      /\ \A p \in DOMAIN heap \ {o} : h[p] = heap[p]
  <2>1. /\ heap[o] \in Reservation /\ DOMAIN h = DOMAIN heap
        /\ h[o] = [[heap[o] EXCEPT !.session = NoOne] EXCEPT !.tunnel = NoOne]
        /\ \A p \in DOMAIN heap \ {o} : h[p] = heap[p]
    BY <1>0 DEF Map
  <2> HIDE DEF h
  <2>2. h[o] \in Reservation /\ h[o].session = NoOne /\ h[o].name = heap[o].name
        /\ h[o].token = heap[o].token
    BY <2>1, Zenon DEF Reservation
  <2>3. \A p \in DOMAIN heap : h[p] \in Reservation
    BY <1>0, <2>1, <2>2 DEF Map
  <2>4. h = [p \in DOMAIN heap |-> h[p]]
    BY <2>1, Zenon DEF h
  <2>5. Map(h, Objects, Reservation)
    BY <1>0, <2>1, <2>3, <2>4 DEF Map
  <2> QED BY <2>1, <2>2, <2>5
<1> HIDE DEF h
<1> DEFINE g == [h EXCEPT ![o].armed = TRUE]
<1>2. /\ Map(g, Objects, Reservation) /\ DOMAIN g = DOMAIN heap
      /\ g[o].session = NoOne /\ g[o].name = heap[o].name /\ g[o].token = heap[o].token
      /\ \A p \in DOMAIN heap \ {o} : g[p] = heap[p]
  <2>1. h[o] \in Reservation /\ DOMAIN g = DOMAIN heap /\ g[o] = [h[o] EXCEPT !.armed = TRUE]
        /\ \A p \in DOMAIN heap \ {o} : g[p] = h[p]
    BY <1>1 DEF Map
  <2>2. g[o] \in Reservation /\ g[o].session = h[o].session /\ g[o].name = h[o].name
        /\ g[o].token = h[o].token
    BY <2>1, Zenon DEF Reservation
  <2>3. \A p \in DOMAIN heap : g[p] \in Reservation
    BY <1>0, <1>1, <2>1, <2>2 DEF Map
  <2>4. Map(g, Objects, Reservation)
    BY <1>0, <2>1, <2>3, Zenon DEF Map
  <2> QED BY <1>1, <2>1, <2>2, <2>4
<1> HIDE DEF g
<1>3. CASE heap[o].session # s /\ Stores(heap)
  BY <1>0, <1>3, StoresKeeps DEF LeftBy, SameObjects, SameSessions
<1>4. CASE heap[o].session = s /\ Stores(h)
  BY <1>0, <1>1, <1>4, StoresKeeps DEF LeftBy, SameObjects
<1>5. CASE heap[o].session = s /\ Deletes(h, {o})
  <2>1. /\ Map(heap', Objects, Reservation) /\ DOMAIN heap' = DOMAIN heap /\ Fewer
        /\ \A p \in DOMAIN heap : heap'[p].name = h[p].name /\ heap'[p].token = h[p].token
                                   /\ heap'[p].session = h[p].session
        /\ DOMAIN names' = {n \in DOMAIN names : names[n] \notin {o}}
    BY <1>1, <1>5, DeletesDrops, Zenon
  <2> QED BY <1>1, <1>5, <2>1 DEF LeftBy, SameObjects
<1>6. CASE heap[o].session = s /\ Stores(g)
  BY <1>0, <1>2, <1>6, StoresKeeps DEF LeftBy, SameObjects
<1> QED BY <1>3, <1>4, <1>5, <1>6 DEF Parks, h, g

LEMMA RollsBackLeaves ==
  ASSUME RegInv, NEW o \in DOMAIN heap, NEW s \in Sessions, NEW existed, RollsBack(o, s, existed)
  PROVE  LeftBy(o, s)
<1>0. Map(heap, Objects, Reservation) /\ s # NoOne
  BY RegistryConstants DEF RegInv, TypeOK
<1>1. CASE Parks(o, s)
  BY <1>1, ParksLeaves
<1>2. CASE heap[o].session = s /\ Deletes(heap, {o})
  <2>1. /\ Map(heap', Objects, Reservation) /\ DOMAIN heap' = DOMAIN heap /\ Fewer
        /\ \A p \in DOMAIN heap : heap'[p].name = heap[p].name /\ heap'[p].token = heap[p].token
                                   /\ heap'[p].session = heap[p].session
        /\ DOMAIN names' = {n \in DOMAIN names : names[n] \notin {o}}
    BY <1>0, <1>2, DeletesDrops, Zenon
  <2> QED BY <1>2, <2>1 DEF LeftBy, SameObjects
<1>3. CASE heap[o].session # s /\ Stores(heap)
  BY <1>0, <1>3, StoresKeeps DEF LeftBy, SameObjects, SameSessions
<1> QED BY <1>1, <1>2, <1>3 DEF RollsBack

-------------------------------------------------------------------------------
(* The steps keep the invariant.                                           *)

\* Nothing changes hands, and names are dropped at most.
LEMMA Keeps ==
  ASSUME RegInv, SameObjects, SameSessions, Fewer, firing' \subseteq DOMAIN heap,
         DOMAIN proc' = Sessions,
         \A s \in Sessions : ProcessOK(proc'[s], DOMAIN heap) /\ Refs(proc[s]) \subseteq Refs(proc'[s])
  PROVE  RegInv'
<1>1. TypeOK'
  <2>1. IsFiniteSet(DOMAIN names')
    BY SubsetIsFinite DEF RegInv, TypeOK, Fewer
  <2> QED BY <2>1 DEF RegInv, TypeOK, SameObjects, Fewer
<1>2. ASSUME NEW n \in DOMAIN names'
      PROVE  /\ n \in DOMAIN names /\ names'[n] = names[n] /\ names[n] \in DOMAIN heap
             /\ heap'[names[n]].name = n /\ heap'[names[n]].session = heap[names[n]].session
             /\ heap[names[n]].session \in Sessions \cup {NoOne}
  BY DEF RegInv, TypeOK, Map, SameObjects, SameSessions, Fewer, Reservation
<1> QED BY <1>1, <1>2 DEF RegInv, ResOf

\* Session s moves on with the same reservations in its hands.
LEMMA Moves ==
  ASSUME RegInv, NEW s \in Sessions, DOMAIN proc' = Sessions,
         ProcessOK(proc'[s], DOMAIN heap),
         proc'[s].res = proc[s].res, proc'[s].opened = proc[s].opened,
         \A r \in Sessions \ {s} : proc'[r] = proc[r],
         UNCHANGED <<heap, names, domains, firing>>
  PROVE  RegInv'
<1>1. SameObjects /\ SameSessions /\ Fewer /\ firing' \subseteq DOMAIN heap
  BY DEF RegInv, TypeOK, SameObjects, SameSessions, Fewer, Map
<1>2. \A r \in Sessions : ProcessOK(proc'[r], DOMAIN heap) /\ Refs(proc[r]) \subseteq Refs(proc'[r])
  BY DEF RegInv, TypeOK, Refs
<1> QED BY <1>1, <1>2, Keeps

\* Session s has let go of o.
LEMMA Lets ==
  ASSUME RegInv, NEW s \in Sessions, NEW o \in DOMAIN heap, LeftBy(o, s), UNCHANGED firing,
         DOMAIN proc' = Sessions, ProcessOK(proc'[s], DOMAIN heap),
         Refs(proc[s]) \subseteq Refs(proc'[s]) \cup {o},
         \A r \in Sessions \ {s} : proc'[r] = proc[r]
  PROVE  RegInv'
<1>1. TypeOK'
  <2>1. IsFiniteSet(DOMAIN names')
    BY SubsetIsFinite DEF RegInv, TypeOK, LeftBy, Fewer
  <2> QED BY <2>1 DEF RegInv, TypeOK, LeftBy, SameObjects, Fewer
<1>2. ASSUME NEW n \in DOMAIN names'
      PROVE  /\ n \in DOMAIN names /\ names'[n] = names[n] /\ names[n] \in DOMAIN heap
             /\ heap'[names[n]].name = n
             /\ heap[names[n]].session \in Sessions \cup {NoOne}
  BY DEF RegInv, TypeOK, Map, LeftBy, SameObjects, Fewer, Reservation
<1>3. ASSUME NEW n \in DOMAIN names', heap'[names[n]].session # NoOne
      PROVE  names[n] \in Refs(proc'[heap'[names[n]].session])
  <2>1. heap'[names[n]].session = heap[names[n]].session
        /\ (names[n] = o => heap[o].session # s)
    BY <1>2, <1>3 DEF LeftBy, SameSessions
  <2>2. names[n] \in Refs(proc[heap[names[n]].session])
    BY <1>2, <1>3, <2>1 DEF RegInv, ResOf
  <2> QED BY <1>2, <1>3, <2>1, <2>2
<1> QED BY <1>1, <1>2, <1>3 DEF RegInv, ResOf

\* Where a session may go with what it has in its hands.
Reachable(me, pc, cand) ==
  /\ pc \in Opening \cup {"unwind", "closing", "refused"}
  /\ pc \in Opening <=> me.res # 0
  /\ pc \in Opening => me.i \in 1..Len(me.specs)
  /\ pc \in {"listen", "bind", "setPort"} => cand # << >>

\* Every session's state fits the heap, and nobody forgot a reservation.
Carried ==
  /\ DOMAIN proc' = Sessions
  /\ \A r \in Sessions : ProcessOK(proc'[r], DOMAIN heap) /\ Refs(proc[r]) \subseteq Refs(proc'[r])

\* A session goes on, with other candidates or with the same.
LEMMA Walks ==
  ASSUME RegInv, NEW s \in Sessions, NEW pc, NEW cand \in Seq(Nat),
         proc' = [proc EXCEPT ![s].pc = pc, ![s].cand = cand], Reachable(proc[s], pc, cand)
  PROVE  Carried
<1> DEFINE me == proc[s]
           q == [[me EXCEPT !.pc = pc] EXCEPT !.cand = cand]
<1>1. ProcessOK(me, DOMAIN heap) /\ me \in Process /\ DOMAIN proc = Sessions
  BY DEF RegInv, TypeOK, ProcessOK
<1>2. DOMAIN proc' = Sessions /\ proc'[s] = q /\ \A r \in Sessions \ {s} : proc'[r] = proc[r]
  BY <1>1
<1>3. /\ q \in Process /\ q.pc = pc /\ q.cand = cand /\ q.res = me.res /\ q.opened = me.opened
      /\ q.i = me.i /\ q.specs = me.specs
  BY <1>1, Zenon DEF Process, Reachable
<1> HIDE DEF q
<1>4. ProcessOK(q, DOMAIN heap)
  BY <1>1, <1>3 DEF ProcessOK, Reachable, Opening
<1> QED BY <1>2, <1>3, <1>4, SMTT(30) DEF Carried, Refs, RegInv, TypeOK

LEMMA GotoWalks ==
  ASSUME RegInv, NEW s \in Sessions, NEW pc, Goto(s, pc), Reachable(proc[s], pc, proc[s].cand)
  PROVE  Carried
<1>1. DOMAIN proc = Sessions /\ proc[s] \in Process
  BY DEF RegInv, TypeOK, ProcessOK
<1>2. proc' = [proc EXCEPT ![s].pc = pc, ![s].cand = proc[s].cand] /\ proc[s].cand \in Seq(Nat)
  BY <1>1, Zenon DEF Goto, Process
<1> QED BY <1>2, Walks, Zenon

LEMMA GoesTo ==
  ASSUME RegInv, NEW s \in Sessions, NEW pc, NEW cand \in Seq(Nat),
         proc' = [proc EXCEPT ![s].pc = pc, ![s].cand = cand], Reachable(proc[s], pc, cand),
         UNCHANGED <<heap, names, domains, firing>>
  PROVE  RegInv'
<1>1. SameObjects /\ SameSessions /\ Fewer /\ firing' \subseteq DOMAIN heap
  BY DEF RegInv, TypeOK, SameObjects, SameSessions, Fewer, Map
<1> QED BY <1>1, Walks, Keeps, Zenon DEF Carried

LEMMA GotoInv ==
  ASSUME RegInv, NEW s \in Sessions, NEW pc, Goto(s, pc), Reachable(proc[s], pc, proc[s].cand),
         UNCHANGED <<heap, names, domains, firing>>
  PROVE  RegInv'
<1>1. SameObjects /\ SameSessions /\ Fewer /\ firing' \subseteq DOMAIN heap
  BY DEF RegInv, TypeOK, SameObjects, SameSessions, Fewer, Map
<1> QED BY <1>1, GotoWalks, Keeps DEF Carried

\* The tunnel being opened, and what is known of its reservation.
LEMMA Opens ==
  ASSUME RegInv, NEW s \in Sessions
  PROVE  /\ proc[s] \in Process /\ ProcessOK(proc[s], DOMAIN heap) /\ DOMAIN proc = Sessions
         /\ proc[s].pc \in Opening \cup {"claim"} => Spec1(s) \in TunnelSpec
         /\ proc[s].pc \in Opening =>
              proc[s].res \in DOMAIN heap /\ heap[proc[s].res] \in Reservation
<1>1. proc[s] \in Process /\ ProcessOK(proc[s], DOMAIN heap) /\ DOMAIN proc = Sessions
  BY DEF RegInv, TypeOK, ProcessOK
<1>2. proc[s].pc \in Opening \cup {"claim"} => Spec1(s) \in TunnelSpec
  BY <1>1 DEF Process, ProcessOK, Spec1
<1>3. proc[s].pc \in Opening => proc[s].res \in DOMAIN heap /\ heap[proc[s].res] \in Reservation
  BY <1>1 DEF ProcessOK, RegInv, TypeOK, Map
<1> QED BY <1>1, <1>2, <1>3, Zenon

\* The ports of a range, in order.
LEMMA RangePorts ==
  ASSUME NEW lo \in Nat, NEW hi \in Nat, lo <= hi
  PROVE  [k \in 1..(hi - lo + 1) |-> lo + k - 1] \in Seq(Nat)
<1>1. hi - lo + 1 \in Nat /\ \A k \in 1..(hi - lo + 1) : lo + k - 1 \in Nat
  OBVIOUS
<1> QED BY <1>1

LEMMA RegisterInv ==
  ASSUME RegInv, NEW s \in Sessions, NEW specs \in Requests, Register(s, specs)
  PROVE  RegInv'
<1>1. /\ proc[s] \in Process /\ ProcessOK(proc[s], DOMAIN heap) /\ DOMAIN proc = Sessions
      /\ proc[s].pc = "new"
  BY Opens DEF Register
<1> DEFINE q == [[proc[s] EXCEPT !.pc = "claim"] EXCEPT !.specs = specs]
<1>2. DOMAIN proc' = Sessions /\ proc'[s] = q /\ \A r \in Sessions \ {s} : proc'[r] = proc[r]
  BY <1>1 DEF Register
<1>3. specs \in Seq(TunnelSpec) /\ specs # << >>
  BY RegistryConstants DEF Register
<1>4. 1 \in 1..Len(specs)
  BY <1>3
<1>5. /\ q \in Process /\ q.pc = "claim" /\ q.specs = specs /\ q.res = proc[s].res
      /\ q.opened = proc[s].opened /\ q.i = 1
  BY <1>1, <1>3, Zenon DEF Process, ProcessOK
<1> HIDE DEF q
<1>6. ProcessOK(q, DOMAIN heap)
  BY <1>1, <1>4, <1>5 DEF ProcessOK, Opening
<1> QED BY <1>2, <1>5, <1>6, Moves DEF Register

\* The steps of a session that leave the registry alone, or only mark ports.
LEMMA SearchInv ==
  ASSUME RegInv, NEW s \in Sessions,
         \/ ClaimRefused(s) \/ ClaimInCluster(s) \/ ChoosePort(s) \/ ListenHeld(s)
         \/ ReservePort(s) \/ Bind(s) \/ End(s)
  PROVE  RegInv'
<1> DEFINE me == proc[s]
<1>0. /\ me \in Process /\ ProcessOK(me, DOMAIN heap) /\ DOMAIN proc = Sessions
      /\ me.cand \in Seq(Nat)
      /\ me.pc \in Opening \cup {"claim"} => Spec1(s) \in TunnelSpec
      /\ me.pc \in Opening => me.res \in DOMAIN heap /\ heap[me.res] \in Reservation
  BY Opens DEF Process
<1>1. CASE ClaimRefused(s) \/ ClaimInCluster(s) \/ End(s)
  <2>1. PICK pc \in {"unwind", "activate", "undo", "closing"} :
          /\ Goto(s, pc) /\ Reachable(me, pc, me.cand)
    BY <1>0, <1>1, Zenon DEF ClaimRefused, ClaimInCluster, End, Reachable, ProcessOK, Opening
  <2>2. UNCHANGED <<heap, names, domains, firing>>
    BY <1>1 DEF ClaimRefused, ClaimInCluster, End
  <2> QED BY <2>1, <2>2, GotoInv, Zenon
<1>2. CASE ChoosePort(s)
  <2> DEFINE range == PolicyRange(PolicyOf[TokenOf[s]][1], PolicyOf[TokenOf[s]][2], PortMin, PortMax)
             inRange == [k \in 1..(range[2] - range[1] + 1) |-> range[1] + k - 1]
             prev == IF Spec1(s).prev \in range[1]..range[2] THEN <<Spec1(s).prev>> ELSE << >>
             held == heap[me.res].port
             try(pc, cand) == proc' = [proc EXCEPT ![s].pc = pc, ![s].cand = cand]
  <2>0. /\ me.pc = "ports" /\ UNCHANGED <<heap, names, domains, firing>>
        /\ held \in Nat /\ Spec1(s).port \in Nat /\ Spec1(s).prev \in Nat
    BY <1>0, <1>2, Zenon DEF ChoosePort, Opening, Reservation, TunnelSpec
  <2>1. range[1] \in Nat /\ range[2] \in Nat
    <3>1. PolicyOf[TokenOf[s]][1] \in Nat /\ PolicyOf[TokenOf[s]][2] \in Nat
          /\ PortMin \in Nat /\ PortMax \in Nat
      BY RegistryConstants, Zenon
    <3> QED BY <3>1 DEF PolicyRange
  <2>2. \/ try("listen", <<held>>) \/ try("reserve", <<Spec1(s).port>>) \/ Goto(s, "undo")
        \/ RangeOverlaps(range) /\ try("reserve", prev \o inRange)
    BY <1>2, Zenon DEF ChoosePort
  <2> HIDE DEF range
  <2>3. \A pc \in {"listen", "reserve", "undo"} : \A cand :
          (pc = "listen" => cand # << >>) => Reachable(me, pc, cand)
    BY <1>0, <2>0 DEF Reachable, ProcessOK, Opening
  <2>4. ASSUME RangeOverlaps(range)
        PROVE  prev \o inRange \in Seq(Nat)
    <3>1. prev \in Seq(Nat)
      BY <2>0
    <3>2. inRange \in Seq(Nat)
      BY <2>1, <2>4, RangePorts, Zenon DEF RangeOverlaps
    <3> HIDE DEF inRange, prev
    <3> QED BY <3>1, <3>2
  <2>5. <<held>> \in Seq(Nat) /\ <<held>> # << >> /\ <<Spec1(s).port>> \in Seq(Nat)
    BY <2>0
  <2> HIDE DEF inRange, prev, held
  <2>6. CASE Goto(s, "undo")
    BY <2>0, <2>3, <2>6, GotoInv
  <2>7. CASE try("listen", <<held>>)
    BY <2>0, <2>3, <2>5, <2>7, GoesTo, Zenon
  <2>8. CASE try("reserve", <<Spec1(s).port>>)
    BY <2>0, <2>3, <2>5, <2>8, GoesTo, Zenon
  <2>9. CASE RangeOverlaps(range) /\ try("reserve", prev \o inRange)
    BY <2>0, <2>3, <2>4, <2>9, GoesTo, Zenon
  <2> QED BY <2>2, <2>6, <2>7, <2>8, <2>9, Zenon
<1>3. CASE ListenHeld(s)
  <2>1. PICK pc \in {"activate", "undo"} : proc' = [proc EXCEPT ![s].pc = pc, ![s].cand = << >>]
    BY <1>3 DEF ListenHeld
  <2>2. Reachable(me, pc, << >>) /\ UNCHANGED <<heap, names, domains, firing>>
    BY <1>0, <1>3 DEF ListenHeld, Reachable, ProcessOK, Opening
  <2>3. << >> \in Seq(Nat)
    OBVIOUS
  <2> QED BY <2>1, <2>2, <2>3, GoesTo, Zenon
<1>4. ASSUME me.pc \in {"reserve", "bind"}, me.cand # << >>,
             proc' = [proc EXCEPT ![s].pc = "reserve", ![s].cand = Tail(me.cand)],
             UNCHANGED <<heap, names, domains, firing>>
      PROVE  RegInv'
  <2>1. Tail(me.cand) \in Seq(Nat)
    BY <1>0, <1>4
  <2>2. Reachable(me, "reserve", Tail(me.cand))
    BY <1>0, <1>4 DEF Reachable, ProcessOK, Opening
  <2> QED BY <1>4, <2>1, <2>2, GoesTo, Zenon
<1>5. CASE ReservePort(s)
  <2>0. me.pc = "reserve" /\ UNCHANGED <<heap, names, domains, firing>>
    BY <1>5, Zenon DEF ReservePort
  <2>1. CASE Goto(s, "undo")
    BY <1>0, <2>0, <2>1, GotoInv, Zenon DEF Reachable, ProcessOK, Opening
  <2>2. CASE me.cand # << >> /\ Goto(s, "bind")
    BY <1>0, <2>0, <2>2, GotoInv DEF Reachable, ProcessOK, Opening
  <2>3. CASE me.cand # << >> /\ proc' = [proc EXCEPT ![s].cand = Tail(me.cand)]
    <3>1. [proc EXCEPT ![s].cand = Tail(me.cand)] = [proc EXCEPT ![s].pc = "reserve", ![s].cand = Tail(me.cand)]
      BY <1>0, <2>0, Zenon DEF Process
    <3> QED BY <1>4, <2>0, <2>3, <3>1
  <2> QED BY <1>5, <2>1, <2>2, <2>3 DEF ReservePort
<1>6. CASE Bind(s)
  <2>0. me.pc = "bind" /\ UNCHANGED <<heap, names, domains, firing>> /\ me.cand # << >>
    BY <1>0, <1>6, Zenon DEF Bind, ProcessOK
  <2>1. CASE Goto(s, "setPort")
    BY <1>0, <2>0, <2>1, GotoInv DEF Reachable, ProcessOK, Opening
  <2>2. CASE proc' = [proc EXCEPT ![s].pc = "reserve", ![s].cand = Tail(@)]
    BY <1>4, <2>0, <2>2
  <2> QED BY <1>6, <2>1, <2>2 DEF Bind
<1> QED BY <1>1, <1>2, <1>3, <1>5, <1>6

\* A reservation changes in what neither its names nor its holder depend on.
LEMMA EditKeeps ==
  ASSUME RegInv, NEW o \in DOMAIN heap, NEW x \in Reservation, heap' = [heap EXCEPT ![o] = x],
         x.name = heap[o].name, x.token = heap[o].token, x.session = heap[o].session
  PROVE  SameObjects /\ SameSessions
  BY DEF RegInv, TypeOK, Map, SameObjects, SameSessions

\* setDomains, setPort, activate and a grace timer that fires.
LEMMA SetDomainsKeeps ==
  ASSUME RegInv, NEW s \in Sessions, SetDomains(s)
  PROVE  SameObjects /\ SameSessions /\ names' = names /\ Fewer /\ UNCHANGED firing
<1> DEFINE o == proc[s].res
           new == Spec1(s).domains
           own == {d \in DOMAIN domains : d \in heap[o].domains /\ domains[d] = o}
<1>1. o \in DOMAIN heap /\ heap[o] \in Reservation /\ new \subseteq Domains
  BY Opens DEF SetDomains, Opening, TunnelSpec
<1>2. UNCHANGED <<names, firing>>
  BY DEF SetDomains
<1>3. CASE UNCHANGED <<heap, domains>>
  BY <1>2, <1>3 DEF RegInv, TypeOK, Map, SameObjects, SameSessions, Fewer
<1>4. CASE /\ heap' = [heap EXCEPT ![o].domains = new]
           /\ domains' = [d \in (DOMAIN domains \ own) \cup new |-> IF d \in new THEN o ELSE domains[d]]
  <2> DEFINE x == [heap[o] EXCEPT !.domains = new]
  <2>1. x \in Reservation /\ x.name = heap[o].name /\ x.token = heap[o].token /\ x.session = heap[o].session
    BY <1>1 DEF Reservation
  <2>2. heap' = [heap EXCEPT ![o] = x]
    BY <1>4
  <2>3. Map(domains', Domains, DOMAIN heap)
    BY <1>1, <1>4 DEF Map, RegInv, TypeOK
  <2>4. SameObjects /\ SameSessions
    BY <1>1, <2>1, <2>2, EditKeeps, Zenon
  <2> QED BY <1>2, <2>3, <2>4 DEF Fewer, RegInv, TypeOK, Map
<1> QED BY <1>3, <1>4 DEF SetDomains

LEMMA SetPortKeeps ==
  ASSUME RegInv, NEW s \in Sessions, SetPort(s)
  PROVE  SameObjects /\ SameSessions /\ names' = names /\ Fewer /\ UNCHANGED firing
<1> DEFINE o == proc[s].res
           p == Head(proc[s].cand)
           x == [heap[o] EXCEPT !.port = p]
<1>1. o \in DOMAIN heap /\ heap[o] \in Reservation
  BY Opens DEF SetPort, Opening
<1>2. proc[s].cand \in Seq(Nat) /\ proc[s].cand # << >>
  BY Opens DEF SetPort, Process, ProcessOK
<1>3. p \in Nat
  BY <1>2
<1> HIDE DEF p
<1>4. x \in Reservation /\ x.name = heap[o].name /\ x.token = heap[o].token /\ x.session = heap[o].session
  BY <1>1, <1>3 DEF Reservation
<1>5. heap' = [heap EXCEPT ![o] = x] /\ UNCHANGED <<names, domains, firing>>
  BY DEF SetPort, p
<1>6. SameObjects /\ SameSessions
  BY <1>1, <1>4, <1>5, EditKeeps, Zenon
<1> QED BY <1>5, <1>6 DEF Fewer, RegInv, TypeOK, Map

LEMMA ActivateKeeps ==
  ASSUME RegInv, NEW s \in Sessions, Activate(s)
  PROVE  SameObjects /\ SameSessions /\ names' = names /\ Fewer /\ UNCHANGED firing
<1> DEFINE o == proc[s].res
           x == [heap[o] EXCEPT !.tunnel = s]
<1>1. o \in DOMAIN heap /\ heap[o] \in Reservation
  BY Opens DEF Activate, Opening
<1>2. x \in Reservation /\ x.name = heap[o].name /\ x.token = heap[o].token /\ x.session = heap[o].session
  BY <1>1 DEF Reservation
<1>3. heap' = [heap EXCEPT ![o] = x] /\ UNCHANGED <<names, domains, firing>>
  BY DEF Activate
<1>4. SameObjects /\ SameSessions
  BY <1>1, <1>2, <1>3, EditKeeps, Zenon
<1> QED BY <1>3, <1>4 DEF Fewer, RegInv, TypeOK, Map

LEMMA FireKeeps ==
  ASSUME RegInv, NEW o \in Objects, Fire(o)
  PROVE  SameObjects /\ SameSessions /\ names' = names /\ Fewer /\ firing' \subseteq DOMAIN heap
<1> DEFINE x == [heap[o] EXCEPT !.armed = FALSE]
<1>1. o \in DOMAIN heap /\ heap[o] \in Reservation
  BY DEF Fire, RegInv, TypeOK, Map
<1>2. x \in Reservation /\ x.name = heap[o].name /\ x.token = heap[o].token /\ x.session = heap[o].session
  BY <1>1, Zenon DEF Reservation
<1>3. heap' = [heap EXCEPT ![o] = x] /\ UNCHANGED <<names, domains>> /\ firing' = firing \cup {o}
  BY DEF Fire
<1>4. SameObjects /\ SameSessions
  BY <1>1, <1>2, <1>3, EditKeeps, Zenon
<1> QED BY <1>1, <1>3, <1>4 DEF Fewer, RegInv, TypeOK, Map

LEMMA SetDomainsInv ==
  ASSUME RegInv, NEW s \in Sessions, SetDomains(s)
  PROVE  RegInv'
<1>1. ProcessOK(proc[s], DOMAIN heap) /\ proc[s].pc = "domains"
  BY Opens DEF SetDomains
<1>2. PICK pc \in {"undo", "cluster", "ports", "activate"} : Goto(s, pc)
  BY DEF SetDomains
<1>3. Reachable(proc[s], pc, proc[s].cand)
  BY <1>1, <1>2 DEF Reachable, ProcessOK, Opening
<1>4. firing' \subseteq DOMAIN heap
  BY SetDomainsKeeps DEF RegInv, TypeOK
<1> QED BY <1>2, <1>3, <1>4, GotoWalks, SetDomainsKeeps, Keeps DEF Carried

LEMMA SetPortInv ==
  ASSUME RegInv, NEW s \in Sessions, SetPort(s)
  PROVE  RegInv'
<1>1. ProcessOK(proc[s], DOMAIN heap) /\ proc[s].pc = "setPort" /\ << >> \in Seq(Nat)
  BY Opens DEF SetPort
<1>2. proc' = [proc EXCEPT ![s].pc = "activate", ![s].cand = << >>]
  BY DEF SetPort
<1>3. Reachable(proc[s], "activate", << >>)
  BY <1>1 DEF Reachable, ProcessOK, Opening
<1>4. firing' \subseteq DOMAIN heap
  BY SetPortKeeps, Zenon DEF RegInv, TypeOK
<1> QED BY <1>1, <1>2, <1>3, <1>4, Walks, SetPortKeeps, Keeps, Zenon DEF Carried

LEMMA ActivateInv ==
  ASSUME RegInv, NEW s \in Sessions, Activate(s)
  PROVE  RegInv'
<1> DEFINE me == proc[s]
           e == [res |-> me.res, existed |-> me.existed]
           next == IF me.i < Len(me.specs) THEN [me EXCEPT !.pc = "claim", !.i = @ + 1]
                                           ELSE [me EXCEPT !.pc = "served"]
           q == [next EXCEPT !.res = 0, !.existed = FALSE, !.opened = Append(@, e)]
<1>1. /\ me \in Process /\ ProcessOK(me, DOMAIN heap) /\ DOMAIN proc = Sessions
      /\ me.pc = "activate" /\ me.res \in DOMAIN heap /\ me.res \in Objects
  BY Opens DEF Activate, Opening, RegInv, TypeOK, Map
<1>2. proc' = [proc EXCEPT ![s] = q]
  BY DEF Activate
<1>3. /\ next \in Process /\ next.opened = me.opened /\ next.specs = me.specs
      /\ next.pc \in {"claim", "served"}
      /\ next.pc = "claim" => next.i \in 1..Len(next.specs)
  <2>1. me.i \in 1..Len(me.specs) /\ Len(me.specs) \in Nat
    BY <1>1 DEF ProcessOK, Process, Opening
  <2>2. CASE me.i < Len(me.specs)
    <3>1. next = [[me EXCEPT !.pc = "claim"] EXCEPT !.i = me.i + 1] /\ me.i + 1 \in Nat
      BY <1>1, <2>1, <2>2 DEF Process
    <3> HIDE DEF next
    <3>2. next \in Process /\ next.opened = me.opened /\ next.specs = me.specs
          /\ next.pc = "claim" /\ next.i = me.i + 1
      BY <1>1, <3>1, Zenon DEF Process
    <3> QED BY <2>1, <2>2, <3>2
  <2>3. CASE ~(me.i < Len(me.specs))
    BY <1>1, <2>3, Zenon DEF Process
  <2> QED BY <2>2, <2>3
<1> HIDE DEF next
<1>4. e \in Opened /\ Append(next.opened, e) \in Seq(Opened) /\ me.opened \in Seq(Opened)
  BY <1>1, <1>3 DEF Opened, Process
<1>5. /\ q \in Process /\ q.res = 0 /\ q.opened = Append(me.opened, e) /\ q.pc = next.pc
      /\ q.i = next.i /\ q.specs = next.specs
  BY <1>3, <1>4, Zenon DEF Process
<1> HIDE DEF q
<1>6. /\ DOMAIN q.opened = DOMAIN me.opened \cup {Len(me.opened) + 1}
      /\ \A k \in DOMAIN me.opened : q.opened[k] = me.opened[k]
      /\ q.opened[Len(me.opened) + 1] = e
  BY <1>4, <1>5
<1>7. ProcessOK(q, DOMAIN heap)
  BY <1>1, <1>3, <1>5, <1>6 DEF ProcessOK, Opening
<1>8. Refs(me) \subseteq Refs(q)
  BY <1>6 DEF Refs
<1>9. Carried
  BY <1>1, <1>2, <1>7, <1>8 DEF Carried, RegInv, TypeOK
<1>10. firing' \subseteq DOMAIN heap
  BY ActivateKeeps DEF RegInv, TypeOK
<1> QED BY <1>9, <1>10, ActivateKeeps, Keeps DEF Carried

LEMMA FireInv ==
  ASSUME RegInv, NEW o \in Objects, Fire(o)
  PROVE  RegInv'
<1>1. UNCHANGED proc
  BY DEF Fire
<1>2. Carried
  BY <1>1 DEF Carried, RegInv, TypeOK
<1> QED BY <1>2, FireKeeps, Keeps DEF Carried

\* A session that takes the first of its opened tunnels off its list.
LEMMA TakesFirst ==
  ASSUME RegInv, NEW s \in Sessions, proc[s].opened # << >>, proc[s].pc \in {"unwind", "closing"},
         proc' = [proc EXCEPT ![s].opened = Tail(@)]
  PROVE  /\ DOMAIN proc' = Sessions /\ ProcessOK(proc'[s], DOMAIN heap)
         /\ Head(proc[s].opened).res \in DOMAIN heap
         /\ Refs(proc[s]) \subseteq Refs(proc'[s]) \cup {Head(proc[s].opened).res}
         /\ \A r \in Sessions \ {s} : proc'[r] = proc[r]
         /\ proc'[s] # proc[s]
<1> DEFINE me == proc[s]
           q == [me EXCEPT !.opened = Tail(me.opened)]
<1>1. me \in Process /\ ProcessOK(me, DOMAIN heap) /\ DOMAIN proc = Sessions /\ me.opened \in Seq(Opened)
  BY Opens DEF Process
<1>2. DOMAIN proc' = Sessions /\ proc'[s] = q /\ \A r \in Sessions \ {s} : proc'[r] = proc[r]
  BY <1>1
<1>3. /\ Tail(me.opened) \in Seq(Opened) /\ Head(me.opened) = me.opened[1] /\ 1 \in DOMAIN me.opened
      /\ Len(Tail(me.opened)) = Len(me.opened) - 1 /\ Len(me.opened) \in Nat
      /\ \A k \in DOMAIN Tail(me.opened) : k + 1 \in DOMAIN me.opened /\ Tail(me.opened)[k] = me.opened[k + 1]
  BY <1>1
<1>4. \A k \in DOMAIN me.opened :
        k # 1 => k - 1 \in DOMAIN Tail(me.opened) /\ me.opened[k] = Tail(me.opened)[k - 1]
  <2> DEFINE n == Len(me.opened)
  <2>1. DOMAIN me.opened = 1..n /\ DOMAIN Tail(me.opened) = 1..(n - 1) /\ n \in Nat
    <3>1. DOMAIN Tail(me.opened) = 1..Len(Tail(me.opened))
      BY <1>3
    <3>2. DOMAIN me.opened = 1..n /\ n \in Nat
      BY <1>1
    <3> QED BY <1>3, <3>1, <3>2
  <2> HIDE DEF n
  <2>2. ASSUME NEW k \in DOMAIN me.opened, k # 1
        PROVE  k - 1 \in DOMAIN Tail(me.opened) /\ me.opened[k] = Tail(me.opened)[k - 1]
    <3>1. k \in 1..n
      BY <2>1
    <3> DEFINE j == k - 1
    <3>2. j \in 1..(n - 1) /\ j + 1 = k
      BY <2>1, <2>2, <3>1
    <3> HIDE DEF j
    <3>3. j \in DOMAIN Tail(me.opened)
      BY <2>1, <3>2
    <3>4. Tail(me.opened)[j] = me.opened[j + 1]
      BY <1>3, <3>3
    <3>5. me.opened[k] = Tail(me.opened)[j]
      BY <3>2, <3>4, Zenon
    <3> QED BY <3>3, <3>5 DEF j
  <2> QED BY <2>2
<1>5. q \in Process /\ q.opened = Tail(me.opened) /\ q.res = me.res /\ q.pc = me.pc /\ q.i = me.i
      /\ q.specs = me.specs /\ q.cand = me.cand
  BY <1>1, <1>3, Zenon DEF Process
<1> HIDE DEF q
<1>6. ProcessOK(q, DOMAIN heap)
  BY <1>1, <1>3, <1>5 DEF ProcessOK
<1>7. Refs(me) \subseteq Refs(q) \cup {Head(me.opened).res}
  <2>1. SUFFICES ASSUME NEW k \in DOMAIN me.opened
                 PROVE  me.opened[k].res \in Refs(q) \cup {Head(me.opened).res}
    BY <1>5, Zenon DEF Refs
  <2>2. CASE k = 1
    BY <1>3, <2>2, Zenon
  <2>3. CASE k # 1
    BY <1>4, <1>5, <2>3, Zenon DEF Refs
  <2> QED BY <2>2, <2>3, Zenon
<1>8. Head(me.opened).res \in DOMAIN heap
  BY <1>1, <1>3 DEF ProcessOK
<1>9. q # me
  <2>1. Len(me.opened) # Len(q.opened)
    BY <1>3, <1>5
  <2> QED BY <2>1
<1> QED BY <1>2, <1>6, <1>7, <1>8, <1>9, Zenon

\* A session that gives back the reservation of the tunnel it could not open.
LEMMA GivesUp ==
  ASSUME RegInv, NEW s \in Sessions, proc[s].pc = "undo",
         proc' = [proc EXCEPT ![s].pc = "unwind", ![s].res = 0, ![s].existed = FALSE]
  PROVE  /\ DOMAIN proc' = Sessions /\ ProcessOK(proc'[s], DOMAIN heap)
         /\ proc[s].res \in DOMAIN heap
         /\ Refs(proc[s]) \subseteq Refs(proc'[s]) \cup {proc[s].res}
         /\ \A r \in Sessions \ {s} : proc'[r] = proc[r]
         /\ proc'[s] # proc[s]
<1> DEFINE me == proc[s]
           q == [[[me EXCEPT !.pc = "unwind"] EXCEPT !.res = 0] EXCEPT !.existed = FALSE]
<1>1. /\ me \in Process /\ ProcessOK(me, DOMAIN heap) /\ DOMAIN proc = Sessions /\ me.res \in DOMAIN heap
  BY Opens DEF Opening
<1>2. DOMAIN proc' = Sessions /\ proc'[s] = q /\ \A r \in Sessions \ {s} : proc'[r] = proc[r]
  BY <1>1
<1>3. /\ q \in Process /\ q.opened = me.opened /\ q.res = 0 /\ q.pc = "unwind"
      /\ q.specs = me.specs /\ q.cand = me.cand /\ q.i = me.i
  BY <1>1, Zenon DEF Process
<1> HIDE DEF q
<1>4. ProcessOK(q, DOMAIN heap)
  BY <1>1, <1>3 DEF ProcessOK, Opening
<1>5. Refs(me) \subseteq Refs(q) \cup {me.res}
  BY <1>3 DEF Refs
<1>6. q # me
  BY <1>3
<1> QED BY <1>1, <1>2, <1>4, <1>5, <1>6

\* What the endings of a session do: it lets go of one reservation, or of none.
LEMMA EndingLeaves ==
  ASSUME RegInv, NEW s \in Sessions, Undo(s) \/ Unwind(s) \/ CloseTunnels(s)
  PROVE  /\ UNCHANGED firing /\ DOMAIN proc' = Sessions /\ ProcessOK(proc'[s], DOMAIN heap)
         /\ \A r \in Sessions \ {s} : proc'[r] = proc[r]
         /\ \/ \E o \in DOMAIN heap : /\ LeftBy(o, s) /\ proc'[s] # proc[s]
                                      /\ Refs(proc[s]) \subseteq Refs(proc'[s]) \cup {o}
            \/ UNCHANGED <<heap, names, domains>> /\ Refs(proc[s]) \subseteq Refs(proc'[s])
<1> DEFINE me == proc[s]
<1>0. /\ me \in Process /\ ProcessOK(me, DOMAIN heap) /\ DOMAIN proc = Sessions
  BY Opens
<1>1. CASE Undo(s)
  <2>1. /\ RollsBack(me.res, s, me.existed) /\ UNCHANGED firing /\ me.pc = "undo"
        /\ proc' = [proc EXCEPT ![s].pc = "unwind", ![s].res = 0, ![s].existed = FALSE]
    BY <1>1 DEF Undo
  <2>2. /\ DOMAIN proc' = Sessions /\ ProcessOK(proc'[s], DOMAIN heap)
        /\ me.res \in DOMAIN heap /\ Refs(me) \subseteq Refs(proc'[s]) \cup {me.res}
        /\ \A r \in Sessions \ {s} : proc'[r] = proc[r]
        /\ proc'[s] # me
    BY <2>1, GivesUp, Zenon
  <2>3. LeftBy(me.res, s)
    BY <2>1, <2>2, RollsBackLeaves, Zenon
  <2> QED BY <2>1, <2>2, <2>3
<1>2. CASE Unwind(s) /\ me.opened # << >>
  BY <1>2, TakesFirst, RollsBackLeaves, SMTT(30) DEF Unwind
<1>3. CASE CloseTunnels(s) /\ me.opened # << >>
  BY <1>3, TakesFirst, ParksLeaves, Zenon DEF CloseTunnels
<1>4. CASE Unwind(s) /\ me.opened = << >>
  <2>1. Goto(s, "refused") /\ Stores(heap) /\ UNCHANGED firing /\ me.pc = "unwind"
    BY <1>4 DEF Unwind
  <2>2. Reachable(me, "refused", me.cand)
    BY <1>0, <2>1 DEF Reachable, ProcessOK, Opening
  <2>3. \A r \in Sessions \ {s} : proc'[r] = proc[r]
    BY <1>0, <2>1 DEF Goto
  <2> QED BY <2>1, <2>2, <2>3, GotoWalks, Zenon DEF Carried, Stores
<1>5. CASE CloseTunnels(s) /\ me.opened = << >>
  <2> DEFINE q == [NewProcess EXCEPT !.pc = "gone"]
  <2>1. proc' = [proc EXCEPT ![s] = q] /\ Stores(heap) /\ UNCHANGED firing /\ me.pc = "closing"
    BY <1>5 DEF CloseTunnels
  <2>2. /\ q \in Process /\ q.pc = "gone" /\ q.res = 0 /\ q.opened = << >>
    BY NewProcessTyped DEF Process
  <2>3. ProcessOK(q, DOMAIN heap) /\ Refs(me) = {0} /\ Refs(q) = {0}
    BY <1>0, <1>5, <2>1, <2>2 DEF ProcessOK, Opening, Refs
  <2> QED BY <1>0, <2>1, <2>3 DEF Stores
<1> QED BY <1>1, <1>2, <1>3, <1>4, <1>5, Zenon

LEMMA EndingInv ==
  ASSUME RegInv, NEW s \in Sessions, Undo(s) \/ Unwind(s) \/ CloseTunnels(s)
  PROVE  RegInv'
<1>1. CASE \E o \in DOMAIN heap : LeftBy(o, s) /\ Refs(proc[s]) \subseteq Refs(proc'[s]) \cup {o}
  BY <1>1, EndingLeaves, Lets
<1>2. CASE UNCHANGED <<heap, names, domains>> /\ Refs(proc[s]) \subseteq Refs(proc'[s])
  <2>1. SameObjects /\ SameSessions /\ Fewer /\ firing' \subseteq DOMAIN heap
    BY <1>2, EndingLeaves DEF RegInv, TypeOK, SameObjects, SameSessions, Fewer, Map
  <2>2. Carried
    BY <1>2, EndingLeaves, Zenon DEF Carried, RegInv, TypeOK
  <2> QED BY <2>1, <2>2, Keeps DEF Carried
<1> QED BY <1>1, <1>2, EndingLeaves

\* Reservation x is made as object o, under name n.
Gained(n, o, x) ==
  /\ Map(heap', Objects, Reservation) /\ DOMAIN heap' = DOMAIN heap \cup {o}
  /\ heap'[o] = x /\ \A p \in DOMAIN heap \ {o} : heap'[p] = heap[p]
  /\ Map(names', Names, DOMAIN heap') /\ DOMAIN names' = DOMAIN names \cup {n}
  /\ names'[n] = o
  /\ \A m \in DOMAIN names : names'[m] = names[m] /\ names[m] # o /\ names[m] \in DOMAIN heap

\* Memory nothing points at, and a name nobody has.
LEMMA FreshName ==
  ASSUME RegInv, NEW o \in Objects, Fresh(o), NEW n \in Names \ DOMAIN names,
         NEW x \in Reservation, heap' = With(heap, o, x), names' = With(names, n, o)
  PROVE  Gained(n, o, x)
<1>1. Map(heap, Objects, Reservation) /\ Map(names, Names, DOMAIN heap)
  BY Zenon DEF RegInv, TypeOK
<1>2. \A m \in DOMAIN names : names[m] # o
  BY DEF Fresh, Referenced
<1>3. /\ DOMAIN heap' = DOMAIN heap \cup {o} /\ heap'[o] = x
      /\ \A p \in DOMAIN heap \ {o} : heap'[p] = heap[p]
  BY DEF With
<1>4. Map(heap', Objects, Reservation)
  <2>1. heap' \in [DOMAIN heap' -> Reservation]
    BY <1>1 DEF Map, With
  <2> QED BY <1>1, <1>3, <2>1 DEF Map
<1>5. /\ DOMAIN names' = DOMAIN names \cup {n} /\ names'[n] = o
      /\ \A m \in DOMAIN names : names'[m] = names[m]
  BY DEF With
<1>6. Map(names', Names, DOMAIN heap')
  <2>1. names' \in [DOMAIN names' -> DOMAIN heap']
    BY <1>1, <1>3 DEF Map, With
  <2> QED BY <1>1, <1>5, <2>1 DEF Map
<1> QED BY <1>1, <1>2, <1>3, <1>4, <1>5, <1>6, Zenon DEF Map, Gained

\* The rest of the invariant, when a name was given a fresh reservation.
LEMMA FreshInv ==
  ASSUME RegInv, NEW o \in Objects, NEW n \in Names, NEW x \in Reservation, Gained(n, o, x),
         x.name = n, UNCHANGED <<domains, firing>>, DOMAIN proc' = Sessions,
         \A s \in Sessions : /\ ProcessOK(proc'[s], DOMAIN heap \cup {o})
                             /\ Refs(proc[s]) \subseteq Refs(proc'[s]) \cup {0},
         x.session # NoOne => o \in Refs(proc'[x.session])
  PROVE  RegInv'
<1>1. /\ Map(heap', Objects, Reservation) /\ DOMAIN heap' = DOMAIN heap \cup {o}
      /\ heap'[o] = x /\ \A p \in DOMAIN heap \ {o} : heap'[p] = heap[p]
      /\ Map(names', Names, DOMAIN heap') /\ DOMAIN names' = DOMAIN names \cup {n}
      /\ names'[n] = o
      /\ \A m \in DOMAIN names : names'[m] = names[m] /\ names[m] # o /\ names[m] \in DOMAIN heap
  BY DEF Gained
<1>2. Map(domains', Domains, DOMAIN heap') /\ firing' \subseteq DOMAIN heap'
  BY <1>1 DEF RegInv, TypeOK, Map
<1>3. TypeOK'
  <2>1. IsFiniteSet(DOMAIN names')
    <3>1. IsFiniteSet(DOMAIN names)
      BY DEF RegInv, TypeOK
    <3>2. IsFiniteSet(DOMAIN names \cup {n})
      BY <3>1, AddedIsFinite, Zenon
    <3> QED BY <1>1, <3>2, Zenon
  <2> QED BY <1>1, <1>2, <2>1, Zenon DEF TypeOK
<1>4. ASSUME NEW m \in DOMAIN names
      PROVE  /\ heap'[names'[m]] = heap[names[m]] /\ names[m] # 0
             /\ heap[names[m]].session \in Sessions \cup {NoOne}
             /\ heap[names[m]].name = m
             /\ heap[names[m]].session # NoOne => names[m] \in Refs(proc[heap[names[m]].session])
  <2>1. names[m] \in Objects /\ heap[names[m]] \in Reservation
    BY <1>1 DEF RegInv, TypeOK, Map
  <2>2. names[m] # 0 /\ heap[names[m]].session \in Sessions \cup {NoOne}
    BY <2>1, RegistryConstants, Zenon DEF Reservation
  <2> QED BY <1>1, <2>2 DEF RegInv, ResOf
<1>5. \A m \in DOMAIN names' : heap'[names'[m]].name = m
  BY <1>1, <1>4, Zenon
<1>6. \A m \in DOMAIN names' : heap'[names'[m]].session # NoOne =>
        names'[m] \in Refs(proc'[heap'[names'[m]].session])
  BY <1>1, <1>4
<1> QED BY <1>3, <1>5, <1>6, Zenon DEF RegInv, ResOf

\* A session whose claim was granted has the reservation in its hands.
LEMMA Takes ==
  ASSUME RegInv, NEW s \in Sessions, NEW o \in Objects, NEW existed \in BOOLEAN,
         proc[s].pc = "claim",
         proc' = [proc EXCEPT ![s].pc = "domains", ![s].res = o, ![s].existed = existed]
  PROVE  /\ DOMAIN proc' = Sessions /\ o \in Refs(proc'[s])
         /\ \A r \in Sessions : /\ ProcessOK(proc'[r], DOMAIN heap \cup {o})
                                /\ Refs(proc[r]) \subseteq Refs(proc'[r]) \cup {0}
<1> DEFINE me == proc[s]
           q == [[[me EXCEPT !.pc = "domains"] EXCEPT !.res = o] EXCEPT !.existed = existed]
<1>1. me \in Process /\ ProcessOK(me, DOMAIN heap) /\ DOMAIN proc = Sessions
  BY Opens
<1>2. DOMAIN proc' = Sessions /\ proc'[s] = q /\ \A r \in Sessions \ {s} : proc'[r] = proc[r]
  BY <1>1
<1>3. /\ q \in Process /\ q.opened = me.opened /\ q.res = o /\ q.pc = "domains"
      /\ q.specs = me.specs /\ q.i = me.i
  BY <1>1, Zenon DEF Process, Opening
<1> HIDE DEF q
<1>4. o # 0 /\ me.res = 0
  BY <1>1, RegistryConstants DEF ProcessOK, Opening
<1>5. ProcessOK(q, DOMAIN heap \cup {o})
  BY <1>1, <1>3, <1>4 DEF ProcessOK, Opening
<1>6. Refs(me) \subseteq Refs(q) \cup {0} /\ o \in Refs(q)
  BY <1>3, <1>4 DEF Refs
<1>7. \A r \in Sessions : ProcessOK(proc[r], DOMAIN heap \cup {o})
  BY Zenon DEF RegInv, TypeOK, ProcessOK
<1> QED BY <1>2, <1>5, <1>6, <1>7, Zenon

\* What claim's decision says of the name's holder and of the token's cap.
Capped(s) ==
  ~(MaxOf[TokenOf[s]] > 0 /\ Active(TokenOf[s], Spec1(s).name) >= MaxOf[TokenOf[s]])

LEMMA Decided ==
  ASSUME RegInv, NEW s \in Sessions, proc[s].pc = "claim", ~Refused(s)
  PROVE  /\ Decision(s) = "NEW" => Spec1(s).name \notin DOMAIN names /\ Capped(s)
         /\ Decision(s) \in {"RECLAIM", "TAKEOVER"} =>
              /\ Spec1(s).name \in DOMAIN names /\ Capped(s)
              /\ LET r == ResOf(Spec1(s).name)
                 IN r.token = TokenOf[s] /\
                    (r.session # NoOne => r.session # s /\ AgentOf[r.session] = AgentOf[s])
<1> DEFINE name == Spec1(s).name
           active == Active(TokenOf[s], name)
           max == MaxOf[TokenOf[s]]
           holder == HolderOf(name, s)
<1>1. Decision(s) = Decide(holder, TokenOf[s], AgentOf[s], active, max) /\ Decision(s) \notin Refusals
  BY DEF Decision, Refused
<1>3. name \in DOMAIN names <=> holder # {}
  <2>1. ASSUME name \in DOMAIN names
        PROVE  holder # {}
    <3> DEFINE r == heap[names[name]]
    <3>1. [token |-> r.token, agent |-> IF r.session = NoOne THEN NoOne ELSE AgentOf[r.session],
           connected |-> r.session # NoOne, sameSession |-> r.session = s] \in holder
      BY <2>1, Zenon DEF HolderOf
    <3> QED BY <3>1, Zenon
  <2>2. ASSUME name \notin DOMAIN names
        PROVE  holder = {}
    <3>1. {name} \cap DOMAIN names = {}
      BY <2>2
    <3> QED BY <3>1 DEF HolderOf
  <2> QED BY <2>1, <2>2
<1> HIDE DEF active, max
<1>4. ~(max > 0 /\ active >= max)
  BY <1>1 DEF Decide, Refusals
<1>6. Capped(s)
  BY <1>4 DEF Capped, active, max
<1>7. Decision(s) = "NEW" => holder = {}
  BY <1>1 DEF Decide, Refusals
<1>8. Decision(s) \in {"RECLAIM", "TAKEOVER"} => holder # {}
  BY <1>1 DEF Decide, Refusals
<1>9. ASSUME name \in DOMAIN names
      PROVE  LET r == ResOf(name)
             IN r.token = TokenOf[s] /\ (r.session # NoOne => r.session # s /\ AgentOf[r.session] = AgentOf[s])
  <2> DEFINE r == ResOf(name)
             h == [token |-> r.token, agent |-> IF r.session = NoOne THEN NoOne ELSE AgentOf[r.session],
                   connected |-> r.session # NoOne, sameSession |-> r.session = s]
  <2>1. h \in holder
    BY <1>9 DEF HolderOf, ResOf
  <2>2. \A g \in holder : ~(g.token # TokenOf[s] \/ (g.connected /\ (g.agent # AgentOf[s] \/ g.sameSession)))
    BY <1>1 DEF Decide, Refusals
  <2> HIDE DEF r
  <2> QED BY <2>1, <2>2, Zenon DEF r
<1> QED BY <1>3, <1>6, <1>7, <1>8, <1>9, Zenon

LEMMA NewReservationTyped ==
  ASSUME NEW n \in Names, NEW t \in Tokens
  PROVE  /\ NewReservation(n, t) \in Reservation
         /\ NewReservation(n, t).name = n /\ NewReservation(n, t).token = t
         /\ NewReservation(n, t).port = 0 /\ NewReservation(n, t).session = NoOne
         /\ NewReservation(n, t).domains = {}
  BY Zenon DEF NewReservation, Reservation

LEMMA ClaimNewGains ==
  ASSUME RegInv, NEW s \in Sessions, ClaimNew(s)
  PROVE  \E o \in Objects, x \in Reservation :
           /\ Gained(Spec1(s).name, o, x) /\ Spec1(s).name \in Names \ DOMAIN names
           /\ x.name = Spec1(s).name /\ x.token = TokenOf[s] /\ x.session = s
           /\ x.port = 0 /\ x.domains = {}
           /\ proc' = [proc EXCEPT ![s].pc = "domains", ![s].res = o, ![s].existed = FALSE]
<1> DEFINE n == Spec1(s).name
           x == [NewReservation(n, TokenOf[s]) EXCEPT !.session = s]
<1>1. n \in Names /\ n \notin DOMAIN names /\ TokenOf[s] \in Tokens
  BY Opens, Decided, RegistryConstants, Zenon DEF ClaimNew, TunnelSpec
<1> HIDE DEF n
<1>2. NewReservation(n, TokenOf[s]) \in Reservation
  BY <1>1, NewReservationTyped
<1>3. x \in Reservation /\ x.session = s /\ x.name = NewReservation(n, TokenOf[s]).name
      /\ x.token = NewReservation(n, TokenOf[s]).token
      /\ x.port = NewReservation(n, TokenOf[s]).port
      /\ x.domains = NewReservation(n, TokenOf[s]).domains
  BY <1>2 DEF Reservation
<1>4. x.name = n /\ x.token = TokenOf[s] /\ x.port = 0 /\ x.domains = {}
  BY <1>1, <1>3, NewReservationTyped
<1>5. PICK o \in Objects :
        /\ Fresh(o) /\ heap' = With(heap, o, x) /\ names' = With(names, n, o)
        /\ proc' = [proc EXCEPT ![s].pc = "domains", ![s].res = o, ![s].existed = FALSE]
  BY Zenon DEF ClaimNew, n
<1> HIDE DEF x
<1>6. Gained(n, o, x)
  BY <1>1, <1>3, <1>5, FreshName
<1> QED BY <1>1, <1>3, <1>4, <1>5, <1>6, Zenon DEF n

LEMMA ClaimNewInv ==
  ASSUME RegInv, NEW s \in Sessions, ClaimNew(s)
  PROVE  RegInv'
<1> DEFINE n == Spec1(s).name
<1>1. PICK o \in Objects, x \in Reservation :
           /\ Gained(n, o, x) /\ n \in Names \ DOMAIN names
           /\ x.name = n /\ x.token = TokenOf[s] /\ x.session = s
           /\ x.port = 0 /\ x.domains = {}
           /\ proc' = [proc EXCEPT ![s].pc = "domains", ![s].res = o, ![s].existed = FALSE]
  BY ClaimNewGains, Zenon
<1>2. /\ DOMAIN proc' = Sessions /\ o \in Refs(proc'[s])
      /\ \A r \in Sessions : /\ ProcessOK(proc'[r], DOMAIN heap \cup {o})
                             /\ Refs(proc[r]) \subseteq Refs(proc'[r]) \cup {0}
  BY <1>1, Takes, Zenon DEF ClaimNew
<1>3. UNCHANGED <<domains, firing>>
  BY DEF ClaimNew
<1> HIDE DEF n
<1> QED BY <1>1, <1>2, <1>3, FreshInv, Zenon

\* The reservation of name n changes hands, to session s.
Taken(n, s) ==
  /\ SameObjects /\ names' = names /\ n \in DOMAIN names
  /\ heap'[names[n]].session = s
  /\ \A p \in DOMAIN heap \ {names[n]} : heap'[p].session = heap[p].session

LEMMA ClaimHeldTakes ==
  ASSUME RegInv, NEW s \in Sessions, ClaimHeld(s)
  PROVE  /\ Taken(Spec1(s).name, s) /\ UNCHANGED <<domains, firing>>
         /\ \A p \in DOMAIN heap : heap'[p].port = heap[p].port /\ heap'[p].domains = heap[p].domains
<1> DEFINE n == Spec1(s).name
           o == names[n]
           x == [[[heap[o] EXCEPT !.session = s] EXCEPT !.tunnel = NoOne] EXCEPT !.armed = FALSE]
<1>1. n \in DOMAIN names
  BY Decided, Zenon DEF ClaimHeld
<1>2. o \in DOMAIN heap /\ heap[o] \in Reservation /\ Map(heap, Objects, Reservation)
  BY <1>1 DEF RegInv, TypeOK, Map
<1>3. heap' = [heap EXCEPT ![o].session = s, ![o].tunnel = NoOne, ![o].armed = FALSE]
      /\ names' = names /\ UNCHANGED <<domains, firing>>
  BY Zenon DEF ClaimHeld
<1> HIDE DEF n, o
<1>4. heap' = [heap EXCEPT ![o] = x]
  BY <1>2, <1>3, Zenon
<1>5. x \in Reservation /\ x.name = heap[o].name /\ x.token = heap[o].token /\ x.session = s
      /\ x.port = heap[o].port /\ x.domains = heap[o].domains
  BY <1>2, Zenon DEF Reservation
<1> HIDE DEF x
<1>6. /\ Map(heap', Objects, Reservation) /\ DOMAIN heap' = DOMAIN heap /\ heap'[o] = x
      /\ \A p \in DOMAIN heap \ {o} : heap'[p] = heap[p]
  BY <1>2, <1>4, <1>5 DEF Map
<1> QED BY <1>1, <1>3, <1>5, <1>6, Zenon DEF Taken, SameObjects, o, n

LEMMA ClaimHeldInv ==
  ASSUME RegInv, NEW s \in Sessions, ClaimHeld(s)
  PROVE  RegInv'
<1> DEFINE n == Spec1(s).name
           o == names[n]
<1>1. Taken(n, s) /\ UNCHANGED <<domains, firing>>
  BY ClaimHeldTakes
<1>2. n \in DOMAIN names /\ o \in DOMAIN heap /\ o \in Objects
  BY <1>1 DEF Taken, RegInv, TypeOK, Map
<1>3. proc[s].pc = "claim" /\ proc' = [proc EXCEPT ![s].pc = "domains", ![s].res = o, ![s].existed = TRUE]
  BY Zenon DEF ClaimHeld
<1> HIDE DEF n
<1>4. /\ DOMAIN proc' = Sessions /\ o \in Refs(proc'[s])
      /\ \A r \in Sessions : /\ ProcessOK(proc'[r], DOMAIN heap \cup {o})
                             /\ Refs(proc[r]) \subseteq Refs(proc'[r]) \cup {0}
  BY <1>2, <1>3, Takes, Zenon
<1>5. DOMAIN heap \cup {o} = DOMAIN heap
  BY <1>2, Zenon
<1>6. TypeOK'
  BY <1>1, <1>4, <1>5, Zenon DEF Taken, SameObjects, RegInv, TypeOK
<1>7. ASSUME NEW m \in DOMAIN names
      PROVE  /\ heap'[names[m]].name = m
             /\ heap'[names[m]].session # NoOne => names[m] \in Refs(proc'[heap'[names[m]].session])
  <2>1. /\ names[m] \in DOMAIN heap /\ names[m] # 0 /\ heap[names[m]].name = m
        /\ heap[names[m]].session \in Sessions \cup {NoOne}
        /\ heap[names[m]].session # NoOne => names[m] \in Refs(proc[heap[names[m]].session])
    BY RegistryConstants, Zenon DEF RegInv, TypeOK, Map, ResOf, Reservation
  <2>2. heap'[names[m]].name = m
    BY <1>1, <2>1 DEF Taken, SameObjects
  <2>3. CASE names[m] = o
    BY <1>1, <1>4, <2>2, <2>3, Zenon DEF Taken
  <2>4. CASE names[m] # o
    BY <1>1, <1>4, <2>1, <2>2, <2>4, Zenon DEF Taken
  <2> QED BY <2>3, <2>4
<1> QED BY <1>1, <1>6, <1>7 DEF RegInv, ResOf, Taken

\* Names are dropped, nothing changes hands.
Dropped(S) == SameObjects /\ SameSessions /\ Fewer /\ DOMAIN names' = DOMAIN names \ S

\* Nothing but names dropped keeps the invariant.
LEMMA DroppedInv ==
  ASSUME RegInv, NEW S, Dropped(S), firing' \subseteq firing, UNCHANGED proc
  PROVE  RegInv'
<1>1. firing' \subseteq DOMAIN heap /\ Carried
  BY DEF RegInv, TypeOK, Carried
<1> QED BY <1>1, Keeps, Zenon DEF Dropped, Carried

\* Reservations of O are deleted, when h differs from the heap in no more than the
\* timers and the permanence.
LEMMA DeletesDropped ==
  ASSUME RegInv, NEW h, NEW O, Map(h, Objects, Reservation), DOMAIN h = DOMAIN heap,
         \A o \in DOMAIN heap : /\ h[o].name = heap[o].name /\ h[o].token = heap[o].token
                                /\ h[o].session = heap[o].session,
         Deletes(h, O)
  PROVE  Dropped({n \in DOMAIN names : names[n] \in O})
<1>1. /\ Map(heap', Objects, Reservation) /\ DOMAIN heap' = DOMAIN heap /\ Fewer
      /\ \A o \in DOMAIN heap : /\ heap'[o].name = h[o].name /\ heap'[o].token = h[o].token
                                /\ heap'[o].session = h[o].session
      /\ DOMAIN names' = {n \in DOMAIN names : names[n] \notin O}
  BY DeletesDrops, Zenon
<1> QED BY <1>1 DEF Dropped, SameObjects, SameSessions

LEMMA StoresDropped ==
  ASSUME RegInv, NEW h, Map(h, Objects, Reservation), DOMAIN h = DOMAIN heap,
         \A o \in DOMAIN heap : /\ h[o].name = heap[o].name /\ h[o].token = heap[o].token
                                /\ h[o].session = heap[o].session,
         Stores(h)
  PROVE  Dropped({})
<1>1. heap' = h /\ names' = names /\ domains' = domains /\ Fewer
  BY StoresKeeps
<1> QED BY <1>1 DEF Dropped, SameObjects, SameSessions

\* Names nobody is connected for.
Waits(S) == \A n \in S : n \in DOMAIN names /\ ResOf(n).session = NoOne

LEMMA ExpireDrops ==
  ASSUME RegInv, NEW o \in Objects, Expire(o)
  PROVE  \E S : Dropped(S) /\ Waits(S)
<1>1. Map(heap, Objects, Reservation)
  BY DEF RegInv, TypeOK
<1>2. CASE heap[o].session = NoOne /\ Deletes(heap, {o})
  <2> DEFINE S == {n \in DOMAIN names : names[n] \in {o}}
  <2>1. Dropped(S)
    BY <1>1, <1>2, DeletesDropped
  <2>2. Waits(S)
    BY <1>2 DEF Waits, ResOf
  <2> QED BY <2>1, <2>2
<1>3. CASE Stores(heap)
  <2>1. Dropped({}) /\ Waits({})
    BY <1>1, <1>3, StoresDropped DEF Waits
  <2> QED BY <2>1
<1> QED BY <1>2, <1>3, Zenon DEF Expire

LEMMA UnreserveDrops ==
  ASSUME RegInv, NEW n \in Names, Unreserve(n)
  PROVE  \E S : Dropped(S) /\ Waits(S)
<1> DEFINE o == names[n]
           h == [heap EXCEPT ![o].permanent = FALSE]
<1>1. /\ Map(heap, Objects, Reservation) /\ n \in DOMAIN names /\ o \in DOMAIN heap
      /\ heap[o] \in Reservation
  BY DEF RegInv, TypeOK, Map, Unreserve
<1>2. \/ heap[o].session = NoOne /\ Deletes(h, {o})
      \/ Stores(h)
  BY DEF Unreserve
<1> HIDE DEF o
<1>3. DOMAIN h = DOMAIN heap /\ h[o] = [heap[o] EXCEPT !.permanent = FALSE]
      /\ \A p \in DOMAIN heap \ {o} : h[p] = heap[p]
  BY <1>1
<1>4. h[o] \in Reservation /\ h[o].name = heap[o].name /\ h[o].token = heap[o].token
      /\ h[o].session = heap[o].session
  BY <1>1, <1>3, Zenon DEF Reservation
<1>5. h = [p \in DOMAIN heap |-> h[p]]
  BY Zenon
<1> HIDE DEF h
<1>6. Map(h, Objects, Reservation)
  <2>1. \A p \in DOMAIN heap : h[p] \in Reservation
    BY <1>1, <1>3, <1>4, Zenon DEF Map
  <2> QED BY <1>1, <1>3, <1>5, <2>1 DEF Map
<1>7. \A p \in DOMAIN heap : h[p].name = heap[p].name /\ h[p].token = heap[p].token
                             /\ h[p].session = heap[p].session
  BY <1>3, <1>4, Zenon
<1>8. CASE heap[o].session = NoOne /\ Deletes(h, {o})
  <2> DEFINE S == {m \in DOMAIN names : names[m] \in {o}}
  <2>1. Dropped(S)
    BY <1>3, <1>6, <1>7, <1>8, DeletesDropped
  <2>2. Waits(S)
    BY <1>8 DEF Waits, ResOf
  <2> QED BY <2>1, <2>2
<1>9. CASE Stores(h)
  <2>1. Dropped({}) /\ Waits({})
    BY <1>3, <1>6, <1>7, <1>9, StoresDropped DEF Waits
  <2> QED BY <2>1
<1> QED BY <1>2, <1>8, <1>9

LEMMA ReleaseDrops ==
  ASSUME RegInv, NEW t, ReleaseToken(t)
  PROVE  Dropped({n \in DOMAIN names : ResOf(n).token = t})
<1> DEFINE O == {names[n] : n \in {m \in DOMAIN names : heap[names[m]].token = t}}
<1>1. Dropped({n \in DOMAIN names : names[n] \in O})
  BY DeletesDropped, Zenon DEF ReleaseToken, RegInv, TypeOK
<1>2. \A n \in DOMAIN names : names[n] \in O <=> ResOf(n).token = t
  BY DEF ResOf
<1> HIDE DEF O
<1>3. {n \in DOMAIN names : names[n] \in O} = {n \in DOMAIN names : ResOf(n).token = t}
  BY <1>2
<1> QED BY <1>1, <1>3

\* Every session has let go before the registry is closed.
LEMMA CloseDrops ==
  ASSUME RegInv, Close
  PROVE  \E S : Dropped(S) /\ Waits(S)
<1> DEFINE parked == {names[n] : n \in DOMAIN names}
           h == [o \in DOMAIN heap |-> [heap[o] EXCEPT !.armed = @ /\ o \notin parked]]
           O == {o \in parked : ~heap[o].permanent}
           S == {n \in DOMAIN names : names[n] \in O}
<1>1. Deletes(h, O) /\ \A s \in Sessions : proc[s].pc \in {"new", "gone"}
  BY DEF Close
<1>2. ASSUME NEW o \in DOMAIN heap
      PROVE  /\ h[o] \in Reservation /\ h[o].name = heap[o].name /\ h[o].token = heap[o].token
             /\ h[o].session = heap[o].session
  <2>1. heap[o] \in Reservation /\ h[o] = [heap[o] EXCEPT !.armed = heap[o].armed /\ o \notin parked]
    BY DEF RegInv, TypeOK, Map
  <2> HIDE DEF parked, h
  <2> QED BY <2>1, Zenon DEF Reservation
<1>3. Map(h, Objects, Reservation) /\ DOMAIN h = DOMAIN heap
  BY <1>2 DEF Map, RegInv, TypeOK
<1> HIDE DEF h, O
<1>4. Dropped(S)
  BY <1>1, <1>2, <1>3, DeletesDropped, Zenon
<1>5. ASSUME NEW n \in DOMAIN names
      PROVE  ResOf(n).session = NoOne
  <2>1. names[n] \in DOMAIN heap /\ names[n] # 0 /\ ResOf(n).session \in Sessions \cup {NoOne}
    BY RegistryConstants DEF RegInv, TypeOK, Map, ResOf, Reservation
  <2>2. ASSUME NEW s \in Sessions PROVE Refs(proc[s]) = {0}
    <3>1. ProcessOK(proc[s], DOMAIN heap) /\ proc[s].pc \in {"new", "gone"}
      BY <1>1 DEF RegInv, TypeOK
    <3>2. proc[s].res = 0 /\ proc[s].opened = << >>
      BY <3>1, Zenon DEF ProcessOK, Opening
    <3> QED BY <3>2 DEF Refs
  <2> QED BY <2>1, <2>2 DEF RegInv
<1> QED BY <1>4, <1>5 DEF Waits

\* reserve: a reservation that is there becomes permanent, or a new one is made.
LEMMA ReserveWrites ==
  ASSUME RegInv, NEW r \in Reservable, Reserve(r)
  PROVE  \E o \in Objects, y \in Reservation, x \in Reservation :
           /\ r.name \in Names /\ r.token \in Tokens
           /\ IF r.name \in DOMAIN names THEN o = names[r.name] /\ y = heap[o]
                                         ELSE Fresh(o) /\ y = NewReservation(r.name, r.token)
           /\ heap' = With(heap, o, x) /\ names' = With(names, r.name, o)
           /\ x.name = y.name /\ x.token = y.token /\ x.session = y.session /\ x.domains = y.domains
           /\ x.port = IF r.port # 0 THEN r.port ELSE y.port
           /\ ports' = (ports \ ({y.port} \ {x.port})) \cup ({r.port} \ {0, y.port})
<1> DEFINE n == r.name
           old(o) == IF n \in DOMAIN names THEN heap[o] ELSE NewReservation(n, r.token)
           port(o) == IF r.port # 0 THEN r.port ELSE old(o).port
           x(o) == [old(o) EXCEPT !.port = port(o), !.permanent = TRUE, !.armed = FALSE]
<1>1. PICK o \in Objects :
        /\ IF n \in DOMAIN names THEN o = names[n] ELSE Fresh(o)
        /\ heap' = With(heap, o, x(o)) /\ names' = With(names, n, o)
        /\ ports' = (ports \ ({old(o).port} \ {port(o)})) \cup ({r.port} \ {0, old(o).port})
  BY Zenon DEF Reserve
<1>2. n \in Names /\ r.token \in Tokens /\ r.port \in Nat
  <2>1. r \in [name : Names, token : Tokens, port : PortOrNone] /\ PortMin \in Nat /\ PortMax \in Nat
    BY RegistryConstants
  <2> QED BY <2>1 DEF PortOrNone, Ports
<1> DEFINE y == old(o)
           p == port(o)
           z == [[[y EXCEPT !.port = p] EXCEPT !.permanent = TRUE] EXCEPT !.armed = FALSE]
<1>3. x(o) = z
  BY Zenon
<1>4. y \in Reservation /\ p \in Nat
  <2>1. CASE n \in DOMAIN names
    BY <1>1, <1>2, <2>1, Zenon DEF RegInv, TypeOK, Map, Reservation
  <2>2. CASE n \notin DOMAIN names
    <3>1. y = NewReservation(n, r.token)
      BY <2>2, Zenon
    <3>2. y \in Reservation /\ y.port = 0
      BY <1>2, <3>1, NewReservationTyped
    <3> QED BY <1>2, <3>2
  <2> QED BY <2>1, <2>2
<1>5. p = IF r.port # 0 THEN r.port ELSE y.port
  OBVIOUS
<1>6. IF n \in DOMAIN names THEN o = names[n] /\ y = heap[o]
                            ELSE Fresh(o) /\ y = NewReservation(n, r.token)
  BY <1>1
<1>7. /\ heap' = With(heap, o, z) /\ names' = With(names, n, o)
      /\ ports' = (ports \ ({y.port} \ {p})) \cup ({r.port} \ {0, y.port})
  BY <1>1, <1>3, Zenon
<1> HIDE DEF p, y, x
<1>8. /\ z \in Reservation /\ z.name = y.name /\ z.token = y.token /\ z.session = y.session
      /\ z.domains = y.domains /\ z.port = p
  BY <1>4, Zenon DEF Reservation
<1> HIDE DEF z
<1>9. /\ z.port = IF r.port # 0 THEN r.port ELSE y.port
      /\ ports' = (ports \ ({y.port} \ {z.port})) \cup ({r.port} \ {0, y.port})
  BY <1>5, <1>7, <1>8, Zenon
<1> QED BY <1>2, <1>4, <1>6, <1>7, <1>8, <1>9

LEMMA ReserveGains ==
  ASSUME RegInv, NEW r \in Reservable, Reserve(r)
  PROVE  \/ SameObjects /\ SameSessions /\ Fewer /\ names' = names
         \/ /\ r.name \in Names \ DOMAIN names /\ r.token \in Tokens
            /\ \E o \in Objects, x \in Reservation :
                 /\ Gained(r.name, o, x)
                 /\ x.name = r.name /\ x.token = r.token /\ x.session = NoOne
<1> DEFINE n == r.name
<1>1. PICK o \in Objects, y \in Reservation, z \in Reservation :
        /\ n \in Names /\ r.token \in Tokens
        /\ IF n \in DOMAIN names THEN o = names[n] /\ y = heap[o]
                                 ELSE Fresh(o) /\ y = NewReservation(n, r.token)
        /\ heap' = With(heap, o, z) /\ names' = With(names, n, o)
        /\ z.name = y.name /\ z.token = y.token /\ z.session = y.session /\ z.domains = y.domains
        /\ z.port = IF r.port # 0 THEN r.port ELSE y.port
        /\ ports' = (ports \ ({y.port} \ {z.port})) \cup ({r.port} \ {0, y.port})
  BY ReserveWrites
<1>2. UNCHANGED domains
  BY DEF Reserve
<1>3. CASE n \in DOMAIN names
  <2>1. o = names[n] /\ y = heap[o] /\ o \in DOMAIN heap
    BY <1>1, <1>3, ZenonT(30) DEF RegInv, TypeOK, Map
  <2>2. heap' = [heap EXCEPT ![o] = z] /\ names' = names
    BY <1>1, <1>3, <2>1, Zenon DEF With, RegInv, TypeOK, Map
  <2>3. SameObjects /\ SameSessions
    BY <1>1, <2>1, <2>2, EditKeeps, Zenon
  <2> QED BY <1>2, <2>2, <2>3, Zenon DEF Fewer, RegInv, TypeOK, Map
<1>4. CASE n \notin DOMAIN names
  <2>1. Fresh(o) /\ y = NewReservation(n, r.token)
    BY <1>1, <1>4, Zenon
  <2>2. z.name = n /\ z.token = r.token /\ z.session = NoOne
    BY <1>1, <2>1, NewReservationTyped, Zenon
  <2>3. Gained(n, o, z)
    BY <1>1, <1>4, <2>1, FreshName, Zenon
  <2> QED BY <1>1, <1>4, <2>2, <2>3, Zenon
<1> QED BY <1>3, <1>4, Zenon

LEMMA ReserveInv ==
  ASSUME RegInv, NEW r \in Reservable, Reserve(r)
  PROVE  RegInv'
<1>1. UNCHANGED <<domains, firing, proc>>
  BY DEF Reserve
<1>2. CASE SameObjects /\ SameSessions /\ Fewer
  <2>1. firing' \subseteq DOMAIN heap /\ Carried
    BY <1>1, Zenon DEF RegInv, TypeOK, Carried
  <2> QED BY <1>2, <2>1, Keeps, Zenon DEF Carried
<1>3. CASE \E o \in Objects, x \in Reservation :
             /\ Gained(r.name, o, x) /\ r.name \in Names
             /\ x.name = r.name /\ x.session = NoOne
  <2>1. PICK o \in Objects, x \in Reservation :
          Gained(r.name, o, x) /\ r.name \in Names /\ x.name = r.name /\ x.session = NoOne
    BY <1>3
  <2>2. DOMAIN proc' = Sessions
        /\ \A s \in Sessions : /\ ProcessOK(proc'[s], DOMAIN heap \cup {o})
                               /\ Refs(proc[s]) \subseteq Refs(proc'[s]) \cup {0}
    BY <1>1, Zenon DEF RegInv, TypeOK, ProcessOK
  <2> QED BY <1>1, <2>1, <2>2, FreshInv, Zenon
<1> QED BY <1>2, <1>3, ReserveGains

LEMMA RegStep ==
  ASSUME RegInv, [Next]_vars
  PROVE  RegInv'
<1>1. ASSUME NEW s \in Sessions, NEW specs \in Requests, Register(s, specs)
      PROVE  RegInv'
  BY <1>1, RegisterInv
<1>2. ASSUME NEW s \in Sessions, Step(s) \/ End(s)
      PROVE  RegInv'
  BY <1>2, SearchInv, ClaimNewInv, ClaimHeldInv, SetDomainsInv, SetPortInv, ActivateInv, EndingInv, Zenon
  DEF Step
<1>3. ASSUME NEW o \in Objects, Fire(o) \/ Expire(o)
      PROVE  RegInv'
  <2>1. CASE Fire(o)
    BY <2>1, FireInv
  <2>2. CASE Expire(o)
    <3>1. firing' \subseteq firing /\ UNCHANGED proc
      BY <2>2 DEF Expire
    <3> QED BY <2>2, <3>1, ExpireDrops, DroppedInv
  <2> QED BY <1>3, <2>1, <2>2
<1>4. ASSUME NEW r \in Reservable, Reserve(r)
      PROVE  RegInv'
  BY <1>4, ReserveInv
<1>5. ASSUME NEW n \in Names, Unreserve(n)
      PROVE  RegInv'
  <2>1. firing' \subseteq firing /\ UNCHANGED proc
    BY <1>5, Zenon DEF Unreserve
  <2> QED BY <1>5, <2>1, UnreserveDrops, DroppedInv
<1>6. ASSUME UNCHANGED <<heap, names, domains, firing, proc>>
      PROVE  RegInv'
  BY <1>6, Zenon DEF RegInv, TypeOK, ResOf
<1>7. ASSUME NEW t \in Revocable, DeleteToken(t) \/ ReleaseToken(t)
      PROVE  RegInv'
  <2>1. CASE DeleteToken(t)
    BY <1>6, <2>1 DEF DeleteToken
  <2>2. CASE ReleaseToken(t)
    <3>1. firing' \subseteq firing /\ UNCHANGED proc
      BY <2>2 DEF ReleaseToken
    <3> QED BY <2>2, <3>1, ReleaseDrops, DroppedInv, Zenon
  <2> QED BY <1>7, <2>1, <2>2
<1>8. CASE Close
  <2>1. firing' \subseteq firing /\ UNCHANGED proc
    BY <1>8 DEF Close
  <2> QED BY <1>8, <2>1, CloseDrops, DroppedInv
<1>9. CASE UNCHANGED vars
  BY <1>6, <1>9 DEF vars
<1> QED BY <1>1, <1>2, <1>3, <1>4, <1>5, <1>7, <1>8, <1>9 DEF Next

\* In every state a name leads to a reservation of that name, and the session a
\* held name is of still has its reservation in hand, whatever other sessions,
\* timers and operators do (claim, park, rollback and deleteLocked).
THEOREM RegistrySound == Spec => []RegInv
BY RegInitInv, RegStep, PTL DEF Spec

\* A held name leads to the session that holds it.
LEMMA HeldTyped ==
  ASSUME RegInv, NEW n \in DOMAIN names
  PROVE  /\ n \in Names /\ names[n] \in DOMAIN heap /\ ResOf(n) \in Reservation
         /\ ResOf(n).session \in Sessions \cup {NoOne} /\ ResOf(n).token \in Tokens
         /\ \A m \in DOMAIN names : names[m] = names[n] => m = n
<1>1. n \in Names /\ names[n] \in DOMAIN heap /\ ResOf(n) \in Reservation
  BY DEF RegInv, TypeOK, Map, ResOf
<1> QED BY <1>1 DEF Reservation, RegInv

-------------------------------------------------------------------------------
(* What a session that registers has in hand, and how its steps change it.  *)

Registering == Opening \cup {"claim", "unwind"}

\* What a registering session will still write to, or release: the reservation of
\* the tunnel it is opening, and those it made itself for the tunnels it has opened.
InHand(s) ==
  {o \in DOMAIN heap :
     /\ proc[s].pc \in Registering
     /\ \/ o = proc[s].res
        \/ /\ heap[o].session = s
           /\ \E k \in DOMAIN proc[s].opened : proc[s].opened[k].res = o /\ ~proc[s].opened[k].existed}

\* A reservation leaves the registry while a session that registers goes on with it:
\* releaseToken, unreserve or a timer deletes what openTunnel is working on, or
\* another session of the agent took it over and parks it on a node of a cluster.
DeletedUnderfoot ==
  \E s \in Sessions : \E o \in InHand(s) \cap InHand(s)' : InNames(o) /\ ~InNames(o)'

\* Session s goes on to pc with other candidates and the same reservations in hand.
Walked(s, pc, cand) ==
  /\ \A r \in Sessions \ {s} : proc'[r] = proc[r]
  /\ proc'[s].pc = pc /\ proc'[s].cand = cand
  /\ proc'[s].res = proc[s].res /\ proc'[s].opened = proc[s].opened

LEMMA WalkEffect ==
  ASSUME RegInv, NEW s \in Sessions, NEW pc, NEW cand,
         proc' = [proc EXCEPT ![s].pc = pc, ![s].cand = cand]
  PROVE  Walked(s, pc, cand)
<1>1. proc[s] \in Process /\ DOMAIN proc = Sessions
  BY Opens
<1>2. /\ proc'[s] = [[proc[s] EXCEPT !.pc = pc] EXCEPT !.cand = cand]
      /\ \A r \in Sessions \ {s} : proc'[r] = proc[r]
  BY <1>1
<1>3. /\ proc'[s].pc = pc /\ proc'[s].cand = cand
      /\ proc'[s].res = proc[s].res /\ proc'[s].opened = proc[s].opened
  BY <1>1, <1>2, Zenon DEF Process
<1> QED BY <1>2, <1>3, Zenon DEF Walked

LEMMA GotoEffect ==
  ASSUME RegInv, NEW s \in Sessions, NEW pc, Goto(s, pc)
  PROVE  Walked(s, pc, proc[s].cand)
<1>1. proc[s] \in Process /\ DOMAIN proc = Sessions
  BY Opens, Zenon
<1>2. proc'[s] = [proc[s] EXCEPT !.pc = pc] /\ \A r \in Sessions \ {s} : proc'[r] = proc[r]
  BY <1>1 DEF Goto
<1>3. /\ proc'[s].pc = pc /\ proc'[s].cand = proc[s].cand
      /\ proc'[s].res = proc[s].res /\ proc'[s].opened = proc[s].opened
  BY <1>1, <1>2, Zenon DEF Process
<1> QED BY <1>2, <1>3 DEF Walked

\* What activate, a failed tunnel and the rollback of an opened one make of the session.
LEMMA ActivateEffect ==
  ASSUME RegInv, NEW s \in Sessions, Activate(s)
  PROVE  /\ \A r \in Sessions \ {s} : proc'[r] = proc[r]
         /\ proc'[s].pc \in {"claim", "served"} /\ proc'[s].res = 0
         /\ proc[s].pc = "activate" /\ proc[s].res \in DOMAIN heap
         /\ DOMAIN proc'[s].opened = DOMAIN proc[s].opened \cup {Len(proc[s].opened) + 1}
         /\ \A k \in DOMAIN proc[s].opened : proc'[s].opened[k] = proc[s].opened[k]
         /\ proc'[s].opened[Len(proc[s].opened) + 1].res = proc[s].res
         /\ Len(proc[s].opened) + 1 \notin DOMAIN proc[s].opened
<1> DEFINE me == proc[s]
           e == [res |-> me.res, existed |-> me.existed]
           next == IF me.i < Len(me.specs) THEN [me EXCEPT !.pc = "claim", !.i = @ + 1]
                                           ELSE [me EXCEPT !.pc = "served"]
           q == [next EXCEPT !.res = 0, !.existed = FALSE, !.opened = Append(@, e)]
<1>1. /\ me \in Process /\ DOMAIN proc = Sessions /\ me.opened \in Seq(Opened)
      /\ me.pc = "activate" /\ me.res \in DOMAIN heap /\ me.res \in Objects
  BY Opens DEF Activate, Opening, RegInv, TypeOK, Map, Process
<1>2. proc' = [proc EXCEPT ![s] = q]
  BY DEF Activate
<1>3. /\ next.pc \in {"claim", "served"} /\ next.opened = me.opened
      /\ DOMAIN next = DOMAIN me
  <2>1. CASE me.i < Len(me.specs)
    <3>1. next = [[me EXCEPT !.pc = "claim"] EXCEPT !.i = me.i + 1]
      BY <1>1, <2>1 DEF Process
    <3> HIDE DEF next
    <3> QED BY <1>1, <3>1, Zenon DEF Process
  <2>2. CASE ~(me.i < Len(me.specs))
    BY <1>1, <2>2, Zenon DEF Process
  <2> QED BY <2>1, <2>2
<1> HIDE DEF next
<1>4. q.res = 0 /\ q.opened = Append(me.opened, e) /\ q.pc \in {"claim", "served"}
  <2>1. "res" \in DOMAIN me /\ "opened" \in DOMAIN me /\ "existed" \in DOMAIN me /\ "pc" \in DOMAIN me
    BY <1>1 DEF Process
  <2> QED BY <1>3, <2>1, Zenon
<1> HIDE DEF q
<1>5. e \in Opened /\ e.res = me.res
  BY <1>1, Zenon DEF Opened, Process
<1> HIDE DEF e
<1>6. /\ DOMAIN q.opened = DOMAIN me.opened \cup {Len(me.opened) + 1}
      /\ \A k \in DOMAIN me.opened : q.opened[k] = me.opened[k]
      /\ q.opened[Len(me.opened) + 1] = e /\ Len(me.opened) + 1 \notin DOMAIN me.opened
  BY <1>1, <1>4, <1>5
<1>7. proc'[s] = q /\ \A r \in Sessions \ {s} : proc'[r] = proc[r]
  BY <1>1, <1>2
<1> QED BY <1>1, <1>4, <1>5, <1>6, <1>7, Zenon

LEMMA UndoEffect ==
  ASSUME RegInv, NEW s \in Sessions,
         proc' = [proc EXCEPT ![s].pc = "unwind", ![s].res = 0, ![s].existed = FALSE]
  PROVE  /\ \A r \in Sessions \ {s} : proc'[r] = proc[r]
         /\ proc'[s].pc = "unwind" /\ proc'[s].res = 0 /\ proc'[s].opened = proc[s].opened
<1>1. proc[s] \in Process /\ DOMAIN proc = Sessions
  BY Opens
<1>2. /\ proc'[s] = [[[proc[s] EXCEPT !.pc = "unwind"] EXCEPT !.res = 0] EXCEPT !.existed = FALSE]
      /\ \A r \in Sessions \ {s} : proc'[r] = proc[r]
  BY <1>1
<1>3. proc'[s].pc = "unwind" /\ proc'[s].res = 0 /\ proc'[s].opened = proc[s].opened
  BY <1>1, <1>2, Zenon DEF Process
<1> QED BY <1>2, <1>3, Zenon

LEMMA FirstEffect ==
  ASSUME RegInv, NEW s \in Sessions, proc[s].opened # << >>, proc' = [proc EXCEPT ![s].opened = Tail(@)]
  PROVE  /\ \A r \in Sessions \ {s} : proc'[r] = proc[r]
         /\ proc'[s].pc = proc[s].pc /\ proc'[s].res = proc[s].res
         /\ 1 \in DOMAIN proc[s].opened /\ Head(proc[s].opened) = proc[s].opened[1]
         /\ \A k \in DOMAIN proc'[s].opened :
              /\ k \in Nat \ {0} /\ k + 1 \in DOMAIN proc[s].opened
              /\ proc'[s].opened[k] = proc[s].opened[k + 1]
<1> DEFINE me == proc[s]
<1>1. me \in Process /\ DOMAIN proc = Sessions /\ me.opened \in Seq(Opened)
  BY Opens DEF Process
<1>2. proc'[s] = [me EXCEPT !.opened = Tail(me.opened)] /\ \A r \in Sessions \ {s} : proc'[r] = proc[r]
  BY <1>1
<1>3. proc'[s].pc = me.pc /\ proc'[s].res = me.res /\ proc'[s].opened = Tail(me.opened)
  BY <1>1, <1>2, Zenon DEF Process
<1>4. /\ \A k \in DOMAIN Tail(me.opened) :
           k \in Nat \ {0} /\ k + 1 \in DOMAIN me.opened /\ Tail(me.opened)[k] = me.opened[k + 1]
      /\ 1 \in DOMAIN me.opened /\ Head(me.opened) = me.opened[1]
  BY <1>1
<1> QED BY <1>2, <1>3, <1>4, Zenon

\* A claim: session s has reservation o, which the registry has under its name.
LEMMA ClaimEffect ==
  ASSUME RegInv, NEW s \in Sessions, NEW o, NEW existed,
         proc' = [proc EXCEPT ![s].pc = "domains", ![s].res = o, ![s].existed = existed]
  PROVE  /\ \A r \in Sessions \ {s} : proc'[r] = proc[r]
         /\ proc'[s].pc = "domains" /\ proc'[s].res = o /\ proc'[s].opened = proc[s].opened
<1>0. proc[s] \in Process /\ DOMAIN proc = Sessions
  BY Opens
<1>1. /\ proc'[s] = [[[proc[s] EXCEPT !.pc = "domains"] EXCEPT !.res = o] EXCEPT !.existed = existed]
      /\ \A r \in Sessions \ {s} : proc'[r] = proc[r]
  BY <1>0
<1>2. proc'[s].pc = "domains" /\ proc'[s].res = o /\ proc'[s].opened = proc[s].opened
  BY <1>0, <1>1, Zenon DEF Process
<1> QED BY <1>1, <1>2, Zenon

===============================================================================
