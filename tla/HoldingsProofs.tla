---------------------------- MODULE HoldingsProofs ----------------------------
(***************************************************************************)
(* Proofs about what the names of NameRegistry hold, for every set of      *)
(* sessions, tokens, names, domains and ports and for every request: the   *)
(* ports and domains marked taken are exactly those a name has, or a       *)
(* session tries, and each has one owner.                                  *)
(***************************************************************************)
EXTENDS NameRegistryInvariant

(* Ports and domains: what names hold is what is marked taken.             *)

\* The ports marked taken are those held, each by one name, and those being tried,
\* each by one session.  held: name -> port or 0; tried: session -> its port, if any.
PortBooks(held, tried, taken) ==
  /\ taken = ({held[n] : n \in DOMAIN held} \ {0}) \cup UNION {tried[s] : s \in DOMAIN tried}
  /\ \A m, n \in DOMAIN held : held[m] # 0 /\ held[m] = held[n] => m = n
  /\ \A s \in DOMAIN tried : \A p \in tried[s] :
       /\ p # 0 /\ \A n \in DOMAIN held : held[n] # p
       /\ \A t \in DOMAIN tried \ {s} : p \notin tried[t]

\* A domain is taken for the reservation whose name holds it.  has: name -> domains.
DomainBooks(has, of, taken) ==
  /\ \A n \in DOMAIN of : \A d \in has[n] : d \in DOMAIN taken /\ taken[d] = of[n]
  /\ \A d \in DOMAIN taken : \E n \in DOMAIN of : of[n] = taken[d] /\ d \in has[n]

LEMMA HeadIsFirst ==
  ASSUME NEW T, NEW q \in Seq(T), q # << >>
  PROVE  1 \in DOMAIN q /\ Head(q) = q[1]
  OBVIOUS

\* Names dropped with their ports.
LEMMA PortsDropped ==
  ASSUME NEW held, NEW tried, NEW taken, PortBooks(held, tried, taken), NEW S,
         NEW held2, DOMAIN held2 = DOMAIN held \ S, \A n \in DOMAIN held2 : held2[n] = held[n]
  PROVE  PortBooks(held2, tried, taken \ {held[n] : n \in DOMAIN held \cap S})
<1>1. ASSUME NEW p
      PROVE  p \in taken \ {held[n] : n \in DOMAIN held \cap S}
               <=> p \in ({held2[n] : n \in DOMAIN held2} \ {0}) \cup UNION {tried[s] : s \in DOMAIN tried}
  BY DEF PortBooks
<1>2. taken \ {held[n] : n \in DOMAIN held \cap S}
        = ({held2[n] : n \in DOMAIN held2} \ {0}) \cup UNION {tried[s] : s \in DOMAIN tried}
  BY <1>1
<1> QED BY <1>2 DEF PortBooks

\* A name's port becomes q: its own, one nobody has taken, or none at all.
LEMMA PortsSet ==
  ASSUME NEW held, NEW tried, NEW taken, PortBooks(held, tried, taken), NEW n, NEW q, NEW old,
         old = IF n \in DOMAIN held THEN held[n] ELSE 0,
         q = old \/ q \notin taken,
         NEW held2, DOMAIN held2 = DOMAIN held \cup {n}, held2[n] = q,
         \A m \in DOMAIN held \ {n} : held2[m] = held[m]
  PROVE  PortBooks(held2, tried, (taken \ ({old} \ {q})) \cup ({q} \ {0}))
<1>1. ASSUME NEW p
      PROVE  p \in (taken \ ({old} \ {q})) \cup ({q} \ {0})
               <=> p \in ({held2[m] : m \in DOMAIN held2} \ {0}) \cup UNION {tried[s] : s \in DOMAIN tried}
  <2>1. CASE p = q
    BY <2>1 DEF PortBooks
  <2>2. CASE p # q
    BY <2>2 DEF PortBooks
  <2> QED BY <2>1, <2>2
<1>2. (taken \ ({old} \ {q})) \cup ({q} \ {0})
        = ({held2[m] : m \in DOMAIN held2} \ {0}) \cup UNION {tried[s] : s \in DOMAIN tried}
  BY <1>1
<1>3. \A k, m \in DOMAIN held2 : held2[k] # 0 /\ held2[k] = held2[m] => k = m
  BY DEF PortBooks
<1>4. \A s \in DOMAIN tried : \A p \in tried[s] : \A m \in DOMAIN held2 : held2[m] # p
  BY DEF PortBooks
<1> QED BY <1>2, <1>3, <1>4 DEF PortBooks

\* A session starts to try a port nobody has taken, or stops to try its port.
LEMMA PortsTried ==
  ASSUME NEW held, NEW tried, NEW taken, PortBooks(held, tried, taken), NEW s \in DOMAIN tried, NEW p,
         NEW tried2, DOMAIN tried2 = DOMAIN tried, \A t \in DOMAIN tried \ {s} : tried2[t] = tried[t]
  PROVE  /\ p \notin taken /\ p # 0 /\ tried[s] = {} /\ tried2[s] = {p}
              => PortBooks(held, tried2, taken \cup {p})
         /\ tried[s] = {p} /\ tried2[s] = {} => p \in taken /\ PortBooks(held, tried2, taken \ {p})
<1> DEFINE all == UNION {tried[t] : t \in DOMAIN tried}
           all2 == UNION {tried2[t] : t \in DOMAIN tried2}
<1>0. /\ \A x : x \in all <=> \E t \in DOMAIN tried : x \in tried[t]
      /\ \A x : x \in all2 <=> \E t \in DOMAIN tried2 : x \in tried2[t]
  BY Zenon
<1>1. ASSUME p \notin taken, p # 0, tried[s] = {}, tried2[s] = {p}
      PROVE  PortBooks(held, tried2, taken \cup {p})
  <2>1. all2 = all \cup {p}
    <3> HIDE DEF all, all2
    <3>1. \A x : x \in all2 <=> x \in all \/ x = p
      BY <1>0, <1>1
    <3> QED BY <3>1
  <2> QED BY <1>1, <2>1 DEF PortBooks
<1>2. ASSUME tried[s] = {p}, tried2[s] = {}
      PROVE  p \in taken /\ PortBooks(held, tried2, taken \ {p})
  <2>1. all2 = all \ {p}
    <3>1. \A t \in DOMAIN tried \ {s} : p \notin tried[t]
      BY <1>2 DEF PortBooks
    <3> HIDE DEF all, all2
    <3>2. \A x : x \in all2 <=> x \in all /\ x # p
      BY <1>0, <1>2, <3>1
    <3> QED BY <3>2
  <2> QED BY <1>2, <2>1 DEF PortBooks
<1> QED BY <1>1, <1>2

PortsHeld == [n \in DOMAIN names |-> ResOf(n).port]
DomainsHeld == [n \in DOMAIN names |-> ResOf(n).domains]
Tries == [s \in Sessions |->
            IF proc[s].pc \in {"bind", "setPort"} THEN {Head(proc[s].cand)} ELSE {}]

Books == PortBooks(PortsHeld, Tries, ports) /\ DomainBooks(DomainsHeld, names, domains)

HandsInNames == \A s \in Sessions : \A o \in InHand(s) : InNames(o)

CandidatesOK ==
  \A s \in Sessions : proc[s].pc \in {"reserve", "bind", "setPort"} =>
    \A k \in DOMAIN proc[s].cand : proc[s].cand[k] # 0

\* The inductive invariant: the books are right, what sessions go on with is in the
\* registry, and no session tries port 0.
HoldInv == RegInv /\ Books /\ HandsInNames /\ CandidatesOK

LEMMA HoldInitInv == Init => HoldInv
<1> SUFFICES ASSUME Init PROVE HoldInv
  OBVIOUS
<1>1. /\ DOMAIN heap = {} /\ DOMAIN names = {} /\ DOMAIN domains = {} /\ ports = {}
      /\ \A s \in Sessions : proc[s].pc = "new"
  BY DEF Init, NewProcess
<1>2. \A s \in Sessions : Tries[s] = {}
  BY <1>1 DEF Tries
<1>3. Books
  BY <1>1, <1>2 DEF Books, PortBooks, DomainBooks, PortsHeld, Tries
<1> QED BY <1>1, <1>3, RegInitInv DEF HoldInv, HandsInNames, InHand, CandidatesOK

\* The books say what HoldingsOwned says.
LEMMA BooksOwned == RegInv /\ Books => HoldingsOwned
<1> SUFFICES ASSUME RegInv, Books PROVE HoldingsOwned
  OBVIOUS
<1>1. \A n \in DOMAIN names : heap[names[n]].name = n /\ PortsHeld[n] = ResOf(n).port
                              /\ DomainsHeld[n] = ResOf(n).domains
  BY DEF RegInv, PortsHeld, DomainsHeld
<1>2. \A n \in DOMAIN names : \A d \in ResOf(n).domains : d \in DOMAIN domains /\ domains[d] = names[n]
  BY <1>1 DEF Books, DomainBooks
<1>3. \A d \in DOMAIN domains : InNames(domains[d]) /\ d \in heap[domains[d]].domains
  BY <1>1 DEF Books, DomainBooks, InNames, ResOf
<1>4. {PortsHeld[n] : n \in DOMAIN PortsHeld} = {ResOf(n).port : n \in DOMAIN names}
  BY <1>1 DEF PortsHeld
<1>5. UNION {Tries[s] : s \in DOMAIN Tries} = Trying
  <2>1. \A p : p \in Trying <=> \E s \in DOMAIN Tries : p \in Tries[s]
    BY DEF Tries, Trying
  <2> QED BY <2>1
<1>6. \A m, n \in DOMAIN names : ResOf(m).port # 0 /\ ResOf(m).port = ResOf(n).port => m = n
  BY <1>1, Zenon DEF Books, PortBooks, PortsHeld
<1> QED BY <1>2, <1>3, <1>4, <1>5, <1>6 DEF HoldingsOwned, Books, PortBooks

\* What a session has in hand after a step: what it had, and what it was given.
LEMMA HandsPass ==
  ASSUME RegInv, RegInv', NEW r \in Sessions, NEW N,
         \A o \in DOMAIN heap' : heap'[o].session = r => o \in N \/ (o \in DOMAIN heap /\ heap[o].session = r),
         proc'[r].pc \in Registering => proc[r].pc \in Registering,
         proc'[r].res \in {proc[r].res, 0} \cup N,
         \A k \in DOMAIN proc'[r].opened :
           \/ proc'[r].opened[k].res = proc[r].res /\ proc[r].pc \in Opening
           \/ \E j \in DOMAIN proc[r].opened : proc[r].opened[j] = proc'[r].opened[k]
  PROVE  InHand(r)' \subseteq InHand(r) \cup N
<1>1. /\ ProcessOK(proc[r], DOMAIN heap) /\ 0 \notin DOMAIN heap'
      /\ \A o \in DOMAIN heap' : o = proc[r].res => o \in DOMAIN heap
  <2>1. 0 \notin Objects
    BY RegistryConstants
  <2>2. ProcessOK(proc[r], DOMAIN heap) /\ DOMAIN heap' \subseteq Objects
    BY DEF RegInv, TypeOK, Map
  <2> QED BY <2>1, <2>2, Zenon DEF ProcessOK
<1> SUFFICES ASSUME NEW o \in InHand(r)', o \notin N PROVE o \in InHand(r)
  OBVIOUS
<1>2. o \in DOMAIN heap' /\ proc'[r].pc \in Registering
  BY DEF InHand
<1>3. CASE o = proc'[r].res
  BY <1>1, <1>2, <1>3, Zenon DEF InHand
<1>4. CASE /\ heap'[o].session = r
           /\ \E k \in DOMAIN proc'[r].opened : proc'[r].opened[k].res = o /\ ~proc'[r].opened[k].existed
  BY <1>1, <1>2, <1>4 DEF InHand
<1> QED BY <1>3, <1>4 DEF InHand

LEMMA HandsKept ==
  ASSUME HandsInNames, ~DeletedUnderfoot,
         \A s \in Sessions : \A o \in InHand(s)' : o \in InHand(s) \/ InNames(o)'
  PROVE  HandsInNames'
  BY DEF HandsInNames, DeletedUnderfoot

\* The reservations of h have the ports and domains they have in the heap.
SameHoldings(h) ==
  /\ Map(h, Objects, Reservation) /\ DOMAIN h = DOMAIN heap
  /\ \A o \in DOMAIN heap : h[o].port = heap[o].port /\ h[o].domains = heap[o].domains

\* And nobody is given one.
LetGo(h) ==
  DOMAIN h = DOMAIN heap /\ \A o \in DOMAIN heap : h[o].session \in {heap[o].session, NoOne}

LEMMA BooksKept ==
  ASSUME RegInv, Books, SameHoldings(heap'), UNCHANGED <<names, domains, ports, Tries>>
  PROVE  Books'
<1>1. \A n \in DOMAIN names : names[n] \in DOMAIN heap
  BY DEF RegInv, TypeOK, Map
<1>2. PortsHeld' = PortsHeld /\ DomainsHeld' = DomainsHeld
  BY <1>1 DEF PortsHeld, DomainsHeld, SameHoldings, ResOf
<1> QED BY <1>2 DEF Books

LEMMA DeletesBooks ==
  ASSUME RegInv, Books, NEW h, SameHoldings(h), LetGo(h), NEW O, \A o \in O : \E n \in DOMAIN names : names[n] = o,
         Deletes(h, O), UNCHANGED Tries
  PROVE  Books' /\ LetGo(heap')
<1> DEFINE S == {n \in DOMAIN names : names[n] \in O}
<1>1. /\ \A n \in DOMAIN names : names[n] \in DOMAIN heap
      /\ \A m, n \in DOMAIN names : names[m] = names[n] => m = n
  BY DEF RegInv, TypeOK, Map
<1>2. ASSUME NEW o \in DOMAIN heap
      PROVE  /\ heap'[o].port = heap[o].port /\ heap'[o].domains = heap[o].domains
             /\ heap'[o].session \in {heap[o].session, NoOne}
  <2>1. heap'[o] = [h[o] EXCEPT !.armed = h[o].armed /\ o \notin O] /\ h[o] \in Reservation
    BY DEF Deletes, SameHoldings, Map
  <2>2. heap'[o].port = h[o].port /\ heap'[o].domains = h[o].domains /\ heap'[o].session = h[o].session
    BY <2>1, Zenon DEF Reservation
  <2> QED BY <2>2 DEF SameHoldings, LetGo
<1>3. DOMAIN names' = DOMAIN names \ S /\ \A n \in DOMAIN names' : names'[n] = names[n]
  BY DEF Deletes, Without
<1>4. \A n \in DOMAIN names' : /\ PortsHeld'[n] = PortsHeld[n] /\ DomainsHeld'[n] = DomainsHeld[n]
  BY <1>1, <1>2, <1>3 DEF PortsHeld, DomainsHeld, ResOf
<1>5. ports' = ports \ {PortsHeld[n] : n \in DOMAIN PortsHeld \cap S}
  <2>1. \A o \in O : \E n \in S : names[n] = o /\ PortsHeld[n] = h[o].port
    BY <1>1 DEF PortsHeld, ResOf, SameHoldings
  <2>2. \A n \in S : names[n] \in O /\ PortsHeld[n] = h[names[n]].port
    BY <1>1 DEF PortsHeld, ResOf, SameHoldings
  <2>3. {h[o].port : o \in O} = {PortsHeld[n] : n \in DOMAIN PortsHeld \cap S}
    BY <2>1, <2>2 DEF PortsHeld
  <2> QED BY <2>3, Zenon DEF Deletes
<1>6. PortBooks(PortsHeld', Tries', ports')
  <2>1. DOMAIN PortsHeld' = DOMAIN PortsHeld \ S /\ DOMAIN PortsHeld' = DOMAIN names'
    BY <1>3 DEF PortsHeld
  <2> HIDE DEF S
  <2> QED BY <1>4, <1>5, <2>1, PortsDropped DEF Books
<1>7. /\ DOMAIN domains' = {d \in DOMAIN domains : domains[d] \notin O}
      /\ \A d \in DOMAIN domains' : domains'[d] = domains[d]
  <2>1. \A d \in DOMAIN domains : d \in h[domains[d]].domains
    BY <1>1 DEF Books, DomainBooks, DomainsHeld, ResOf, SameHoldings
  <2> QED BY <2>1 DEF Deletes, Without
<1>8. DomainBooks(DomainsHeld', names', domains')
  BY <1>3, <1>4, <1>7 DEF Books, DomainBooks
<1>9. LetGo(heap')
  BY <1>2 DEF LetGo, Deletes
<1> QED BY <1>6, <1>8, <1>9 DEF Books

LEMMA SameHeap == RegInv => SameHoldings(heap) /\ LetGo(heap)
  BY DEF RegInv, TypeOK, SameHoldings, LetGo

\* A change to one reservation that leaves its port and domains alone.
LEMMA EditSame ==
  ASSUME RegInv, NEW o \in DOMAIN heap, NEW x \in Reservation, NEW h, h = [heap EXCEPT ![o] = x],
         x.port = heap[o].port, x.domains = heap[o].domains
  PROVE  SameHoldings(h) /\ (x.session \in {heap[o].session, NoOne} => LetGo(h))
<1>1. heap \in [DOMAIN heap -> Reservation] /\ DOMAIN heap \subseteq Objects
  BY DEF RegInv, TypeOK, Map
<1> QED BY <1>1 DEF SameHoldings, Map, LetGo

\* park and rollback delete what is in the registry, or change no holding.
LEMMA ParksBooks ==
  ASSUME RegInv, Books, NEW o \in DOMAIN heap, NEW s, s \in Sessions, Parks(o, s), UNCHANGED Tries
  PROVE  Books' /\ LetGo(heap')
<1> DEFINE x == [heap[o] EXCEPT !.session = NoOne, !.tunnel = NoOne]
           y == [heap[o] EXCEPT !.session = NoOne, !.tunnel = NoOne, !.armed = TRUE]
           h == [heap EXCEPT ![o].session = NoOne, ![o].tunnel = NoOne]
           g == [h EXCEPT ![o].armed = TRUE]
<1>1. heap[o] \in Reservation /\ Map(heap, Objects, Reservation)
  BY DEF RegInv, TypeOK, Map
<1>2. /\ x \in Reservation /\ x.port = heap[o].port /\ x.domains = heap[o].domains
      /\ y \in Reservation /\ y.port = heap[o].port /\ y.domains = heap[o].domains
      /\ x.session = NoOne /\ y.session = NoOne
  BY <1>1, Zenon DEF Reservation
<1>3. h = [heap EXCEPT ![o] = x] /\ g = [heap EXCEPT ![o] = y]
  BY <1>1, Zenon
<1> HIDE DEF x, y
<1>4. SameHoldings(h) /\ SameHoldings(g) /\ LetGo(h) /\ LetGo(g)
  <2>1. x.session \in {heap[o].session, NoOne} /\ y.session \in {heap[o].session, NoOne}
    BY <1>2
  <2> QED BY <1>2, <1>3, <2>1, EditSame, ZenonT(30)
<1>5. \/ Stores(heap) \/ Stores(h) \/ Stores(g)
      \/ Deletes(h, {o}) /\ InNames(o)
  BY DEF Parks
<1> HIDE DEF h, g
<1>6. CASE Stores(heap) \/ Stores(h) \/ Stores(g)
  BY <1>4, <1>6, BooksKept, SameHeap DEF Stores
<1>7. CASE Deletes(h, {o}) /\ InNames(o)
  BY <1>4, <1>7, DeletesBooks DEF InNames
<1> QED BY <1>5, <1>6, <1>7

LEMMA RollsBackBooks ==
  ASSUME RegInv, Books, NEW o \in DOMAIN heap, NEW s \in Sessions, NEW existed,
         RollsBack(o, s, existed), ~existed /\ heap[o].session = s => InNames(o), UNCHANGED Tries
  PROVE  Books' /\ LetGo(heap')
<1>1. CASE Parks(o, s)
  BY <1>1, ParksBooks
<1>2. CASE Deletes(heap, {o}) /\ InNames(o)
  BY <1>2, DeletesBooks, SameHeap DEF InNames
<1>3. CASE Stores(heap)
  BY <1>3, BooksKept, SameHeap DEF Stores
<1> QED BY <1>1, <1>2, <1>3 DEF RollsBack

\* The reservation of one name is written: its port changes in the books.
LEMMA WrittenBooks ==
  ASSUME RegInv, NEW n, NEW o, NEW x, NEW tried, NEW taken, NEW old,
         DOMAIN names' = DOMAIN names \cup {n}, names'[n] = o, heap'[o] = x,
         \A m \in DOMAIN names \ {n} : names'[m] = names[m] /\ heap'[names[m]] = heap[names[m]],
         old = IF n \in DOMAIN names THEN ResOf(n).port ELSE 0,
         PortBooks(PortsHeld, tried, taken), x.port = old \/ x.port \notin taken
  PROVE  PortBooks(PortsHeld', tried, (taken \ ({old} \ {x.port})) \cup ({x.port} \ {0}))
<1>1. /\ DOMAIN PortsHeld = DOMAIN names /\ DOMAIN PortsHeld' = DOMAIN PortsHeld \cup {n}
      /\ PortsHeld'[n] = x.port /\ \A m \in DOMAIN PortsHeld \ {n} : PortsHeld'[m] = PortsHeld[m]
      /\ n \in DOMAIN names => PortsHeld[n] = old
  BY DEF PortsHeld, ResOf
<1>2. old = IF n \in DOMAIN PortsHeld THEN PortsHeld[n] ELSE 0
  BY <1>1
<1> QED BY <1>1, <1>2, PortsSet, Zenon

\* And its domains, where they do not change.
LEMMA WrittenDomains ==
  ASSUME RegInv, NEW n, NEW o, NEW x, DomainBooks(DomainsHeld, names, domains),
         DOMAIN names' = DOMAIN names \cup {n}, names'[n] = o, heap'[o] = x,
         \A m \in DOMAIN names \ {n} : names'[m] = names[m] /\ heap'[names[m]] = heap[names[m]],
         n \in DOMAIN names => names[n] = o /\ x.domains = heap[o].domains,
         n \notin DOMAIN names => x.domains = {}
  PROVE  DomainBooks(DomainsHeld', names', domains)
<1>1. /\ DOMAIN DomainsHeld' = DOMAIN names'
      /\ DomainsHeld'[n] = x.domains /\ \A m \in DOMAIN names \ {n} : DomainsHeld'[m] = DomainsHeld[m]
      /\ n \in DOMAIN names => DomainsHeld[n] = x.domains
  BY DEF DomainsHeld, ResOf
<1> QED BY <1>1 DEF DomainBooks

\* What a walking session has in hand and may try.
LEMMA WalkHands ==
  ASSUME HoldInv, ~DeletedUnderfoot, RegInv', NEW s \in Sessions, NEW pc, NEW cand, Walked(s, pc, cand),
         DOMAIN heap' = DOMAIN heap, SameSessions,
         pc \in Registering => proc[s].pc \in Registering,
         pc \in {"reserve", "bind", "setPort"} => \A k \in DOMAIN cand : cand[k] # 0
  PROVE  HandsInNames' /\ CandidatesOK'
<1>1. ASSUME NEW r \in Sessions
      PROVE  InHand(r)' \subseteq InHand(r) \cup {}
  <2>1. /\ proc'[r].pc \in Registering => proc[r].pc \in Registering
        /\ proc'[r].res = proc[r].res /\ proc'[r].opened = proc[r].opened
    BY DEF Walked
  <2> QED BY <2>1, HandsPass DEF HoldInv, SameSessions
<1>2. HandsInNames'
  BY <1>1, HandsKept DEF HoldInv
<1> QED BY <1>2 DEF HoldInv, CandidatesOK, Walked

\* The ports being tried, as session s moves.
LEMMA WalkTries ==
  ASSUME RegInv, NEW s \in Sessions, NEW pc, NEW cand, Walked(s, pc, cand)
  PROVE  /\ DOMAIN Tries' = Sessions /\ DOMAIN Tries = Sessions
         /\ \A r \in Sessions \ {s} : Tries'[r] = Tries[r]
         /\ Tries'[s] = IF pc \in {"bind", "setPort"} THEN {Head(cand)} ELSE {}
         /\ Tries[s] = IF proc[s].pc \in {"bind", "setPort"} THEN {Head(proc[s].cand)} ELSE {}
         /\ Tries'[s] = Tries[s] => Tries' = Tries
<1>1. /\ DOMAIN Tries' = Sessions /\ DOMAIN Tries = Sessions
      /\ \A r \in Sessions \ {s} : Tries'[r] = Tries[r]
      /\ Tries'[s] = IF pc \in {"bind", "setPort"} THEN {Head(cand)} ELSE {}
      /\ Tries[s] = IF proc[s].pc \in {"bind", "setPort"} THEN {Head(proc[s].cand)} ELSE {}
  BY DEF Tries, Walked
<1>2. Tries'[s] = Tries[s] => \A r \in Sessions : Tries'[r] = Tries[r]
  BY <1>1
<1>3. (\A r \in Sessions : Tries'[r] = Tries[r]) => Tries' = Tries
  BY Zenon DEF Tries
<1> QED BY <1>1, <1>2, <1>3

\* A range a policy narrows to has no port 0.
LEMMA RangePositive ==
  ASSUME NEW t \in Tokens
  PROVE  LET range == PolicyRange(PolicyOf[t][1], PolicyOf[t][2], PortMin, PortMax)
         IN range[1] \in Nat \ {0} /\ range[2] \in Nat
<1>1. PolicyOf[t][1] \in Nat /\ PolicyOf[t][2] \in Nat /\ PortMin \in Nat \ {0} /\ PortMax \in Nat
  BY RegistryConstants, Zenon
<1> QED BY <1>1 DEF PolicyRange

\* The steps of a session that change no reservation and take no port.
LEMMA WalkHolds ==
  ASSUME HoldInv, ~DeletedUnderfoot, RegInv', NEW s \in Sessions, NEW pc, NEW cand, Walked(s, pc, cand),
         UNCHANGED <<heap, names, domains, ports>>,
         pc \in Registering => proc[s].pc \in Registering,
         pc \in {"reserve", "bind", "setPort"} => \A k \in DOMAIN cand : cand[k] # 0,
         \/ pc \notin {"bind", "setPort"} /\ proc[s].pc \notin {"bind", "setPort"}
         \/ pc = "setPort" /\ proc[s].pc = "bind" /\ cand = proc[s].cand
  PROVE  HoldInv'
<1>1. HandsInNames' /\ CandidatesOK'
  BY WalkHands DEF SameSessions
<1>2. Tries' = Tries
  <2>1. RegInv
    BY DEF HoldInv
  <2>2. Tries'[s] = Tries[s]
    <3>1. /\ Tries'[s] = IF pc \in {"bind", "setPort"} THEN {Head(cand)} ELSE {}
          /\ Tries[s] = IF proc[s].pc \in {"bind", "setPort"} THEN {Head(proc[s].cand)} ELSE {}
      BY <2>1, WalkTries, Zenon
    <3> QED BY <3>1
  <2> QED BY <2>1, <2>2, WalkTries, Zenon
<1>3. Books'
  BY <1>2, BooksKept, SameHeap DEF HoldInv
<1> QED BY <1>1, <1>3 DEF HoldInv

LEMMA ChoosePortHolds ==
  ASSUME HoldInv, ~DeletedUnderfoot, RegInv', NEW s \in Sessions, ChoosePort(s)
  PROVE  HoldInv'
<1> DEFINE me == proc[s]
           range == PolicyRange(PolicyOf[TokenOf[s]][1], PolicyOf[TokenOf[s]][2], PortMin, PortMax)
           inRange == [k \in 1..(range[2] - range[1] + 1) |-> range[1] + k - 1]
           prev == IF Spec1(s).prev \in range[1]..range[2] THEN <<Spec1(s).prev>> ELSE << >>
           held == heap[me.res].port
           try(pc, cand) == proc' = [proc EXCEPT ![s].pc = pc, ![s].cand = cand]
<1>0. RegInv /\ TokenOf[s] \in Tokens
  BY RegistryConstants DEF HoldInv
<1>1. me.pc = "ports" /\ UNCHANGED <<heap, names, domains, ports>>
  BY Zenon DEF ChoosePort
<1>2. \/ try("listen", <<held>>) \/ Goto(s, "undo")
      \/ Spec1(s).port # 0 /\ try("reserve", <<Spec1(s).port>>)
      \/ RangeOverlaps(range) /\ try("reserve", prev \o inRange)
  BY Zenon DEF ChoosePort
<1>3. range[1] \in Nat \ {0} /\ range[2] \in Nat
  BY <1>0, RangePositive
<1> HIDE DEF range
<1>4. RangeOverlaps(range) => \A k \in DOMAIN (prev \o inRange) : (prev \o inRange)[k] # 0
  <2> SUFFICES ASSUME RangeOverlaps(range), NEW k \in DOMAIN (prev \o inRange)
               PROVE  (prev \o inRange)[k] # 0
    BY Zenon
  <2>1. inRange \in Seq(Nat \ {0})
    <3>1. range[2] - range[1] + 1 \in Nat
          /\ \A j \in 1..(range[2] - range[1] + 1) : range[1] + j - 1 \in Nat \ {0}
      BY <1>3 DEF RangeOverlaps
    <3> QED BY <3>1
  <2>2. prev \in Seq(Nat \ {0})
    <3>1. Spec1(s).prev \in range[1]..range[2] => Spec1(s).prev \in Nat \ {0}
      BY <1>3
    <3>2. \A x \in Nat \ {0} : <<x>> \in Seq(Nat \ {0})
      OBVIOUS
    <3>3. << >> \in Seq(Nat \ {0})
      OBVIOUS
    <3> QED BY <3>1, <3>2, <3>3, Zenon
  <2> HIDE DEF inRange, prev
  <2>3. prev \o inRange \in Seq(Nat \ {0})
    BY <2>1, <2>2
  <2> DEFINE all == prev \o inRange
  <2> HIDE DEF all
  <2>4. all[k] \in Nat \ {0}
    BY <2>3 DEF all
  <2> QED BY <2>4 DEF all
<1>5. ASSUME NEW pc \in {"listen", "undo", "reserve"}, NEW cand, Walked(s, pc, cand),
             pc = "reserve" => \A k \in DOMAIN cand : cand[k] # 0
      PROVE  HoldInv'
  BY <1>1, <1>5, WalkHolds DEF Registering, Opening
<1> HIDE DEF inRange, prev, held
<1>6. CASE try("listen", <<held>>)
  BY <1>0, <1>5, <1>6, WalkEffect, Zenon
<1>7. CASE Goto(s, "undo")
  BY <1>0, <1>5, <1>7, GotoEffect
<1>8. CASE Spec1(s).port # 0 /\ try("reserve", <<Spec1(s).port>>)
  <2>1. \A k \in DOMAIN <<Spec1(s).port>> : <<Spec1(s).port>>[k] # 0
    BY <1>8
  <2> QED BY <1>0, <1>5, <1>8, <2>1, WalkEffect, Zenon
<1>9. CASE RangeOverlaps(range) /\ try("reserve", prev \o inRange)
  BY <1>0, <1>4, <1>5, <1>9, WalkEffect, Zenon
<1> QED BY <1>2, <1>6, <1>7, <1>8, <1>9, Zenon

LEMMA GoesOnHolds ==
  ASSUME HoldInv, ~DeletedUnderfoot, RegInv', NEW s \in Sessions,
         ClaimRefused(s) \/ ClaimInCluster(s) \/ ListenHeld(s) \/ End(s)
  PROVE  HoldInv'
<1>0. RegInv
  BY DEF HoldInv
<1>1. UNCHANGED <<heap, names, domains, ports>>
  BY DEF ClaimRefused, ClaimInCluster, ListenHeld, End
<1>2. CASE ClaimRefused(s) \/ ClaimInCluster(s) \/ End(s)
  <2>1. PICK pc \in {"unwind", "activate", "undo", "closing"} : Goto(s, pc)
    BY <1>2 DEF ClaimRefused, ClaimInCluster, End
  <2>2. /\ pc \in Registering => proc[s].pc \in Registering
        /\ proc[s].pc \notin {"bind", "setPort"}
    <3>1. CASE ClaimRefused(s) \/ ClaimInCluster(s)
      BY <3>1 DEF ClaimRefused, ClaimInCluster, Registering, Opening
    <3>2. CASE End(s)
      <4>1. Walked(s, pc, proc[s].cand) /\ Walked(s, "closing", proc[s].cand)
        BY <1>0, <2>1, <3>2, GotoEffect, Zenon DEF End
      <4> QED BY <3>2, <4>1, Zenon DEF End, Walked, Registering, Opening
    <3> QED BY <1>2, <3>1, <3>2, Zenon
  <2> QED BY <1>0, <1>1, <2>1, <2>2, GotoEffect, WalkHolds, Zenon
<1>3. CASE ListenHeld(s)
  <2>1. PICK pc \in {"activate", "undo"} : proc' = [proc EXCEPT ![s].pc = pc, ![s].cand = << >>]
    BY <1>3 DEF ListenHeld
  <2>2. Walked(s, pc, << >>) /\ proc[s].pc = "listen"
    BY <1>0, <1>3, <2>1, WalkEffect, Zenon DEF ListenHeld
  <2> QED BY <1>1, <2>2, WalkHolds DEF Registering, Opening
<1> QED BY <1>2, <1>3

LEMMA CandidateTail ==
  ASSUME NEW cand \in Seq(Nat), cand # << >>, \A k \in DOMAIN cand : cand[k] # 0
  PROVE  Head(cand) # 0 /\ \A k \in DOMAIN Tail(cand) : Tail(cand)[k] # 0
<1>1. /\ Head(cand) = cand[1] /\ 1 \in DOMAIN cand
      /\ \A k \in DOMAIN Tail(cand) : k + 1 \in DOMAIN cand /\ Tail(cand)[k] = cand[k + 1]
  OBVIOUS
<1> QED BY <1>1

\* reservePort takes a port nobody has; a failed bind gives it back.
LEMMA TriesBooks ==
  ASSUME HoldInv, NEW s \in Sessions, NEW pc, NEW cand, Walked(s, pc, cand), NEW p,
         UNCHANGED <<heap, names, domains>>,
         \/ /\ proc[s].pc \notin {"bind", "setPort"} /\ pc = "bind" /\ p = Head(cand)
            /\ p \notin ports /\ p # 0 /\ ports' = ports \cup {p}
         \/ /\ proc[s].pc = "bind" /\ p = Head(proc[s].cand) /\ pc \notin {"bind", "setPort"}
            /\ ports' = ports \ {p}
  PROVE  Books'
<1>1. PortBooks(PortsHeld, Tries, ports) /\ DomainBooks(DomainsHeld, names, domains) /\ RegInv
  BY DEF HoldInv, Books
<1>2. /\ s \in DOMAIN Tries /\ DOMAIN Tries' = DOMAIN Tries
      /\ \A r \in DOMAIN Tries \ {s} : Tries'[r] = Tries[r]
      /\ Tries'[s] = IF pc \in {"bind", "setPort"} THEN {Head(cand)} ELSE {}
      /\ Tries[s] = IF proc[s].pc \in {"bind", "setPort"} THEN {Head(proc[s].cand)} ELSE {}
  BY <1>1, WalkTries, Zenon
<1>3. PortBooks(PortsHeld, Tries', ports')
  <2>1. /\ p \notin ports /\ p # 0 /\ Tries[s] = {} /\ Tries'[s] = {p}
             => PortBooks(PortsHeld, Tries', ports \cup {p})
        /\ Tries[s] = {p} /\ Tries'[s] = {} => PortBooks(PortsHeld, Tries', ports \ {p})
    BY <1>1, <1>2, PortsTried, Zenon
  <2> QED BY <1>2, <2>1
<1>4. PortsHeld' = PortsHeld /\ DomainsHeld' = DomainsHeld
  BY DEF PortsHeld, DomainsHeld, ResOf
<1> QED BY <1>1, <1>3, <1>4, Zenon DEF Books

LEMMA PortHolds ==
  ASSUME HoldInv, ~DeletedUnderfoot, RegInv', NEW s \in Sessions, ReservePort(s) \/ Bind(s)
  PROVE  HoldInv'
<1> DEFINE cand == proc[s].cand
<1>0. /\ RegInv /\ UNCHANGED <<heap, names, domains>> /\ cand \in Seq(Nat)
      /\ proc[s].pc \in {"reserve", "bind"} /\ \A k \in DOMAIN cand : cand[k] # 0
      /\ proc[s].pc = "bind" => cand # << >>
      /\ proc[s].pc \in Registering
  <2>1. RegInv /\ UNCHANGED <<heap, names, domains>> /\ proc[s].pc \in {"reserve", "bind"}
    BY DEF HoldInv, ReservePort, Bind
  <2>2. proc[s] \in Process /\ ProcessOK(proc[s], DOMAIN heap)
    BY <2>1, Opens
  <2> QED BY <2>1, <2>2, Zenon DEF HoldInv, CandidatesOK, Process, ProcessOK, Registering, Opening
<1>1. ASSUME cand # << >>, proc[s].pc = "reserve", Head(cand) \notin ports, Goto(s, "bind"),
             ports' = ports \cup {Head(cand)}
      PROVE  HoldInv'
  <2>1. Walked(s, "bind", cand) /\ Head(cand) # 0
    BY <1>0, <1>1, GotoEffect, CandidateTail, Zenon
  <2>2. Books'
    BY <1>0, <1>1, <2>1, TriesBooks, Zenon
  <2>3. HandsInNames' /\ CandidatesOK'
    BY <1>0, <2>1, WalkHands DEF SameSessions
  <2> QED BY <2>2, <2>3, Zenon DEF HoldInv
<1>2. ASSUME cand # << >>, proc[s].pc = "bind", ports' = ports \ {Head(cand)},
             proc' = [proc EXCEPT ![s].pc = "reserve", ![s].cand = Tail(cand)]
      PROVE  HoldInv'
  <2>1. Walked(s, "reserve", Tail(cand)) /\ \A k \in DOMAIN Tail(cand) : Tail(cand)[k] # 0
    BY <1>0, <1>2, WalkEffect, CandidateTail, Zenon
  <2>2. Books'
    <3> DEFINE rest == Tail(cand)
               p == Head(cand)
    <3>1. Walked(s, "reserve", rest) /\ p = Head(proc[s].cand) /\ ports' = ports \ {p}
      BY <1>2, <2>1
    <3> HIDE DEF rest, p
    <3>2. /\ proc[s].pc = "bind" /\ p = Head(proc[s].cand) /\ "reserve" \notin {"bind", "setPort"}
          /\ ports' = ports \ {p}
      BY <1>2, <3>1
    <3> QED BY <1>0, <3>1, <3>2, TriesBooks, Zenon
  <2>3. HandsInNames' /\ CandidatesOK'
    BY <1>0, <2>1, WalkHands, Zenon DEF SameSessions
  <2> QED BY <2>2, <2>3 DEF HoldInv
<1>3. CASE ReservePort(s)
  <2>0. proc[s].pc = "reserve"
    BY <1>3, Zenon DEF ReservePort
  <2>1. CASE Goto(s, "undo") /\ UNCHANGED ports
    BY <1>0, <2>0, <2>1, GotoEffect, WalkHolds, Zenon
  <2>2. CASE cand # << >> /\ proc' = [proc EXCEPT ![s].cand = Tail(cand)] /\ UNCHANGED ports
    <3>1. proc[s] \in Process /\ DOMAIN proc = Sessions
      BY <1>0, Opens
    <3>2. [proc EXCEPT ![s].cand = Tail(cand)] = [proc EXCEPT ![s].pc = "reserve", ![s].cand = Tail(cand)]
      BY <2>0, <3>1, Zenon DEF Process
    <3>3. Walked(s, "reserve", Tail(cand)) /\ \A k \in DOMAIN Tail(cand) : Tail(cand)[k] # 0
      BY <1>0, <2>2, <3>2, WalkEffect, CandidateTail, Zenon
    <3> QED BY <1>0, <2>0, <2>2, <3>3, WalkHolds, Zenon
  <2>3. CASE cand # << >> /\ Head(cand) \notin ports /\ ports' = ports \cup {Head(cand)} /\ Goto(s, "bind")
    BY <1>1, <2>0, <2>3, Zenon
  <2> QED BY <1>3, <2>1, <2>2, <2>3 DEF ReservePort
<1>4. CASE Bind(s)
  <2>0. proc[s].pc = "bind" /\ cand # << >>
    BY <1>0, <1>4, Zenon DEF Bind
  <2>1. CASE Goto(s, "setPort") /\ UNCHANGED ports
    BY <1>0, <2>0, <2>1, GotoEffect, WalkHolds, Zenon
  <2>2. CASE ports' = ports \ {Head(cand)} /\ proc' = [proc EXCEPT ![s].pc = "reserve", ![s].cand = Tail(@)]
    BY <1>2, <2>0, <2>2, Zenon
  <2> QED BY <1>4, <2>1, <2>2, Zenon DEF Bind
<1> QED BY <1>3, <1>4, Zenon

\* The reservation of the tunnel being opened is in the registry.
LEMMA OpeningInNames ==
  ASSUME HoldInv, NEW s \in Sessions, proc[s].pc \in Opening
  PROVE  /\ proc[s].res \in DOMAIN heap /\ heap[proc[s].res] \in Reservation
         /\ heap[proc[s].res].name \in DOMAIN names
         /\ names[heap[proc[s].res].name] = proc[s].res
<1>1. proc[s].res \in DOMAIN heap /\ heap[proc[s].res] \in Reservation
  BY Opens DEF HoldInv
<1>2. proc[s].res \in InHand(s)
  BY <1>1 DEF InHand, Registering
<1> QED BY <1>1, <1>2, Zenon DEF HoldInv, HandsInNames, InNames

LEMMA SetPortHolds ==
  ASSUME HoldInv, ~DeletedUnderfoot, RegInv', NEW s \in Sessions, SetPort(s)
  PROVE  HoldInv'
<1> DEFINE o == proc[s].res
           p == Head(proc[s].cand)
           n == heap[o].name
           x == [heap[o] EXCEPT !.port = p]
           old == heap[o].port
<1>0. /\ RegInv /\ proc[s].pc = "setPort" /\ UNCHANGED <<names, domains>>
      /\ ports' = ports \ ({old} \ {0, p}) /\ heap' = [heap EXCEPT ![o].port = p]
      /\ PortBooks(PortsHeld, Tries, ports) /\ DomainBooks(DomainsHeld, names, domains)
      /\ proc' = [proc EXCEPT ![s].pc = "activate", ![s].cand = << >>]
  BY DEF HoldInv, SetPort, Books
<1>1. /\ o \in DOMAIN heap /\ heap[o] \in Reservation /\ n \in DOMAIN names /\ names[n] = o
      /\ \A m \in DOMAIN names : names[m] \in DOMAIN heap /\ (names[m] = o => m = n)
  BY <1>0, OpeningInNames, HeldTyped, Zenon DEF Opening
<1>2. /\ heap'[o] = x /\ \A m \in DOMAIN names \ {n} : heap'[names[m]] = heap[names[m]]
  BY <1>0, <1>1
<1>3. x.port = p /\ x.domains = heap[o].domains
  BY <1>1, Zenon DEF Reservation
<1>4. Walked(s, "activate", << >>)
  BY <1>0, WalkEffect, Zenon
<1>5. /\ s \in DOMAIN Tries /\ DOMAIN Tries' = DOMAIN Tries
      /\ \A r \in DOMAIN Tries \ {s} : Tries'[r] = Tries[r]
      /\ Tries'[s] = {} /\ Tries[s] = {p}
  <2>1. /\ DOMAIN Tries' = Sessions /\ DOMAIN Tries = Sessions
        /\ \A r \in Sessions \ {s} : Tries'[r] = Tries[r]
        /\ Tries'[s] = IF "activate" \in {"bind", "setPort"} THEN {Head(<< >>)} ELSE {}
        /\ Tries[s] = IF proc[s].pc \in {"bind", "setPort"} THEN {p} ELSE {}
    BY <1>0, <1>4, WalkTries, Zenon
  <2> HIDE DEF p
  <2> QED BY <1>0, <2>1
<1> HIDE DEF x, p
<1>6. p \in ports /\ PortBooks(PortsHeld, Tries', ports \ {p})
  BY <1>0, <1>5, PortsTried, Zenon
<1>7. p # 0 /\ 0 \notin ports /\ old # p
  <2>1. old = PortsHeld[n] /\ n \in DOMAIN PortsHeld
    BY <1>1, Zenon DEF PortsHeld, ResOf
  <2> HIDE DEF old, n
  <2> QED BY <1>0, <1>5, <2>1 DEF PortBooks
<1>8. PortBooks(PortsHeld', Tries', ((ports \ {p}) \ ({old} \ {p})) \cup ({p} \ {0}))
  <2>1. /\ DOMAIN names' = DOMAIN names \cup {n} /\ names'[n] = o
        /\ \A m \in DOMAIN names \ {n} : names'[m] = names[m]
        /\ old = IF n \in DOMAIN names THEN ResOf(n).port ELSE 0
    BY <1>0, <1>1, Zenon DEF ResOf
  <2>2. x.port = old \/ x.port \notin ports \ {p}
    BY <1>3
  <2> HIDE DEF old, n, o
  <2>3. PortBooks(PortsHeld', Tries', ((ports \ {p}) \ ({old} \ {x.port})) \cup ({x.port} \ {0}))
    <3> DEFINE taken == ports \ {p}
    <3>1. PortBooks(PortsHeld, Tries', taken) /\ (x.port = old \/ x.port \notin taken)
      BY <1>6, <2>2
    <3>2. \A m \in DOMAIN names \ {n} : names'[m] = names[m] /\ heap'[names[m]] = heap[names[m]]
      BY <1>2, <2>1
    <3> HIDE DEF taken
    <3>3. PortBooks(PortsHeld', Tries', (taken \ ({old} \ {x.port})) \cup ({x.port} \ {0}))
      <4>1. RegInv /\ heap'[o] = x
        BY <1>0, <1>2
      <4> HIDE DEF x
      <4> QED BY ONLY <2>1, <3>1, <3>2, <4>1, WrittenBooks, Zenon
    <3> QED BY <3>3 DEF taken
  <2> QED BY <1>3, <2>3
<1>9. ((ports \ {p}) \ ({old} \ {p})) \cup ({p} \ {0}) = ports'
  BY <1>0, <1>6, <1>7
<1>10. DomainBooks(DomainsHeld', names', domains')
  <2>1. DomainsHeld' = DomainsHeld
    BY <1>0, <1>1, <1>2, <1>3, Zenon DEF DomainsHeld, ResOf
  <2> QED BY <1>0, <2>1
<1>11. Books'
  BY <1>8, <1>9, <1>10 DEF Books
<1>12. HandsInNames' /\ CandidatesOK'
  <2>1. SameSessions /\ DOMAIN heap' = DOMAIN heap
    BY <1>0, SetPortKeeps, Zenon DEF SameObjects
  <2> QED BY <1>0, <1>4, <2>1, WalkHands, Zenon DEF Registering, Opening
<1> QED BY <1>11, <1>12 DEF HoldInv

LEMMA SetDomainsHolds ==
  ASSUME HoldInv, ~DeletedUnderfoot, RegInv', NEW s \in Sessions, SetDomains(s)
  PROVE  HoldInv'
<1> DEFINE o == proc[s].res
           n == heap[o].name
           new == Spec1(s).domains
           own == {d \in DOMAIN domains : d \in heap[o].domains /\ domains[d] = o}
<1>0. RegInv /\ proc[s].pc = "domains" /\ UNCHANGED <<names, ports>> /\ Books
  BY DEF HoldInv, SetDomains
<1>1. CASE Goto(s, "undo") /\ UNCHANGED <<heap, domains>>
  BY <1>0, <1>1, GotoEffect, WalkHolds, Zenon DEF Registering, Opening
<1>2. ASSUME \A d \in new \cap DOMAIN domains : domains[d] = o,
             heap' = [heap EXCEPT ![o].domains = new],
             domains' = [d \in (DOMAIN domains \ own) \cup new |-> IF d \in new THEN o ELSE domains[d]],
             NEW pc \in {"cluster", "ports", "activate"}, Goto(s, pc)
      PROVE  HoldInv'
  <2>1. /\ o \in DOMAIN heap /\ heap[o] \in Reservation /\ n \in DOMAIN names /\ names[n] = o
        /\ \A m \in DOMAIN names : names[m] \in DOMAIN heap /\ (names[m] = o => m = n)
    BY <1>0, OpeningInNames, HeldTyped, Zenon DEF Opening
  <2>2. /\ heap'[o].domains = new /\ heap'[o].port = heap[o].port
        /\ \A m \in DOMAIN names \ {n} : heap'[names[m]] = heap[names[m]]
    <3>1. heap'[o] = [heap[o] EXCEPT !.domains = new]
      BY <1>2, <2>1
    <3>2. heap'[o].domains = new /\ heap'[o].port = heap[o].port
      BY <2>1, <3>1, Zenon DEF Reservation
    <3> QED BY <1>2, <2>1, <3>2, Zenon
  <2>3. /\ DomainsHeld'[n] = new /\ DomainsHeld[n] = heap[o].domains
        /\ \A m \in DOMAIN names \ {n} : DomainsHeld'[m] = DomainsHeld[m]
    BY <1>0, <2>1, <2>2, Zenon DEF DomainsHeld, ResOf
  <2>4. DomainBooks(DomainsHeld', names', domains')
    <3> DEFINE dm == domains'
    <3>1. /\ DOMAIN dm = (DOMAIN domains \ own) \cup new
          /\ \A d \in new : dm[d] = o
          /\ \A d \in DOMAIN dm \ new : d \in DOMAIN domains \ own /\ dm[d] = domains[d]
      BY <1>2, Zenon
    <3>2. DomainBooks(DomainsHeld, names, domains)
      BY <1>0 DEF Books
    <3> HIDE DEF dm, n, o, new
    <3>3. \A m \in DOMAIN names : \A d \in DomainsHeld'[m] : d \in DOMAIN dm /\ dm[d] = names[m]
      BY <1>2, <2>1, <2>3, <3>1, <3>2 DEF DomainBooks
    <3>4. \A d \in DOMAIN dm : \E m \in DOMAIN names : names[m] = dm[d] /\ d \in DomainsHeld'[m]
      BY <1>2, <2>1, <2>3, <3>1, <3>2, Zenon DEF DomainBooks
    <3> QED BY <1>0, <3>3, <3>4, Zenon DEF DomainBooks, dm
  <2>5. PortsHeld' = PortsHeld
    BY <1>0, <2>1, <2>2, Zenon DEF PortsHeld, ResOf
  <2>6. Walked(s, pc, proc[s].cand)
    BY <1>0, <1>2, GotoEffect, Zenon
  <2>7. Tries' = Tries
    <3>1. Tries'[s] = {} /\ Tries[s] = {}
      BY <1>0, <2>6, WalkTries, Zenon
    <3> QED BY <1>0, <2>6, <3>1, WalkTries, Zenon
  <2>8. HandsInNames' /\ CandidatesOK'
    <3>1. SameSessions /\ DOMAIN heap' = DOMAIN heap
      BY <1>0, SetDomainsKeeps, Zenon DEF SameObjects
    <3> QED BY <1>0, <2>6, <3>1, WalkHands, Zenon DEF Registering, Opening
  <2> QED BY <1>0, <2>4, <2>5, <2>7, <2>8, Zenon DEF HoldInv, Books
<1> QED BY <1>1, <1>2, Zenon DEF SetDomains

\* A session that lets go of reservations, or passes one to its opened tunnels.
LEMMA PassHands ==
  ASSUME HoldInv, ~DeletedUnderfoot, RegInv', LetGo(heap'), NEW s \in Sessions,
         \A r \in Sessions \ {s} : proc'[r] = proc[r],
         proc'[s].pc \in Registering => proc[s].pc \in Registering,
         proc'[s].pc \notin {"reserve", "bind", "setPort"},
         proc'[s].res \in {proc[s].res, 0},
         \A k \in DOMAIN proc'[s].opened :
           \/ proc'[s].opened[k].res = proc[s].res /\ proc[s].pc \in Opening
           \/ \E j \in DOMAIN proc[s].opened : proc[s].opened[j] = proc'[s].opened[k]
  PROVE  HandsInNames' /\ CandidatesOK'
<1>1. ASSUME NEW r \in Sessions
      PROVE  InHand(r)' \subseteq InHand(r) \cup {}
  <2>0. RegInv /\ r # NoOne
    BY RegistryConstants, Zenon DEF HoldInv
  <2>1. \A o \in DOMAIN heap' : heap'[o].session = r => o \in DOMAIN heap /\ heap[o].session = r
    BY <2>0, Zenon DEF LetGo
  <2>2. /\ proc'[r].pc \in Registering => proc[r].pc \in Registering
        /\ proc'[r].res \in {proc[r].res, 0} \cup {}
        /\ \A k \in DOMAIN proc'[r].opened :
             \/ proc'[r].opened[k].res = proc[r].res /\ proc[r].pc \in Opening
             \/ \E j \in DOMAIN proc[r].opened : proc[r].opened[j] = proc'[r].opened[k]
    <3>1. CASE r = s
      BY <3>1
    <3>2. CASE r # s
      BY <3>2, Zenon
    <3> QED BY <3>1, <3>2, Zenon
  <2> QED BY <2>0, <2>1, <2>2, HandsPass, Zenon
<1>2. HandsInNames'
  BY <1>1, HandsKept DEF HoldInv
<1> QED BY <1>2 DEF HoldInv, CandidatesOK

\* A session that tries no port before or after its step changes nothing there.
LEMMA NoTries ==
  ASSUME NEW s \in Sessions, \A r \in Sessions \ {s} : proc'[r] = proc[r],
         proc[s].pc \notin {"bind", "setPort"}, proc'[s].pc \notin {"bind", "setPort"}
  PROVE  Tries' = Tries
<1>1. \A r \in Sessions : Tries'[r] = Tries[r]
  BY Zenon DEF Tries
<1> QED BY <1>1, Zenon DEF Tries

LEMMA ActivateHolds ==
  ASSUME HoldInv, ~DeletedUnderfoot, RegInv', NEW s \in Sessions, Activate(s)
  PROVE  HoldInv'
<1> DEFINE me == proc[s]
           x == [heap[me.res] EXCEPT !.tunnel = s]
<1>0. RegInv /\ Books /\ UNCHANGED <<names, domains, ports>>
  BY DEF HoldInv, Activate
<1>1. /\ me.pc = "activate" /\ me.res \in DOMAIN heap /\ heap[me.res] \in Reservation
      /\ heap' = [heap EXCEPT ![me.res] = x]
  BY <1>0, Opens DEF Activate, Opening
<1>2. SameHoldings(heap') /\ LetGo(heap')
  <2>1. x \in Reservation /\ x.port = heap[me.res].port /\ x.domains = heap[me.res].domains
        /\ x.session = heap[me.res].session
    BY <1>1, Zenon DEF Reservation
  <2> HIDE DEF x
  <2>2. x.session \in {heap[me.res].session, NoOne}
    BY <2>1, Zenon
  <2> QED BY <1>0, <1>1, <2>1, <2>2, EditSame, Zenon
<1>3. /\ proc'[s].pc \in {"claim", "served"} /\ proc'[s].res = 0
      /\ \A r \in Sessions \ {s} : proc'[r] = proc[r]
      /\ \A k \in DOMAIN proc'[s].opened :
           \/ proc'[s].opened[k].res = me.res
           \/ \E j \in DOMAIN me.opened : me.opened[j] = proc'[s].opened[k]
  BY <1>0, ActivateEffect, ZenonT(30)
<1>4. Books'
  <2>1. Tries' = Tries
    BY <1>1, <1>3, NoTries, Zenon
  <2> QED BY <1>0, <1>2, <2>1, BooksKept, Zenon
<1>5. HandsInNames' /\ CandidatesOK'
  <2>1. me.pc \in Opening /\ me.pc \in Registering
    BY <1>1, Zenon DEF Opening, Registering
  <2> QED BY <1>2, <1>3, <2>1, PassHands, Zenon
<1> QED BY <1>4, <1>5 DEF HoldInv

\* The reservations session s made are in the registry while it may roll them back.
LEMMA FirstInNames ==
  ASSUME HoldInv, NEW s \in Sessions, proc[s].pc = "unwind", proc[s].opened # << >>,
         ~Head(proc[s].opened).existed, heap[Head(proc[s].opened).res].session = s
  PROVE  InNames(Head(proc[s].opened).res)
<1> DEFINE t == Head(proc[s].opened)
<1>1. proc[s] \in Process /\ ProcessOK(proc[s], DOMAIN heap) /\ proc[s].opened \in Seq(Opened)
  BY Opens, Zenon DEF HoldInv, Process
<1>2. 1 \in DOMAIN proc[s].opened /\ t = proc[s].opened[1]
  BY <1>1, HeadIsFirst, Zenon
<1>3. t.res \in DOMAIN heap
  BY <1>1, <1>2 DEF ProcessOK
<1>4. t.res \in InHand(s)
  BY <1>2, <1>3, Zenon DEF InHand, Registering
<1> QED BY <1>4 DEF HoldInv, HandsInNames

LEMMA UndoHolds ==
  ASSUME HoldInv, ~DeletedUnderfoot, RegInv', NEW s \in Sessions, Undo(s)
  PROVE  HoldInv'
<1> DEFINE o == proc[s].res
<1>0. /\ RegInv /\ Books /\ proc[s].pc = "undo" /\ RollsBack(o, s, proc[s].existed)
      /\ proc' = [proc EXCEPT ![s].pc = "unwind", ![s].res = 0, ![s].existed = FALSE]
  BY DEF HoldInv, Undo
<1>1. o \in DOMAIN heap /\ InNames(o)
  BY <1>0, OpeningInNames DEF Opening, InNames
<1>2. /\ \A r \in Sessions \ {s} : proc'[r] = proc[r]
      /\ proc'[s].pc = "unwind" /\ proc'[s].res = 0 /\ proc'[s].opened = proc[s].opened
  BY <1>0, UndoEffect, Zenon
<1>3. Tries' = Tries
  BY <1>0, <1>2, NoTries, Zenon
<1> HIDE DEF o
<1>4. Books' /\ LetGo(heap')
  BY <1>0, <1>1, <1>3, RollsBackBooks, Zenon
<1>5. HandsInNames' /\ CandidatesOK'
  <2>1. proc[s].pc \in Registering
    BY <1>0, Zenon DEF Registering, Opening
  <2> QED BY <1>2, <1>4, <2>1, PassHands, Zenon
<1> QED BY <1>4, <1>5 DEF HoldInv

LEMMA EndingHolds ==
  ASSUME HoldInv, ~DeletedUnderfoot, RegInv', NEW s \in Sessions, Unwind(s) \/ CloseTunnels(s)
  PROVE  HoldInv'
<1> DEFINE me == proc[s]
           t == Head(me.opened)
<1>0. /\ RegInv /\ Books /\ me.pc \in {"unwind", "closing"}
      /\ me \in Process /\ DOMAIN proc = Sessions /\ me.opened \in Seq(Opened)
  <2>1. RegInv /\ Books /\ me.pc \in {"unwind", "closing"}
    BY DEF HoldInv, Unwind, CloseTunnels
  <2> QED BY <2>1, Opens, Zenon DEF Process
<1>1. CASE me.opened # << >>
  <2>1. /\ proc' = [proc EXCEPT ![s].opened = Tail(@)]
        /\ \/ me.pc = "unwind" /\ RollsBack(t.res, s, t.existed)
           \/ Parks(t.res, s)
    BY <1>1 DEF Unwind, CloseTunnels
  <2>2. t.res \in DOMAIN heap
    BY <1>0, <1>1, <2>1, TakesFirst, Zenon
  <2>3. /\ \A r \in Sessions \ {s} : proc'[r] = proc[r]
        /\ proc'[s].pc = me.pc /\ proc'[s].res = me.res
        /\ \A k \in DOMAIN proc'[s].opened : \E j \in DOMAIN me.opened : me.opened[j] = proc'[s].opened[k]
    BY <1>0, <1>1, <2>1, FirstEffect
  <2>4. Tries' = Tries
    BY <1>0, <2>3, NoTries, Zenon
  <2>5. me.pc = "unwind" /\ ~t.existed /\ heap[t.res].session = s => InNames(t.res)
    BY <1>1, FirstInNames
  <2> HIDE DEF t
  <2>7. Books' /\ LetGo(heap')
    <3>1. CASE me.pc = "unwind" /\ RollsBack(t.res, s, t.existed)
      BY <1>0, <2>2, <2>4, <2>5, <3>1, RollsBackBooks, Zenon
    <3>2. CASE Parks(t.res, s)
      BY <1>0, <2>2, <2>4, <3>2, ParksBooks, Zenon
    <3> QED BY <2>1, <3>1, <3>2, Zenon
  <2>8. HandsInNames' /\ CandidatesOK'
    <3>2. proc'[s].pc \notin {"reserve", "bind", "setPort"} /\ proc'[s].res \in {me.res, 0}
          /\ (proc'[s].pc \in Registering => me.pc \in Registering)
      BY <1>0, <2>3, Zenon
    <3> QED BY <2>3, <2>7, <3>2, PassHands, Zenon
  <2> QED BY <2>7, <2>8, Zenon DEF HoldInv
<1>2. CASE me.opened = << >>
  <2>1. Stores(heap)
    BY <1>2 DEF Unwind, CloseTunnels
  <2>2. /\ \A r \in Sessions \ {s} : proc'[r] = proc[r]
        /\ proc'[s].pc \in {"refused", "gone"} /\ proc'[s].res \in {me.res, 0} /\ proc'[s].opened = << >>
    <3>1. CASE Goto(s, "refused")
      <4>1. Walked(s, "refused", me.cand)
        BY <1>0, <3>1, GotoEffect, Zenon
      <4> QED BY <1>2, <4>1, Zenon DEF Walked
    <3>2. CASE proc' = [proc EXCEPT ![s] = [NewProcess EXCEPT !.pc = "gone"]]
      BY <1>0, <3>2, Zenon DEF NewProcess
    <3> QED BY <1>2, <3>1, <3>2, Zenon DEF Unwind, CloseTunnels
  <2>3. Tries' = Tries
    BY <1>0, <2>2, NoTries, Zenon
  <2>4. Books' /\ LetGo(heap')
    BY <1>0, <2>1, <2>3, BooksKept, SameHeap, Zenon DEF Stores
  <2>5. HandsInNames' /\ CandidatesOK'
    BY <2>2, <2>4, PassHands DEF Registering, Opening
  <2> QED BY <2>4, <2>5 DEF HoldInv
<1> QED BY <1>1, <1>2

\* A claim gives the session the one reservation.
Claimed(s, o) ==
  /\ \A r \in Sessions \ {s} : proc'[r] = proc[r]
  /\ proc'[s].pc = "domains" /\ proc'[s].res = o /\ proc'[s].opened = proc[s].opened
  /\ \A p \in DOMAIN heap' : p = o \/ (p \in DOMAIN heap /\ heap'[p].session = heap[p].session)
  /\ heap'[o].session = s /\ heap'[o].name \in DOMAIN names' /\ names'[heap'[o].name] = o

LEMMA ClaimHands ==
  ASSUME HoldInv, ~DeletedUnderfoot, RegInv', NEW s \in Sessions, NEW o, proc[s].pc = "claim", Claimed(s, o)
  PROVE  HandsInNames' /\ CandidatesOK' /\ Tries' = Tries
<1> USE DEF Claimed
<1>0. RegInv /\ proc[s].pc \in Registering
  BY DEF HoldInv, Registering
<1>1. InHand(s)' \subseteq InHand(s) \cup {o}
  <2> DEFINE N == {o}
  <2>1. /\ proc'[s].res \in {proc[s].res, 0} \cup N
        /\ \A p \in DOMAIN heap' : heap'[p].session = s => p \in N \/ (p \in DOMAIN heap /\ heap[p].session = s)
    OBVIOUS
  <2> HIDE DEF N
  <2>2. InHand(s)' \subseteq InHand(s) \cup N
    BY <1>0, <2>1, HandsPass, Zenon
  <2> QED BY <2>2, Zenon DEF N
<1>2. ASSUME NEW r \in Sessions \ {s}
      PROVE  InHand(r)' \subseteq InHand(r) \cup {}
  BY <1>0, HandsPass, Zenon
<1>3. HandsInNames'
  BY <1>1, <1>2, HandsKept, Zenon DEF HoldInv, InNames
<1>4. Tries' = Tries
  BY NoTries
<1> QED BY <1>3, <1>4, Zenon DEF HoldInv, CandidatesOK

LEMMA ClaimNewHolds ==
  ASSUME HoldInv, ~DeletedUnderfoot, RegInv', NEW s \in Sessions, ClaimNew(s)
  PROVE  HoldInv'
<1> DEFINE n == Spec1(s).name
<1>0. RegInv /\ Books /\ proc[s].pc = "claim" /\ UNCHANGED <<domains, ports>>
  BY DEF HoldInv, ClaimNew
<1>1. PICK o \in Objects, x \in Reservation :
           /\ Gained(n, o, x) /\ n \in Names \ DOMAIN names
           /\ x.name = n /\ x.token = TokenOf[s] /\ x.session = s
           /\ x.port = 0 /\ x.domains = {}
           /\ proc' = [proc EXCEPT ![s].pc = "domains", ![s].res = o, ![s].existed = FALSE]
  BY <1>0, ClaimNewGains, Zenon
<1> HIDE DEF n
<1>2. HandsInNames' /\ CandidatesOK' /\ Tries' = Tries
  <2>1. /\ heap'[o].session = s /\ heap'[o].name \in DOMAIN names' /\ names'[heap'[o].name] = o
        /\ \A p \in DOMAIN heap' : p = o \/ (p \in DOMAIN heap /\ heap'[p].session = heap[p].session)
    BY <1>1 DEF Gained
  <2>2. /\ \A r \in Sessions \ {s} : proc'[r] = proc[r]
        /\ proc'[s].pc = "domains" /\ proc'[s].res = o /\ proc'[s].opened = proc[s].opened
    BY <1>0, <1>1, ClaimEffect, Zenon
  <2>3. proc[s].pc = "claim" /\ Claimed(s, o)
    BY <1>0, <2>1, <2>2, Zenon DEF Claimed
  <2> QED BY <2>3, ClaimHands, Zenon
<1>3. /\ DOMAIN names' = DOMAIN names \cup {n} /\ names'[n] = o /\ heap'[o] = x
      /\ \A m \in DOMAIN names \ {n} : names'[m] = names[m] /\ heap'[names[m]] = heap[names[m]]
      /\ n \notin DOMAIN names
  BY <1>1 DEF Gained
<1>4. PortBooks(PortsHeld', Tries, (ports \ ({0} \ {x.port})) \cup ({x.port} \ {0}))
  <2>1. 0 = IF n \in DOMAIN names THEN ResOf(n).port ELSE 0
    BY <1>3
  <2>2. PortBooks(PortsHeld, Tries, ports) /\ (x.port = 0 \/ x.port \notin ports)
    BY <1>0, <1>1 DEF Books
  <2> QED BY ONLY <1>3, <2>1, <2>2, <1>0, WrittenBooks, Zenon
<1>5. PortBooks(PortsHeld', Tries', ports')
  BY <1>0, <1>1, <1>2, <1>4, Zenon
<1>6. DomainBooks(DomainsHeld', names', domains')
  <2>1. DomainBooks(DomainsHeld, names, domains) /\ domains' = domains
    BY <1>0 DEF Books
  <2>2. DomainBooks(DomainsHeld', names', domains)
    BY <1>0, <1>1, <1>3, <2>1, WrittenDomains
  <2> QED BY <2>1, <2>2, Zenon
<1> QED BY <1>2, <1>5, <1>6, Zenon DEF HoldInv, Books

LEMMA ClaimHeldHolds ==
  ASSUME HoldInv, ~DeletedUnderfoot, RegInv', NEW s \in Sessions, ClaimHeld(s)
  PROVE  HoldInv'
<1> DEFINE n == Spec1(s).name
           o == names[n]
<1>0. RegInv /\ Books /\ proc[s].pc = "claim" /\ UNCHANGED <<names, domains, ports>>
      /\ proc' = [proc EXCEPT ![s].pc = "domains", ![s].res = o, ![s].existed = TRUE]
  BY Zenon DEF HoldInv, ClaimHeld
<1>1. Taken(n, s)
      /\ \A p \in DOMAIN heap : heap'[p].port = heap[p].port /\ heap'[p].domains = heap[p].domains
  BY <1>0, ClaimHeldTakes, Zenon
<1> HIDE DEF n
<1>2. /\ heap'[o].session = s /\ heap'[o].name \in DOMAIN names' /\ names'[heap'[o].name] = o
      /\ \A p \in DOMAIN heap' : p = o \/ (p \in DOMAIN heap /\ heap'[p].session = heap[p].session)
  BY <1>0, <1>1, HeldTyped, Zenon DEF Taken, SameObjects, RegInv
<1>3. SameHoldings(heap')
  BY <1>1, Zenon DEF SameHoldings, Taken, SameObjects
<1> HIDE DEF o
<1>4. HandsInNames' /\ CandidatesOK' /\ Tries' = Tries
  <2>0. PICK p : p = o
    OBVIOUS
  <2>1. /\ \A r \in Sessions \ {s} : proc'[r] = proc[r]
        /\ proc'[s].pc = "domains" /\ proc'[s].res = p /\ proc'[s].opened = proc[s].opened
    BY <1>0, <2>0, ClaimEffect, Zenon
  <2>2. /\ heap'[p].session = s /\ heap'[p].name \in DOMAIN names' /\ names'[heap'[p].name] = p
        /\ \A q \in DOMAIN heap' : q = p \/ (q \in DOMAIN heap /\ heap'[q].session = heap[q].session)
    BY <1>2, <2>0
  <2>3. proc[s].pc = "claim" /\ Claimed(s, p)
    BY <1>0, <2>1, <2>2, Zenon DEF Claimed
  <2> QED BY <2>3, ClaimHands, Zenon
<1>5. Books'
  BY <1>0, <1>3, <1>4, BooksKept, Zenon
<1> QED BY <1>4, <1>5, Zenon DEF HoldInv

\* The registration starts with nothing in hand.
LEMMA RegisterHolds ==
  ASSUME HoldInv, ~DeletedUnderfoot, RegInv', NEW s \in Sessions, NEW specs \in Requests, Register(s, specs)
  PROVE  HoldInv'
<1>0. /\ RegInv /\ Books /\ proc[s] \in Process /\ ProcessOK(proc[s], DOMAIN heap) /\ DOMAIN proc = Sessions
      /\ proc[s].pc = "new" /\ UNCHANGED <<heap, names, domains, ports>>
  BY Opens DEF HoldInv, Register
<1>1. /\ \A r \in Sessions \ {s} : proc'[r] = proc[r]
      /\ proc'[s].pc = "claim" /\ proc'[s].res = 0 /\ proc'[s].opened = << >>
  <2>1. /\ proc'[s] = [[proc[s] EXCEPT !.pc = "claim"] EXCEPT !.specs = specs]
        /\ \A r \in Sessions \ {s} : proc'[r] = proc[r]
    BY <1>0 DEF Register
  <2>2. proc'[s].pc = "claim" /\ proc'[s].res = proc[s].res /\ proc'[s].opened = proc[s].opened
    BY <1>0, <2>1, Zenon DEF Process
  <2> QED BY <1>0, <2>1, <2>2, Zenon DEF ProcessOK, Opening
<1>2. Tries' = Tries
  BY <1>0, <1>1, NoTries, Zenon
<1>3. InHand(s)' = {}
  <2>1. 0 \notin DOMAIN heap
    BY <1>0, RegistryConstants, Zenon DEF RegInv, TypeOK, Map
  <2>2. DOMAIN heap' = DOMAIN heap
    BY <1>0
  <2>3. DOMAIN << >> = {}
    OBVIOUS
  <2>4. DOMAIN proc'[s].opened = {}
    BY <1>1, <2>3, Zenon
  <2> QED BY <1>1, <2>1, <2>2, <2>4, Zenon DEF InHand
<1>4. \A r \in Sessions \ {s} : InHand(r)' = InHand(r)
  BY <1>0, <1>1 DEF InHand
<1>5. HandsInNames'
  BY <1>3, <1>4, HandsKept, Zenon DEF HoldInv
<1>6. Books'
  BY <1>0, <1>2, BooksKept, SameHeap, Zenon
<1> QED BY <1>1, <1>5, <1>6, Zenon DEF HoldInv, CandidatesOK

-------------------------------------------------------------------------------
(* Timers, operators and shutdown, which move no session.                  *)

LEMMA StillHands ==
  ASSUME HoldInv, ~DeletedUnderfoot, RegInv', UNCHANGED proc,
         \A o \in DOMAIN heap' : heap'[o].session # NoOne =>
           o \in DOMAIN heap /\ heap[o].session = heap'[o].session
  PROVE  HandsInNames' /\ CandidatesOK' /\ Tries' = Tries
<1>1. ASSUME NEW r \in Sessions
      PROVE  InHand(r)' \subseteq InHand(r) \cup {}
  <2>1. RegInv /\ r # NoOne
    BY RegistryConstants DEF HoldInv
  <2> QED BY <2>1, HandsPass
<1>2. HandsInNames'
  BY <1>1, HandsKept DEF HoldInv
<1> QED BY <1>2, Zenon DEF HoldInv, CandidatesOK, Tries

\* Reservations of the registry are deleted, or none changes what it holds.
LEMMA OutsideHolds ==
  ASSUME HoldInv, ~DeletedUnderfoot, RegInv', UNCHANGED proc, NEW h, SameHoldings(h), LetGo(h),
         \/ Stores(h)
         \/ \E O : Deletes(h, O) /\ \A o \in O : \E n \in DOMAIN names : names[n] = o
  PROVE  HoldInv'
<1>0. RegInv /\ Books
  BY Zenon DEF HoldInv
<1>1. Tries' = Tries
  BY DEF Tries
<1>2. Books' /\ LetGo(heap')
  <2>1. CASE Stores(h)
    BY <1>0, <1>1, <2>1, BooksKept, Zenon DEF Stores
  <2>2. CASE \E O : Deletes(h, O) /\ \A o \in O : \E n \in DOMAIN names : names[n] = o
    BY <1>0, <1>1, <2>2, DeletesBooks, Zenon
  <2> QED BY <2>1, <2>2, Zenon
<1>3. HandsInNames' /\ CandidatesOK'
  <2>1. \A o \in DOMAIN heap' : heap'[o].session # NoOne =>
           o \in DOMAIN heap /\ heap[o].session = heap'[o].session
    BY <1>2 DEF LetGo
  <2> QED BY <2>1, StillHands, Zenon
<1> QED BY <1>2, <1>3 DEF HoldInv

LEMMA TimerHolds ==
  ASSUME HoldInv, ~DeletedUnderfoot, RegInv', NEW o \in Objects, Fire(o) \/ Expire(o)
  PROVE  HoldInv'
<1>0. RegInv /\ Books /\ UNCHANGED proc
  BY DEF HoldInv, Fire, Expire
<1>1. CASE Fire(o)
  <2> DEFINE x == [heap[o] EXCEPT !.armed = FALSE]
             h == [heap EXCEPT ![o] = x]
  <2>1. o \in DOMAIN heap /\ heap[o] \in Reservation /\ Stores(h)
    BY <1>0, <1>1, Zenon DEF Fire, Stores, RegInv, TypeOK, Map
  <2>2. x \in Reservation /\ x.port = heap[o].port /\ x.domains = heap[o].domains
        /\ x.session = heap[o].session
    BY <2>1, Zenon DEF Reservation
  <2> HIDE DEF x
  <2>3. SameHoldings(h) /\ LetGo(h)
    BY <1>0, <2>1, <2>2, EditSame, Zenon
  <2> HIDE DEF h
  <2> QED BY <1>0, <2>1, <2>3, OutsideHolds, Zenon
<1>2. CASE Expire(o)
  <2>1. Stores(heap) \/ (InNames(o) /\ Deletes(heap, {o}))
    BY <1>2, Zenon DEF Expire
  <2>2. Stores(heap) \/ \E O : Deletes(heap, O) /\ \A p \in O : \E n \in DOMAIN names : names[n] = p
    BY <2>1 DEF InNames
  <2> QED BY <1>0, <2>2, SameHeap, OutsideHolds, Zenon
<1> QED BY <1>1, <1>2

LEMMA UnreserveHolds ==
  ASSUME HoldInv, ~DeletedUnderfoot, RegInv', NEW n \in Names, Unreserve(n)
  PROVE  HoldInv'
<1> DEFINE o == names[n]
           x == [heap[o] EXCEPT !.permanent = FALSE]
           h == [heap EXCEPT ![o] = x]
<1>0. RegInv /\ Books /\ UNCHANGED proc /\ n \in DOMAIN names
  BY Zenon DEF HoldInv, Unreserve
<1>1. o \in DOMAIN heap /\ heap[o] \in Reservation
  BY <1>0 DEF RegInv, TypeOK, Map
<1>2. Stores(h) \/ Deletes(h, {o})
  BY DEF Unreserve
<1>3. x \in Reservation /\ x.port = heap[o].port /\ x.domains = heap[o].domains
      /\ x.session = heap[o].session
  BY <1>1, Zenon DEF Reservation
<1> HIDE DEF x
<1>4. SameHoldings(h) /\ LetGo(h)
  BY <1>0, <1>1, <1>3, EditSame, Zenon
<1> HIDE DEF h
<1>5. Stores(h) \/ \E O : Deletes(h, O) /\ \A p \in O : \E m \in DOMAIN names : names[m] = p
  BY <1>0, <1>2
<1> QED BY <1>0, <1>4, <1>5, OutsideHolds, Zenon

LEMMA ReleaseHolds ==
  ASSUME HoldInv, ~DeletedUnderfoot, RegInv', NEW t, ReleaseToken(t)
  PROVE  HoldInv'
<1> DEFINE O == {names[n] : n \in {m \in DOMAIN names : heap[names[m]].token = t}}
<1>1. Deletes(heap, O) /\ UNCHANGED proc /\ \A o \in O : \E n \in DOMAIN names : names[n] = o
  BY DEF ReleaseToken
<1> HIDE DEF O
<1>2. SameHoldings(heap) /\ LetGo(heap)
  BY SameHeap DEF HoldInv
<1> QED BY <1>1, <1>2, OutsideHolds, Zenon

LEMMA CloseHolds ==
  ASSUME HoldInv, ~DeletedUnderfoot, RegInv', Close
  PROVE  HoldInv'
<1> DEFINE parked == {names[n] : n \in DOMAIN names}
           h == [o \in DOMAIN heap |-> [heap[o] EXCEPT !.armed = @ /\ o \notin parked]]
           O == {o \in parked : ~heap[o].permanent}
<1>1. Deletes(h, O) /\ UNCHANGED proc /\ \A o \in O : \E n \in DOMAIN names : names[n] = o
  BY DEF Close
<1>2. ASSUME NEW o \in DOMAIN heap
      PROVE  /\ h[o] \in Reservation /\ h[o].port = heap[o].port /\ h[o].domains = heap[o].domains
             /\ h[o].session = heap[o].session
  <2>1. heap[o] \in Reservation /\ h[o] = [heap[o] EXCEPT !.armed = heap[o].armed /\ o \notin parked]
    BY DEF HoldInv, RegInv, TypeOK, Map
  <2> HIDE DEF parked, h
  <2> QED BY <2>1, Zenon DEF Reservation
<1>3. SameHoldings(h) /\ LetGo(h)
  BY <1>2, Zenon DEF SameHoldings, LetGo, Map, HoldInv, RegInv, TypeOK
<1> HIDE DEF h, O
<1> QED BY <1>1, <1>3, OutsideHolds, Zenon

\* reserve: the port asked for is free, or the name's already.
LEMMA ReserveHolds ==
  ASSUME HoldInv, ~DeletedUnderfoot, RegInv', NEW r \in Reservable, Reserve(r)
  PROVE  HoldInv'
<1> DEFINE n == r.name
<1>0. RegInv /\ Books /\ UNCHANGED <<proc, domains>> /\ ReserveOK(r)
  BY Zenon DEF HoldInv, Reserve
<1>1. PICK o \in Objects, y \in Reservation, x \in Reservation :
        /\ n \in Names /\ r.token \in Tokens
        /\ IF n \in DOMAIN names THEN o = names[n] /\ y = heap[o]
                                 ELSE Fresh(o) /\ y = NewReservation(n, r.token)
        /\ heap' = With(heap, o, x) /\ names' = With(names, n, o)
        /\ x.name = y.name /\ x.token = y.token /\ x.session = y.session /\ x.domains = y.domains
        /\ x.port = IF r.port # 0 THEN r.port ELSE y.port
        /\ ports' = (ports \ ({y.port} \ {x.port})) \cup ({r.port} \ {0, y.port})
  BY <1>0, ReserveWrites, Zenon
<1>2. /\ n \in DOMAIN names => names[n] = o /\ y = heap[o] /\ y.port = ResOf(n).port
      /\ n \notin DOMAIN names => y.port = 0 /\ y.domains = {} /\ y.session = NoOne
  <2>1. CASE n \in DOMAIN names
    BY <1>1, <2>1, Zenon DEF ResOf
  <2>2. CASE n \notin DOMAIN names
    <3>1. y = NewReservation(n, r.token)
      BY <1>1, <2>2, Zenon
    <3>2. \A t : LET v == NewReservation(n, t) IN v.port = 0 /\ v.domains = {} /\ v.session = NoOne
      BY Zenon DEF NewReservation
    <3> QED BY <2>2, <3>1, <3>2, Zenon
  <2> QED BY <2>1, <2>2, Zenon
<1>3. /\ DOMAIN names' = DOMAIN names \cup {n} /\ names'[n] = o /\ heap'[o] = x
      /\ \A m \in DOMAIN names \ {n} : names'[m] = names[m] /\ heap'[names[m]] = heap[names[m]]
  <2>1. \A m \in DOMAIN names \ {n} : names[m] \in DOMAIN heap /\ names[m] # o
    <3>1. CASE n \in DOMAIN names
      BY <1>0, <1>2, <3>1, HeldTyped, Zenon
    <3>2. CASE n \notin DOMAIN names
      <4>1. \A m \in DOMAIN names : names[m] # o
        BY <1>1, <3>2, Zenon DEF Fresh, Referenced
      <4> QED BY <1>0, <4>1, HeldTyped, Zenon
    <3> QED BY <3>1, <3>2, Zenon
  <2> QED BY <1>1, <2>1, Zenon DEF With
<1> HIDE DEF n
<1>4. HandsInNames' /\ CandidatesOK' /\ Tries' = Tries
  <2>1. ASSUME NEW p \in DOMAIN heap', heap'[p].session # NoOne
        PROVE  p \in DOMAIN heap /\ heap[p].session = heap'[p].session
    <3>1. CASE p = o
      <4>1. n \in DOMAIN names
        BY <1>1, <1>2, <1>3, <2>1, <3>1, Zenon
      <4> QED BY <1>0, <1>1, <1>2, <1>3, <3>1, <4>1, HeldTyped, Zenon
    <3>2. CASE p # o
      BY <1>1, <3>2, Zenon DEF With
    <3> QED BY <3>1, <3>2
  <2> QED BY <1>0, <2>1, StillHands, Zenon
<1>5. x.port = y.port \/ x.port \notin ports
  BY <1>0, <1>1, <1>2, Zenon DEF ReserveOK, ResOf, n
<1>6. PortBooks(PortsHeld', Tries, (ports \ ({y.port} \ {x.port})) \cup ({x.port} \ {0}))
  <2> DEFINE old == y.port
  <2>1. /\ old = IF n \in DOMAIN names THEN ResOf(n).port ELSE 0
        /\ x.port = old \/ x.port \notin ports
    BY <1>2, <1>5, Zenon
  <2>2. RegInv /\ PortBooks(PortsHeld, Tries, ports)
    BY <1>0 DEF Books
  <2> HIDE DEF old
  <2>3. PortBooks(PortsHeld', Tries, (ports \ ({old} \ {x.port})) \cup ({x.port} \ {0}))
    BY ONLY <1>3, <2>1, <2>2, WrittenBooks, Zenon
  <2> QED BY <2>3, Zenon DEF old
<1>7. (ports \ ({y.port} \ {x.port})) \cup ({x.port} \ {0}) = ports'
  <2>1. y.port # 0 => y.port \in ports
    <3>1. y.port # 0 => n \in DOMAIN PortsHeld /\ PortsHeld[n] = y.port
      BY <1>2 DEF PortsHeld
    <3> QED BY <1>0, <3>1, Zenon DEF Books, PortBooks
  <2>2. x.port = y.port => r.port \in {0, y.port}
    BY <1>1, Zenon
  <2>3. x.port # y.port => x.port = r.port /\ r.port # 0
    BY <1>1
  <2> QED BY <1>1, <2>1, <2>2, <2>3, Zenon
<1>8. DomainBooks(DomainsHeld', names', domains')
  <2>1. DomainBooks(DomainsHeld, names, domains) /\ domains' = domains
    BY <1>0 DEF Books
  <2>2. /\ n \in DOMAIN names => names[n] = o /\ x.domains = heap[o].domains
        /\ n \notin DOMAIN names => x.domains = {}
    BY <1>1, <1>2, Zenon
  <2>3. DomainBooks(DomainsHeld', names', domains)
    BY <1>0, <1>3, <2>1, <2>2, WrittenDomains, ZenonT(30)
  <2> QED BY <2>1, <2>3, Zenon
<1>9. Books'
  BY <1>4, <1>6, <1>7, <1>8, Zenon DEF Books
<1> QED BY <1>4, <1>9 DEF HoldInv

LEMMA HoldStep ==
  ASSUME HoldInv, [Next]_vars, ~DeletedUnderfoot
  PROVE  HoldInv'
<1>0. RegInv'
  BY RegStep DEF HoldInv
<1>1. ASSUME NEW s \in Sessions, NEW specs \in Requests, Register(s, specs)
      PROVE  HoldInv'
  BY <1>0, <1>1, RegisterHolds
<1>2. ASSUME NEW s \in Sessions, Step(s) \/ End(s)
      PROVE  HoldInv'
  <2>1. CASE ClaimRefused(s) \/ ClaimInCluster(s) \/ ListenHeld(s) \/ End(s)
    BY <1>0, <2>1, GoesOnHolds, Zenon
  <2>2. CASE ClaimNew(s) \/ ClaimHeld(s)
    BY <1>0, <2>2, ClaimNewHolds, ClaimHeldHolds, Zenon
  <2>3. CASE SetDomains(s) \/ ChoosePort(s) \/ Activate(s)
    BY <1>0, <2>3, SetDomainsHolds, ChoosePortHolds, ActivateHolds, Zenon
  <2>4. CASE ReservePort(s) \/ Bind(s) \/ SetPort(s)
    BY <1>0, <2>4, PortHolds, SetPortHolds, Zenon
  <2>5. CASE Undo(s) \/ Unwind(s) \/ CloseTunnels(s)
    BY <1>0, <2>5, UndoHolds, EndingHolds, Zenon
  <2> QED BY <1>2, <2>1, <2>2, <2>3, <2>4, <2>5, Zenon DEF Step
<1>3. ASSUME NEW o \in Objects, Fire(o) \/ Expire(o)
      PROVE  HoldInv'
  BY <1>0, <1>3, TimerHolds, Zenon
<1>4. ASSUME NEW r \in Reservable, Reserve(r)
      PROVE  HoldInv'
  BY <1>0, <1>4, ReserveHolds, Zenon
<1>5. ASSUME NEW n \in Names, Unreserve(n)
      PROVE  HoldInv'
  BY <1>0, <1>5, UnreserveHolds, Zenon
<1>6. ASSUME UNCHANGED <<heap, names, domains, ports, proc>>
      PROVE  HoldInv'
  <2>1. SameHoldings(heap) /\ LetGo(heap) /\ Stores(heap)
    BY <1>6, SameHeap, Zenon DEF HoldInv, Stores
  <2> QED BY <1>0, <1>6, <2>1, OutsideHolds, Zenon
<1>7. ASSUME NEW t \in Revocable, DeleteToken(t) \/ ReleaseToken(t)
      PROVE  HoldInv'
  BY <1>0, <1>6, <1>7, ReleaseHolds, Zenon DEF DeleteToken
<1>8. CASE Close
  BY <1>0, <1>8, CloseHolds, Zenon
<1>9. CASE UNCHANGED vars
  BY <1>6, <1>9 DEF vars
<1> QED BY <1>1, <1>2, <1>3, <1>4, <1>5, <1>7, <1>8, <1>9, Zenon DEF Next

\* Ports and domains are marked taken exactly while a name or a session trying the
\* port has them, and each has one owner, whatever sessions, timers and operators
\* interleave, as long as no reservation is deleted while openTunnel or register's
\* rollback still works on it (setDomains, reservePort, setPort, reserve and
\* deleteLocked keep the maps together).
THEOREM HoldingsAreOwned == Spec /\ [][~DeletedUnderfoot]_vars => []HoldingsOwned
<1>1. HoldInv /\ [Next]_vars /\ [~DeletedUnderfoot]_vars => HoldInv'
  <2> SUFFICES ASSUME HoldInv, [Next]_vars, [~DeletedUnderfoot]_vars PROVE HoldInv'
    OBVIOUS
  <2>1. CASE ~DeletedUnderfoot
    BY <2>1, HoldStep
  <2>2. CASE UNCHANGED vars
    <3>1. ~DeletedUnderfoot
      BY <2>2, Zenon DEF DeletedUnderfoot, InHand, InNames, vars
    <3> QED BY <3>1, HoldStep
  <2> QED BY <2>1, <2>2, Zenon
<1>2. HoldInv => HoldingsOwned
  BY BooksOwned DEF HoldInv
<1> QED BY HoldInitInv, <1>1, <1>2, PTL DEF Spec

===============================================================================
