----------------------------- MODULE EdgeProofs ------------------------------
(***************************************************************************)
(* Theorems about the edge, for any number of members and connections and  *)
(* any domains, forwards and reloads: the active counts of a backend pool  *)
(* are right, however the members change under the connections, and smooth *)
(* weighted round robin gives every member its share (EdgePool); between   *)
(* two Applies the listeners and pools are exactly those of the domains    *)
(* applied last (EdgeConfig).                                              *)
(***************************************************************************)
EXTENDS EdgePool, EdgeConfig, FiniteSetTheorems, WellFoundedInduction, TLAPS

(* Sums over finite sets.                                                  *)

\* Induction over the subsets of a finite set.
LEMMA SubsetInduction ==
    ASSUME NEW S, IsFiniteSet(S), NEW U, {} \in U,
           \A T \in SUBSET S : T # {} /\ (\A x \in T : T \ {x} \in U) => T \in U
    PROVE  \A T \in SUBSET S : T \in U
<1> DEFINE B == {T \in SUBSET S : T \notin U}
<1> SUFFICES ASSUME B # {} PROVE FALSE
  OBVIOUS
<1>1. B \subseteq FiniteSubsetsOf(S)
  BY FS_Subset DEF FiniteSubsetsOf
<1>2. PICK T \in B : \A V \in B : <<V, T>> \notin StrictSubsetOrdering(S)
  <2> HIDE DEF B
  <2> QED BY <1>1, FS_StrictSubsetOrderingWellFounded, WFMin, Zenon
<1>3. T \in SUBSET S /\ T \notin U /\ T # {}
  OBVIOUS
<1>4. ASSUME NEW x \in T, T \ {x} \notin U
      PROVE  FALSE
  <2>1. T \ {x} \in B /\ T \ {x} \subseteq T /\ T \ {x} # T
    BY <1>3, <1>4
  <2>2. <<T \ {x}, T>> \in StrictSubsetOrdering(S)
    BY <1>3, <2>1 DEF StrictSubsetOrdering
  <2> QED BY <1>2, <2>1, <2>2, Zenon
<1> QED BY <1>3, <1>4

\* Induction over the numbers.
LEMMA NumberInduction ==
    ASSUME NEW U, 0 \in U, \A n \in Nat : n \in U => n + 1 \in U
    PROVE  \A n \in Nat : n \in U
<1> DEFINE B == {n \in Nat : n \notin U}
<1> SUFFICES ASSUME B # {} PROVE FALSE
  OBVIOUS
<1>1. PICK n \in B : \A m \in B : <<m, n>> \notin OpToRel(<, Nat)
  <2>1. B \subseteq Nat
    OBVIOUS
  <2> HIDE DEF B
  <2> QED BY <2>1, NatLessThanWellFounded, WFMin, Zenon
<1>2. n \in Nat /\ n # 0 /\ n - 1 \in Nat /\ n - 1 < n
  OBVIOUS
<1>3. n - 1 \in B
  BY <1>2
<1>4. <<n - 1, n>> \in OpToRel(<, Nat)
  BY <1>2, Zenon DEF OpToRel
<1> QED BY <1>1, <1>3, <1>4, Zenon

Chosen(T) == CHOOSE x \in T : TRUE

\* What the sum over T comes to when g has the sums over its subsets.
Unfolded(f, g, T) == IF T = {} THEN 0 ELSE f[Chosen(T)] + g[T \ {Chosen(T)}]

LEMMA ChosenIn == \A T : T # {} => Chosen(T) \in T
  BY DEF Chosen

\* The library's sum, with the fold spelled out.
Sums(f, S) == CHOOSE g : g = [T \in SUBSET S |-> Unfolded(f, g, T)]

\* The recursive function of the library's fold exists.
LEMMA SumsExist ==
    ASSUME NEW S, IsFiniteSet(S), NEW f
    PROVE  Sums(f, S) = [T \in SUBSET S |-> Unfolded(f, Sums(f, S), T)]
<1> DEFINE upTo(n) == {T \in SUBSET S : Cardinality(T) <= n}
           U == {n \in Nat : \E g : g = [T \in upTo(n) |-> Unfolded(f, g, T)]}
<1>0. \A T \in SUBSET S : IsFiniteSet(T) /\ Cardinality(T) \in Nat /\ Cardinality(T) <= Cardinality(S)
  BY FS_Subset, FS_CardinalityType
<1>1. 0 \in U
  <2>1. \A T \in upTo(0) : T = {}
    BY <1>0, FS_EmptySet
  <2> DEFINE g == [T \in upTo(0) |-> 0]
  <2>2. g = [T \in upTo(0) |-> Unfolded(f, g, T)]
    BY <2>1 DEF Unfolded
  <2> HIDE DEF g
  <2> QED BY <2>2, Zenon
<1>2. ASSUME NEW n \in Nat, n \in U
      PROVE  n + 1 \in U
  <2>1. PICK g : g = [T \in upTo(n) |-> Unfolded(f, g, T)]
    BY <1>2, Zenon
  <2> DEFINE h == [T \in upTo(n + 1) |-> Unfolded(f, g, T)]
  <2>2. ASSUME NEW T \in upTo(n + 1), T # {}
        PROVE  T \ {Chosen(T)} \in upTo(n) /\ T \ {Chosen(T)} \in upTo(n + 1)
    <3>1. Chosen(T) \in T /\ T \in SUBSET S /\ T \ {Chosen(T)} \in SUBSET S
      BY <2>2, ChosenIn
    <3>2. Cardinality(T \ {Chosen(T)}) = Cardinality(T) - 1
      BY <1>0, <3>1, FS_RemoveElement, Zenon
    <3> QED BY <1>0, <3>1, <3>2
  <2>3. \A T \in upTo(n) : T \in upTo(n + 1)
    BY <1>0
  <2> HIDE DEF upTo
  <2>4. \A T \in upTo(n) : h[T] = g[T]
    BY <2>1, <2>3
  <2>5. \A T \in upTo(n + 1) : Unfolded(f, g, T) = Unfolded(f, h, T)
    BY <2>2, <2>4, Zenon DEF Unfolded
  <2>6. h = [T \in upTo(n + 1) |-> Unfolded(f, h, T)]
    BY <2>5
  <2> HIDE DEF h
  <2> QED BY <2>6
<1>3. Cardinality(S) \in U
  <2>1. \A n \in Nat : n \in U
    <3> HIDE DEF U
    <3> QED BY <1>1, <1>2, NumberInduction
  <2> HIDE DEF U
  <2> QED BY <2>1, FS_CardinalityType
<1>4. upTo(Cardinality(S)) = SUBSET S
  BY <1>0
<1>5. \E g : g = [T \in SUBSET S |-> Unfolded(f, g, T)]
  <2> HIDE DEF upTo
  <2> QED BY <1>3, <1>4, Zenon
<1> QED BY <1>5, Zenon DEF Sums

LEMMA SumIsFold ==
    ASSUME NEW f, NEW S
    PROVE  SumFunctionOnSet(f, S) = Sums(f, S)[S]
  BY DEF SumFunctionOnSet, FoldFunctionOnSet, MapThenFoldSet, Sums, Unfolded, Chosen

LEMMA SumsUnfold ==
    ASSUME NEW S, IsFiniteSet(S), NEW f, NEW T \in SUBSET S
    PROVE  Sums(f, S)[T] = Unfolded(f, Sums(f, S), T)
<1>1. Sums(f, S) = [V \in SUBSET S |-> Unfolded(f, Sums(f, S), V)]
  BY SumsExist, Zenon
<1> QED BY <1>1

\* The sums over the subsets of S don't depend on S.
LEMMA SumsAgree ==
    ASSUME NEW S, IsFiniteSet(S), NEW V \in SUBSET S, NEW f
    PROVE  Sums(f, S)[V] = Sums(f, V)[V]
<1> DEFINE U == {T \in SUBSET V : Sums(f, S)[T] = Sums(f, V)[T]}
<1>1. IsFiniteSet(V) /\ \A T \in SUBSET V : T \in SUBSET S
  BY FS_Subset
<1>2. {} \in U
  BY <1>1, SumsUnfold DEF Unfolded
<1>3. ASSUME NEW T \in SUBSET V, T # {}, \A x \in T : T \ {x} \in U
      PROVE  T \in U
  <2>1. T \ {Chosen(T)} \in U
    BY <1>3, ChosenIn
  <2>2. Sums(f, S)[T \ {Chosen(T)}] = Sums(f, V)[T \ {Chosen(T)}]
    BY <2>1
  <2>3. Unfolded(f, Sums(f, S), T) = Unfolded(f, Sums(f, V), T)
    BY <2>2 DEF Unfolded
  <2> QED BY <1>1, <2>3, SumsUnfold
<1>4. V \in U
  <2> HIDE DEF U
  <2> QED BY <1>1, <1>2, <1>3, SubsetInduction, Zenon
<1> QED BY <1>4

\* A sum is one of its terms and the sum of the others.
LEMMA SumUnfolds ==
    ASSUME NEW S, IsFiniteSet(S), NEW f
    PROVE  SumFunctionOnSet(f, S) = IF S = {} THEN 0
               ELSE f[Chosen(S)] + SumFunctionOnSet(f, S \ {Chosen(S)})
<1>1. Sums(f, S)[S] = Unfolded(f, Sums(f, S), S)
  BY SumsUnfold
<1>2. Sums(f, S)[S \ {Chosen(S)}] = Sums(f, S \ {Chosen(S)})[S \ {Chosen(S)}]
  BY SumsAgree
<1> QED BY <1>1, <1>2, SumIsFold DEF Unfolded

LEMMA EmptySum ==
    ASSUME NEW f
    PROVE  SumFunctionOnSet(f, {}) = 0
  BY FS_EmptySet, SumUnfolds

LEMMA SumType ==
    ASSUME NEW S, IsFiniteSet(S), NEW f, \A a \in S : f[a] \in Nat
    PROVE  SumFunctionOnSet(f, S) \in Nat
<1> DEFINE F(T) == SumFunctionOnSet(f, T)
           U == {T \in SUBSET S : F(T) \in Nat}
<1>1. {} \in U
  BY EmptySum
<1>2. ASSUME NEW T \in SUBSET S, T # {}, \A x \in T : T \ {x} \in U
      PROVE  T \in U
  <2>1. IsFiniteSet(T) /\ Chosen(T) \in T
    BY <1>2, FS_Subset, ChosenIn
  <2>2. F(T) = f[Chosen(T)] + F(T \ {Chosen(T)})
    BY <1>2, <2>1, SumUnfolds, Zenon
  <2>3. F(T \ {Chosen(T)}) \in Nat
    BY <1>2, <2>1
  <2> HIDE DEF F
  <2>4. F(T) \in Nat
    BY <2>1, <2>2, <2>3
  <2> QED BY <2>4, Zenon
<1>3. \A T \in SUBSET S : T # {} /\ (\A x \in T : T \ {x} \in U) => T \in U
  BY <1>2
<1>4. \A T \in SUBSET S : T \in U
  <2> HIDE DEF U
  <2> QED BY <1>1, <1>3, SubsetInduction, Zenon
<1> QED BY <1>4

\* Sums keep a proportion that all their terms keep, and strictly if one term does.
LEMMA SumProportion ==
    ASSUME NEW S, IsFiniteSet(S), NEW f, NEW g, NEW c \in Nat, NEW d \in Nat,
           \A a \in S : f[a] \in Nat /\ g[a] \in Nat /\ c * f[a] <= d * g[a]
    PROVE  /\ c * SumFunctionOnSet(f, S) <= d * SumFunctionOnSet(g, S)
           /\ (\E a \in S : c * f[a] < d * g[a])
                => c * SumFunctionOnSet(f, S) < d * SumFunctionOnSet(g, S)
<1> DEFINE F(T) == SumFunctionOnSet(f, T)
           G(T) == SumFunctionOnSet(g, T)
           U == {T \in SUBSET S : /\ c * F(T) <= d * G(T)
                                  /\ (\E a \in T : c * f[a] < d * g[a]) => c * F(T) < d * G(T)}
<1>1. {} \in U
  BY EmptySum
<1>2. ASSUME NEW T \in SUBSET S, T # {}, \A x \in T : T \ {x} \in U
      PROVE  T \in U
  <2> DEFINE x == Chosen(T)
             R == T \ {x}
  <2>1. IsFiniteSet(T) /\ IsFiniteSet(R) /\ x \in T /\ R \in SUBSET S
    BY <1>2, FS_Subset, ChosenIn
  <2>2. F(T) = f[x] + F(R) /\ G(T) = g[x] + G(R)
    BY <1>2, <2>1, SumUnfolds, Zenon
  <2>3. F(R) \in Nat /\ G(R) \in Nat /\ f[x] \in Nat /\ g[x] \in Nat
    BY <2>1, SumType
  <2>4. /\ c * F(R) <= d * G(R)
        /\ (\E a \in R : c * f[a] < d * g[a]) => c * F(R) < d * G(R)
    BY <1>2, <2>1
  <2>5. c * f[x] <= d * g[x] /\ \A a \in T : a = x \/ a \in R
    BY <2>1
  <2> HIDE DEF F, G, x, R
  <2>6. c * F(T) = c * f[x] + c * F(R) /\ d * G(T) = d * g[x] + d * G(R)
    BY <2>2, <2>3
  <2>7. /\ c * f[x] \in Nat /\ c * F(R) \in Nat /\ d * g[x] \in Nat /\ d * G(R) \in Nat
    BY <2>3
  <2>8. c * F(T) <= d * G(T)
    BY <2>4, <2>5, <2>6, <2>7
  <2>9. ASSUME NEW a \in T, c * f[a] < d * g[a]
        PROVE  c * F(T) < d * G(T)
    BY <2>4, <2>5, <2>6, <2>7, <2>9
  <2> QED BY <2>8, <2>9
<1>3. \A T \in SUBSET S : T # {} /\ (\A x \in T : T \ {x} \in U) => T \in U
  BY <1>2
<1>4. \A T \in SUBSET S : T \in U
  <2> HIDE DEF U
  <2> QED BY <1>1, <1>3, SubsetInduction, Zenon
<1> QED BY <1>4

\* One term grows by one.
LEMMA SumIncremented ==
    ASSUME NEW S, IsFiniteSet(S), NEW f, NEW g, NEW b \in S, g[b] = f[b] + 1,
           \A a \in S : f[a] \in Nat /\ (a # b => g[a] = f[a])
    PROVE  SumFunctionOnSet(g, S) = SumFunctionOnSet(f, S) + 1
<1> DEFINE F(T) == SumFunctionOnSet(f, T)
           G(T) == SumFunctionOnSet(g, T)
           U == {T \in SUBSET S : G(T) = F(T) + (IF b \in T THEN 1 ELSE 0)}
<1>1. {} \in U
  BY EmptySum
<1>2. ASSUME NEW T \in SUBSET S, T # {}, \A x \in T : T \ {x} \in U
      PROVE  T \in U
  <2> DEFINE x == Chosen(T)
             R == T \ {x}
  <2>1. IsFiniteSet(T) /\ IsFiniteSet(R) /\ x \in T /\ R \in SUBSET S
    BY <1>2, FS_Subset, ChosenIn
  <2>2. F(T) = f[x] + F(R) /\ G(T) = g[x] + G(R)
    BY <1>2, <2>1, SumUnfolds, Zenon
  <2>3. F(R) \in Nat /\ f[x] \in Nat
    BY <2>1, SumType
  <2>4. G(R) = F(R) + (IF b \in R THEN 1 ELSE 0) /\ (b \in T <=> b = x \/ b \in R)
    BY <1>2, <2>1
  <2>5. g[x] = f[x] + (IF x = b THEN 1 ELSE 0) /\ x \notin R
    BY <2>1
  <2> HIDE DEF F, G, x, R
  <2>6. G(T) = F(T) + (IF b \in T THEN 1 ELSE 0)
    BY <2>2, <2>3, <2>4, <2>5
  <2> QED BY <2>6
<1>3. \A T \in SUBSET S : T # {} /\ (\A x \in T : T \ {x} \in U) => T \in U
  BY <1>2
<1>4. \A T \in SUBSET S : T \in U
  <2> HIDE DEF U
  <2> QED BY <1>1, <1>3, SubsetInduction, Zenon
<1> QED BY <1>4

-----------------------------------------------------------------------------
(* The edge's pool.                                                        *)

\* The connections that count as active on address a.
Users(a) == {c \in Conns : conn[c].m = a /\ conn[c].at \in {"securing", "open"}}

\* The inductive invariant: the counts of all addresses, members or not, since one
\* that comes back in the DNS answer starts from what its entry has.
PoolInv ==
    /\ DOMAIN conn = Conns
    /\ \A c \in Conns : conn[c] = [at |-> conn[c].at, tried |-> conn[c].tried, m |-> conn[c].m]
    /\ active \in [All -> Int] /\ members \subseteq All
    /\ \A a \in All : active[a] = Cardinality(Users(a))

LEMMA UsersFinite == \A a : IsFiniteSet(Users(a))
  BY FS_Subset, PoolConstants DEF Users

LEMMA PoolInitInv == PoolInit => PoolInv
<1> SUFFICES ASSUME PoolInit PROVE PoolInv
  OBVIOUS
<1>1. \A a \in All : Users(a) = {}
  BY DEF PoolInit, NoConn, Users
<1>2. active \in [All -> Int] /\ \A a \in All : active[a] = 0
  BY DEF PoolInit
<1>3. Cardinality({}) = 0
  BY FS_EmptySet
<1>4. DOMAIN conn = Conns /\ \A c \in Conns : conn[c] = NoConn
  BY DEF PoolInit
<1> QED BY <1>1, <1>2, <1>3, <1>4, Zenon DEF PoolInit, PoolInv, NoConn

\* A step of connection c that neither begins nor ends a use.
LEMMA SameUsers ==
    ASSUME PoolInv, NEW c \in Conns, NEW at, NEW tried, NEW m, Set(c, at, tried, m),
           \/ at \notin {"securing", "open"} /\ conn[c].at \notin {"securing", "open"}
           \/ at = "open" /\ conn[c].at = "securing" /\ m = conn[c].m,
           UNCHANGED <<members, active>>
    PROVE  PoolInv'
<1>1. /\ DOMAIN conn' = Conns
      /\ conn'[c] = [at |-> at, tried |-> tried, m |-> m]
      /\ \A d \in Conns \ {c} : conn'[d] = conn[d]
  BY DEF PoolInv, Set
<1>2. \A a : Users(a)' = Users(a)
  BY <1>1 DEF Users
<1> QED BY <1>1, <1>2 DEF PoolInv

\* Connection c begins or ends its use of member m.
LEMMA CountedUse ==
    ASSUME PoolInv, NEW c \in Conns, NEW at, NEW tried, NEW m, NEW n \in {-1, 1},
           Set(c, at, tried, m), Count(conn[c].m, n), UNCHANGED members,
           n = 1 => at \in {"securing", "open"} /\ conn[c].at \notin {"securing", "open"}
                    /\ m = conn[c].m,
           n = -1 => at \notin {"securing", "open"} /\ conn[c].at \in {"securing", "open"}
    PROVE  PoolInv'
<1>1. /\ DOMAIN conn' = Conns
      /\ conn'[c] = [at |-> at, tried |-> tried, m |-> m]
      /\ \A d \in Conns \ {c} : conn'[d] = conn[d]
  BY DEF PoolInv, Set
<1>2. active' \in [All -> Int]
  BY DEF PoolInv, Count
<1>3. ASSUME NEW a \in All
      PROVE  active'[a] = Cardinality(Users(a)')
  <2>1. active[a] = Cardinality(Users(a)) /\ active[a] \in Int /\ IsFiniteSet(Users(a))
    BY UsersFinite DEF PoolInv
  <2>2. CASE conn[c].m # a
    <3>1. Users(a)' = Users(a)
      BY <1>1, <2>2 DEF Users
    <3>2. active'[a] = active[a]
      BY <2>2 DEF PoolInv, Count
    <3> QED BY <2>1, <3>1, <3>2
  <2>3. CASE conn[c].m = a /\ n = 1
    <3>1. Users(a)' = Users(a) \cup {c} /\ c \notin Users(a)
      BY <1>1, <2>3 DEF Users
    <3>2. active'[a] = active[a] + 1
      BY <2>3 DEF PoolInv, Count
    <3>3. Cardinality(Users(a) \cup {c}) = Cardinality(Users(a)) + 1
      BY <2>1, <3>1, FS_AddElement, Zenon
    <3> QED BY <2>1, <3>1, <3>2, <3>3, Zenon
  <2>4. CASE conn[c].m = a /\ n = -1
    <3>1. Users(a)' = Users(a) \ {c} /\ c \in Users(a)
      BY <1>1, <2>4 DEF Users
    <3>2. active'[a] = active[a] - 1
      BY <2>4 DEF PoolInv, Count
    <3>3. Cardinality(Users(a) \ {c}) = Cardinality(Users(a)) - 1
      BY <2>1, <3>1, FS_RemoveElement, Zenon
    <3> QED BY <2>1, <3>1, <3>2, <3>3
  <2> QED BY <2>2, <2>3, <2>4, Zenon
<1> QED BY <1>1, <1>2, <1>3 DEF PoolInv

LEMMA ResolveInv ==
    ASSUME PoolInv, NEW addrs \in SUBSET All, ResolveMembers(addrs)
    PROVE  PoolInv'
<1>1. /\ members' = addrs
      /\ active' = [a \in All |-> IF a \in addrs THEN active[a] ELSE 0]
      /\ conn' = [c \in Conns |-> [conn[c] EXCEPT
            !.m = IF @ \in All \ addrs /\ conn[c].at # "picked" THEN "dropped" ELSE @,
            !.tried = @ \cap addrs]]
  BY Zenon DEF ResolveMembers
<1>2. ASSUME NEW c \in Conns
      PROVE
        /\ conn'[c] = [at |-> conn'[c].at, tried |-> conn'[c].tried, m |-> conn'[c].m]
        /\ conn'[c].at = conn[c].at
        /\ conn'[c].m = IF conn[c].m \in All \ addrs /\ conn[c].at # "picked"
                        THEN "dropped" ELSE conn[c].m
  <2> DEFINE r == conn[c]
             x == IF r.m \in All \ addrs /\ r.at # "picked" THEN "dropped" ELSE r.m
  <2>1. conn'[c] = [r EXCEPT !.m = x, !.tried = r.tried \cap addrs]
    BY <1>1, Zenon
  <2>2. r = [at |-> r.at, tried |-> r.tried, m |-> r.m]
    BY DEF PoolInv
  <2> HIDE DEF x
  <2> HIDE DEF r
  <2>3. [r EXCEPT !.m = x] = [at |-> r.at, tried |-> r.tried, m |-> x]
    BY <2>2
  <2>4. conn'[c] = [at |-> r.at, tried |-> r.tried \cap addrs, m |-> x]
    BY <2>1, <2>3, Zenon
  <2> QED BY <2>4 DEF x, r
<1>3. DOMAIN conn' = Conns
  BY <1>1, Zenon
<1>5. active' \in [All -> Int]
  <2>1. \A a \in All : (IF a \in addrs THEN active[a] ELSE 0) \in Int
    BY DEF PoolInv
  <2> QED BY <1>1, <2>1, Zenon
<1>4. ASSUME NEW a \in All
      PROVE  active'[a] = Cardinality(Users(a)')
  <2>1. a # "dropped"
    BY PoolConstants DEF All
  <2>2. CASE a \in addrs
    <3>1. Users(a)' = Users(a)
      BY <1>2, <2>1, <2>2, Zenon DEF Users
    <3> QED BY <1>1, <2>2, <3>1, Zenon DEF PoolInv
  <2>3. CASE a \notin addrs
    <3>1. Users(a)' = {}
      BY <1>2, <2>1, <2>3, Zenon DEF Users
    <3> QED BY <1>1, <2>3, <3>1, FS_EmptySet, Zenon
  <2> QED BY <2>2, <2>3
<1> QED BY <1>1, <1>2, <1>3, <1>4, <1>5, Zenon DEF PoolInv

\* pick leaves the connection idle, or about to dial the member it picked.
LEMMA PickNextInv ==
    ASSUME PoolInv, NEW c \in Conns, conn[c].at \notin {"securing", "open"}, PickNext(c),
           UNCHANGED <<members, active>>
    PROVE  PoolInv'
<1>1. CASE Reset(c)
  <2>1. Set(c, "idle", {}, "none")
    BY <1>1 DEF Reset, Set, NoConn
  <2> QED BY <2>1, SameUsers
<1>2. CASE \E m : Set(c, "dialing", conn[c].tried \cup {m}, m)
  BY <1>2, SameUsers
<1> QED BY <1>1, <1>2, Zenon DEF PickNext

LEMMA PoolStep ==
    ASSUME PoolInv, [PoolNext]_poolVars
    PROVE  PoolInv'
<1>1. ASSUME NEW c \in Conns, DialFrom(c) PROVE PoolInv'
  BY <1>1, PickNextInv DEF DialFrom, ByConn
<1>2. ASSUME NEW c \in Conns, Pick(c) PROVE PoolInv'
  <2>1. PICK m : Set(c, "picked", {}, m)
    BY <1>2 DEF Pick
  <2> QED BY <1>2, <2>1, SameUsers DEF Pick, ByConn
<1>3. ASSUME NEW c \in Conns, DialAddr(c) PROVE PoolInv'
  <2>1. conn[c].at = "picked" /\ UNCHANGED <<members, active>>
    BY <1>3 DEF DialAddr, ByConn
  <2>2. CASE conn[c].m \in members
    BY <1>3, <2>1, <2>2, SameUsers DEF DialAddr
  <2>3. CASE conn[c].m \notin members
    BY <1>3, <2>1, <2>3, PickNextInv, Zenon DEF DialAddr
  <2> QED BY <2>2, <2>3
<1>4. ASSUME NEW c \in Conns, DialFails(c) PROVE PoolInv'
  BY <1>4, SameUsers, Zenon DEF DialFails, ByConn
<1>5. ASSUME NEW c \in Conns, Connected(c) PROVE PoolInv'
  <2>1. PICK at \in {"securing", "open"} : Set(c, at, {}, conn[c].m)
    BY <1>5, Zenon DEF Connected
  <2> QED BY <1>5, <2>1, CountedUse DEF Connected, ByConn
<1>6. ASSUME NEW c \in Conns, Secured(c) PROVE PoolInv'
  BY <1>6, SameUsers, Zenon DEF Secured, ByConn
<1>7. ASSUME NEW c \in Conns, SecureFails(c) \/ CountedClose(c) PROVE PoolInv'
  <2>1. Set(c, "idle", {}, "none") /\ Count(conn[c].m, -1) /\ UNCHANGED members
        /\ conn[c].at \in {"securing", "open"}
    BY <1>7, Zenon DEF SecureFails, CountedClose, Reset, Set, NoConn, ByConn
  <2> QED BY <2>1, CountedUse
<1>8. ASSUME UNCHANGED <<members, active, conn>> PROVE PoolInv'
  BY <1>8 DEF PoolInv, Users
<1>9. CASE CheckAll \/ SecondChance \/ StartCheck \/ EndCheck
  BY <1>8, <1>9 DEF CheckAll, SecondChance, StartCheck, EndCheck, ByLoop
<1>10. CASE \E addrs \in SUBSET All \ {{}} : ResolveMembers(addrs)
  BY <1>10, ResolveInv
<1>11. CASE \E a \in All : Rest(a) \/ Flip(a)
  BY <1>8, <1>11 DEF Rest, Flip, ByLoop
<1>12. CASE UNCHANGED poolVars
  BY <1>8, <1>12 DEF poolVars, memberVars
<1> QED BY <1>1, <1>2, <1>3, <1>4, <1>5, <1>6, <1>7, <1>9, <1>10, <1>11, <1>12, Zenon DEF PoolNext

\* A member's active count is the number of connections open to it, whatever the
\* balancing, the failed handshakes and the DNS refreshes (dialFrom, countedConn,
\* resolveMembers).
THEOREM CountsRight == PoolSpec => []ActiveCounts
<1>1. PoolInv => ActiveCounts
  BY DEF PoolInv, ActiveCounts, Users
<1> QED BY PoolInitInv, PoolStep, <1>1, PTL DEF PoolSpec

(* Smooth weighted round robin.                                            *)

LEMMA AddrsFinite == IsFiniteSet(All) /\ \A a \in All : Position(a) \in Nat
<1>1. DOMAIN Addrs = 1..Len(Addrs) /\ Len(Addrs) \in Nat
  BY PoolConstants
<1>2. Addrs \in Surjection(1..Len(Addrs), All)
  BY <1>1, PoolConstants DEF All, Range, Surjection
<1>3. IsFiniteSet(All)
  BY <1>1, <1>2, FS_Interval, FS_Surjection
<1>4. ASSUME NEW a \in All
      PROVE  Position(a) \in Nat
  <2>1. \E i \in DOMAIN Addrs : Addrs[i] = a
    BY DEF All, Range
  <2>2. Position(a) \in DOMAIN Addrs
    BY <2>1 DEF Position
  <2> QED BY <1>1, <2>2
<1> QED BY <1>3, <1>4

LEMMA WeightsPositive == \A a \in All : Weight[a] \in Nat /\ Weight[a] > 0
<1>1. \A a \in All : Weight[a] \in 1..100
  BY PoolConstants, Zenon DEF All
<1> QED BY <1>1

LEMMA Distributes ==
    ASSUME NEW m \in Nat, NEW n \in Nat
    PROVE  (m + 1) * n = m * n + n /\ m * n = n * m /\ m * n \in Nat
  OBVIOUS

LEMMA ProductGrows ==
    ASSUME NEW m \in Nat, NEW n \in Nat, NEW d \in Nat, m <= n
    PROVE  m * d <= n * d
<1> DEFINE r == n - m
<1>1. r \in Nat /\ n = m + r
  OBVIOUS
<1> HIDE DEF r
<1>2. n * d = m * d + r * d /\ r * d \in Nat /\ m * d \in Nat
  BY <1>1
<1> QED BY <1>2

\* FirstMax finds a greatest value.
LEMMA FirstMaxGreatest ==
    ASSUME NEW D \in SUBSET All, D # {}, NEW val, \A a \in D : val[a] \in Int
    PROVE  FirstMax(D, val) \in D /\ \A b \in D : val[b] <= val[FirstMax(D, val)]
<1> DEFINE beats(a, b) == val[b] < val[a] \/ (val[b] = val[a] /\ Position(a) <= Position(b))
           U == {T \in SUBSET D : T = {} \/ \E a \in T : \A b \in T : beats(a, b)}
<1>1. IsFiniteSet(D) /\ \A a \in D : Position(a) \in Nat
  BY AddrsFinite, FS_Subset
<1>2. {} \in U
  OBVIOUS
<1>3. ASSUME NEW T \in SUBSET D, T # {}, \A x \in T : T \ {x} \in U
      PROVE  T \in U
  <2>1. PICK x \in T : T \ {x} \in U
    BY <1>3
  <2>2. CASE T \ {x} = {}
    <3>1. \A b \in T : beats(x, b)
      BY <1>1, <2>2
    <3> QED BY <3>1
  <2>3. CASE T \ {x} # {}
    <3>1. PICK y \in T \ {x} : \A b \in T \ {x} : beats(y, b)
      BY <2>1, <2>3
    <3>2. CASE beats(x, y)
      <4>1. \A b \in T : beats(x, b)
        BY <1>1, <3>1, <3>2
      <4> QED BY <4>1
    <3>3. CASE ~beats(x, y)
      <4>1. \A b \in T : beats(y, b)
        BY <1>1, <3>1, <3>3
      <4> QED BY <4>1
    <3> QED BY <3>2, <3>3
  <2> QED BY <2>2, <2>3
<1>4. \A T \in SUBSET D : T # {} /\ (\A x \in T : T \ {x} \in U) => T \in U
  BY <1>3, Zenon
<1>5. \A T \in SUBSET D : T \in U
  <2> HIDE DEF U
  <2> QED BY <1>1, <1>2, <1>4, SubsetInduction, Zenon
<1>6. \E a \in D : \A b \in D : beats(a, b)
  BY <1>5
<1>7. FirstMax(D, val) \in D /\ \A b \in D : beats(FirstMax(D, val), b)
  BY <1>6 DEF FirstMax
<1> QED BY <1>7

\* The weights of candidates add up to a positive number.
LEMMA TotalPositive ==
    ASSUME NEW D \in SUBSET All, D # {}
    PROVE  IsFiniteSet(D) /\ Total(D) \in Nat \ {0}
<1>1. IsFiniteSet(D)
  BY AddrsFinite, FS_Subset
<1>2. \A a \in D : Weight[a] \in Nat /\ Weight[a] > 0
  BY WeightsPositive
<1>3. Total(D) \in Nat
  BY <1>1, <1>2, SumType DEF Total
<1>4. 0 * Total(D) < 1 * Total(D)
  BY <1>1, <1>2, SumProportion DEF Total
<1> QED BY <1>1, <1>3, <1>4

\* After so many picks in a balanced round, the counts of the picks fix the current
\* weights, and no member is behind by a whole round.
Balanced(D, count, cur) ==
    LET picks == SumFunctionOnSet(count, D)
    IN  /\ \A a \in D : count[a] \in Nat
        /\ picks <= Total(D)
        /\ \A a \in D : /\ cur[a] = picks * Weight[a] - count[a] * Total(D)
                        /\ cur[a] > -Total(D)

LEMMA FreshBalanced ==
    ASSUME NEW D \in SUBSET All, D # {}, NEW count, NEW cur,
           \A a \in D : count[a] = 0 /\ cur[a] = 0
    PROVE  Balanced(D, count, cur) /\ SumFunctionOnSet(count, D) = 0
<1>1. IsFiniteSet(D) /\ Total(D) \in Nat \ {0}
  BY TotalPositive
<1>2. SumFunctionOnSet(count, D) \in Nat
  BY <1>1, SumType
<1>3. 1 * SumFunctionOnSet(count, D) <= 0 * SumFunctionOnSet(count, D)
  BY <1>1, SumProportion
<1>4. SumFunctionOnSet(count, D) = 0
  BY <1>2, <1>3
<1>5. \A a \in D : Weight[a] \in Nat
  BY WeightsPositive
<1> QED BY <1>1, <1>4, <1>5 DEF Balanced

\* A current weight that a pick leaves at most 0, as a bound on the picks.
LEMMA OwedNothing ==
    ASSUME NEW p \in Int, NEW q \in Int, NEW w \in Nat, p - q + w <= 0
    PROVE  p + w <= q
  OBVIOUS

\* The member that smoothRoundRobin picks is owed something: were none, the members
\* would have had more picks than there were.
LEMMA PickedIsOwed ==
    ASSUME NEW D \in SUBSET All, D # {}, NEW count, NEW cur, Balanced(D, count, cur),
           NEW best \in D, \A b \in D : cur[b] + Weight[b] <= cur[best] + Weight[best]
    PROVE  cur[best] + Weight[best] > 0
<1> DEFINE N == Total(D)
           k == SumFunctionOnSet(count, D)
<1>1. IsFiniteSet(D) /\ N \in Nat \ {0} /\ k \in Nat
  BY TotalPositive, SumType, Zenon DEF Balanced
<1>2. \A a \in D : Weight[a] \in Nat /\ count[a] \in Nat /\ cur[a] = k * Weight[a] - count[a] * N
  BY WeightsPositive DEF Balanced
<1> SUFFICES ASSUME cur[best] + Weight[best] <= 0 PROVE FALSE
  BY <1>1, <1>2
<1>3. ASSUME NEW a \in D
      PROVE  (k + 1) * Weight[a] <= N * count[a]
  <2> HIDE DEF N, k
  <2>1. k * Weight[a] \in Int /\ count[a] * N \in Int /\ cur[a] \in Int /\ cur[best] \in Int
    BY <1>1, <1>2, Distributes
  <2>2. k * Weight[a] - count[a] * N + Weight[a] <= 0
    BY <1>2, <2>1
  <2>3. (k + 1) * Weight[a] = k * Weight[a] + Weight[a] /\ N * count[a] = count[a] * N
    BY <1>1, <1>2, Distributes, Zenon
  <2>4. k * Weight[a] + Weight[a] <= count[a] * N
    BY <1>2, <2>1, <2>2, OwedNothing, Zenon
  <2> QED BY <2>3, <2>4, Zenon
<1>4. k + 1 \in Nat
  BY <1>1
<1>5. (k + 1) * N <= N * k
  BY <1>1, <1>2, <1>3, <1>4, SumProportion, Zenon DEF Total
<1> HIDE DEF N, k
<1> QED BY <1>1, <1>5

\* What a pick adds to a member's account, with and without the pick.
PickAccount(k, w, c, n, u) ==
    /\ c + 1 \in Nat /\ c + 0 = c
    /\ u + w - 0 = u + w
    /\ u + w = (k + 1) * w - c * n
    /\ u + w > -n
    /\ u + w - n = (k + 1) * w - (c + 1) * n
    /\ u + w > 0 => u + w - n > -n

LEMMA OnePick ==
    ASSUME NEW k \in Nat, NEW w \in Nat, w > 0, NEW c \in Nat, NEW n \in Nat, NEW u,
           u = k * w - c * n, u > -n
    PROVE  PickAccount(k, w, c, n, u)
<1>1. k * w \in Nat /\ c * n \in Nat /\ (k + 1) * w = k * w + w /\ (c + 1) * n = c * n + n
  BY Distributes, Zenon
<1> QED BY <1>1 DEF PickAccount

\* The books of a round before and after its next pick, of a member with the
\* greatest current weight.
PickedNext(D, count, cur, best, count2, cur2) ==
    /\ Balanced(D, count, cur) /\ SumFunctionOnSet(count, D) < Total(D)
    /\ best \in D /\ \A b \in D : cur[b] + Weight[b] <= cur[best] + Weight[best]
    /\ \A a \in D : count2[a] = count[a] + (IF a = best THEN 1 ELSE 0)
    /\ \A a \in D : cur2[a] = cur[a] + Weight[a] - (IF a = best THEN Total(D) ELSE 0)

LEMMA PickBalances ==
    ASSUME NEW D \in SUBSET All, D # {}, NEW count, NEW cur, NEW best, NEW count2, NEW cur2,
           PickedNext(D, count, cur, best, count2, cur2)
    PROVE  Balanced(D, count2, cur2)
<1>0. /\ Balanced(D, count, cur) /\ SumFunctionOnSet(count, D) < Total(D)
      /\ best \in D /\ \A b \in D : cur[b] + Weight[b] <= cur[best] + Weight[best]
      /\ \A a \in D : count2[a] = count[a] + (IF a = best THEN 1 ELSE 0)
      /\ \A a \in D : cur2[a] = cur[a] + Weight[a] - (IF a = best THEN Total(D) ELSE 0)
  BY Zenon DEF PickedNext
<1> DEFINE N == Total(D)
           k == SumFunctionOnSet(count, D)
<1>1. IsFiniteSet(D) /\ N \in Nat \ {0} /\ k \in Nat /\ k < N
  BY <1>0, TotalPositive, SumType, Zenon DEF Balanced
<1>2. \A a \in D : /\ Weight[a] \in Nat /\ Weight[a] > 0 /\ count[a] \in Nat
                   /\ cur[a] = k * Weight[a] - count[a] * N /\ cur[a] > -N
  BY <1>0, WeightsPositive, Zenon DEF Balanced
<1>3. SumFunctionOnSet(count2, D) = k + 1
  <2>1. count2[best] = count[best] + 1 /\ \A a \in D : a # best => count2[a] = count[a]
    BY <1>0, <1>2
  <2> QED BY <1>0, <1>1, <1>2, <2>1, SumIncremented, Zenon
<1>4. cur[best] + Weight[best] > 0
  BY <1>0, PickedIsOwed, Zenon
<1>5. ASSUME NEW a \in D
      PROVE  /\ count2[a] \in Nat
             /\ cur2[a] = (k + 1) * Weight[a] - count2[a] * N /\ cur2[a] > -N
  <2> HIDE DEF N, k
  <2>1. /\ count[a] + 1 \in Nat /\ count[a] + 0 = count[a]
        /\ cur[a] + Weight[a] - 0 = cur[a] + Weight[a]
        /\ cur[a] + Weight[a] = (k + 1) * Weight[a] - count[a] * N
        /\ cur[a] + Weight[a] > -N
        /\ cur[a] + Weight[a] - N = (k + 1) * Weight[a] - (count[a] + 1) * N
        /\ cur[a] + Weight[a] > 0 => cur[a] + Weight[a] - N > -N
    <3>1. /\ k \in Nat /\ N \in Nat /\ Weight[a] \in Nat /\ Weight[a] > 0 /\ count[a] \in Nat
          /\ cur[a] = k * Weight[a] - count[a] * N /\ cur[a] > -N
      BY <1>1, <1>2, Zenon
    <3>2. PickAccount(k, Weight[a], count[a], N, cur[a])
      BY <3>1, OnePick, Zenon
    <3> QED BY <3>2, Zenon DEF PickAccount
  <2>2. CASE a = best
    <3>1. count2[a] = count[a] + 1 /\ cur2[a] = cur[a] + Weight[a] - N
      BY <1>0, <2>2, Zenon DEF N
    <3> QED BY <1>4, <2>1, <2>2, <3>1, Zenon
  <2>3. CASE a # best
    <3>1. count2[a] = count[a] + 0 /\ cur2[a] = cur[a] + Weight[a] - 0
      BY <1>0, <2>3, Zenon
    <3>2. count[a] \in Nat
      BY <1>2
    <3> QED BY <2>1, <3>1, <3>2, Zenon
  <2> QED BY <2>2, <2>3, Zenon
<1> HIDE DEF N, k
<1> QED BY <1>1, <1>3, <1>5 DEF Balanced, N

\* The inductive invariant: a round that began balanced stays so.
ShareInv ==
    /\ current \in [All -> Int]
    /\ members \subseteq All
    /\ even /\ share # <<>> => /\ DOMAIN share \in SUBSET All /\ DOMAIN share # {}
                               /\ share \in [DOMAIN share -> Nat]
                               /\ Balanced(DOMAIN share, share, current)

LEMMA PickEffectShare ==
    ASSUME ShareInv, UNCHANGED members, NEW cands \in SUBSET All, cands # {},
           NEW m \in Picks(cands), PickEffect(cands, m)
    PROVE  ShareInv'
<1>1. CASE fwd.lb # "ROUND_ROBIN"
  BY <1>1, Zenon DEF PickEffect, ShareInv
<1>2. CASE fwd.lb = "ROUND_ROBIN"
  <2> DEFINE sum == [a \in cands |-> current[a] + Weight[a]]
             count == [a \in cands |-> IF InRound(cands) THEN share[a] ELSE 0]
  <2>1. m = FirstMax(cands, sum)
    BY <1>2 DEF Picks, SmoothRoundRobin
  <2>2. /\ \A a \in cands : current[a] \in Int /\ Weight[a] \in Nat
        /\ \A a \in All : Weight[a] \in Nat
    BY WeightsPositive, Zenon DEF ShareInv
  <2>3. m \in cands /\ \A b \in cands : current[b] + Weight[b] <= current[m] + Weight[m]
    <3>1. \A a \in cands : sum[a] \in Int
      BY <2>2
    <3>2. m \in cands /\ \A b \in cands : sum[b] <= sum[m]
      <4> HIDE DEF sum
      <4> QED BY <2>1, <3>1, FirstMaxGreatest, Zenon
    <3> QED BY <3>2
  <2>4. /\ current' = [a \in All |-> current[a] + (IF a \in cands THEN Weight[a] ELSE 0)
                                                - (IF a = m THEN Total(cands) ELSE 0)]
        /\ share' = [a \in cands |-> (IF InRound(cands) THEN share[a] ELSE 0)
                                      + (IF a = m THEN 1 ELSE 0)]
        /\ even' = IF InRound(cands) THEN even ELSE \A a \in cands : current[a] = 0
    BY <1>2, Zenon DEF PickEffect
  <2>5. Total(cands) \in Nat \ {0}
    BY TotalPositive
  <2>6. current' \in [All -> Int]
    BY <2>2, <2>4, <2>5 DEF ShareInv
  <2>7. ASSUME even'
        PROVE  Balanced(cands, count, current) /\ SumFunctionOnSet(count, cands) < Total(cands)
    <3>1. CASE InRound(cands)
      <4>1. DOMAIN share = cands /\ SumFunctionOnSet(share, cands) < Total(cands)
        BY <3>1, Zenon DEF InRound, SumFunction
      <4>2. even /\ share # <<>>
        BY <2>4, <2>7, <3>1, <4>1
      <4>3. Balanced(cands, share, current) /\ share \in [cands -> Nat]
        BY <4>1, <4>2 DEF ShareInv
      <4>4. share = count
        BY <3>1, <4>1, <4>3, Zenon
      <4> QED BY <4>1, <4>3, <4>4
    <3>2. CASE ~InRound(cands)
      <4>1. \A a \in cands : count[a] = 0 /\ current[a] = 0
        BY <2>4, <2>7, <3>2, Zenon
      <4>2. Balanced(cands, count, current) /\ SumFunctionOnSet(count, cands) = 0
        <5> HIDE DEF count
        <5> QED BY <4>1, FreshBalanced, Zenon
      <4> QED BY <2>5, <4>2
    <3> QED BY <3>1, <3>2
  <2>8. /\ \A a \in cands : share'[a] = count[a] + (IF a = m THEN 1 ELSE 0)
        /\ \A a \in cands : current'[a] = current[a] + Weight[a] - (IF a = m THEN Total(cands) ELSE 0)
        /\ DOMAIN share' = cands
    BY <2>4, ZenonT(30)
  <2>9. even' => Balanced(cands, share', current') /\ share' \in [cands -> Nat]
    <3>1. even' => \A a \in cands : count[a] \in Nat
      BY <2>7, Zenon DEF Balanced
    <3>2. share' = [a \in cands |-> count[a] + (IF a = m THEN 1 ELSE 0)]
      BY <2>4
    <3>3. even' => share' \in [cands -> Nat]
      <4> HIDE DEF count
      <4> QED BY <3>1, <3>2
    <3> HIDE DEF count
    <3>4. ASSUME even' PROVE Balanced(cands, share', current')
      <4>1. Balanced(cands, count, current) /\ SumFunctionOnSet(count, cands) < Total(cands)
        BY <2>7, <3>4, Zenon
      <4>2. PickedNext(cands, count, current, m, share', current')
        BY <2>3, <2>8, <4>1, Zenon DEF PickedNext
      <4> QED BY <4>2, PickBalances, Zenon
    <3> QED BY <3>3, <3>4, Zenon
  <2> QED BY <2>6, <2>8, <2>9 DEF ShareInv, Balanced, Total
<1> QED BY <1>1, <1>2

LEMMA PickNextShare ==
    ASSUME ShareInv, NEW c \in Conns, PickNext(c), UNCHANGED members
    PROVE  ShareInv'
<1> DEFINE cands == Candidates(conn[c].tried)
<1>1. cands \in SUBSET All
  BY DEF Candidates, ShareInv
<1>2. \/ UNCHANGED <<current, share, even>>
      \/ cands # {} /\ \E m \in Picks(cands) : PickEffect(cands, m)
  BY Zenon DEF PickNext
<1>3. CASE UNCHANGED <<current, share, even>>
  BY <1>3 DEF ShareInv, Balanced
<1>4. CASE cands # {} /\ \E m \in Picks(cands) : PickEffect(cands, m)
  <2> HIDE DEF cands
  <2> QED BY <1>1, <1>4, PickEffectShare
<1> QED BY <1>2, <1>3, <1>4

\* A member that is resolved anew ends the round.
LEMMA ResolveShare ==
    ASSUME ShareInv, NEW addrs \in SUBSET All, ResolveMembers(addrs)
    PROVE  ShareInv'
<1>1. /\ members' = addrs /\ even' = even
      /\ current' = [a \in All |-> IF a \in addrs \ members THEN 0 ELSE current[a]]
      /\ share' = IF addrs \subseteq members THEN share ELSE <<>>
  BY Zenon DEF ResolveMembers
<1>2. current' \in [All -> Int]
  BY <1>1 DEF ShareInv
<1>3. CASE addrs \subseteq members
  <2>1. share' = share /\ \A a \in All : current'[a] = current[a]
    BY <1>1, <1>3
  <2>2. current' = current
    BY <1>2, <2>1 DEF ShareInv
  <2> QED BY <1>1, <1>2, <2>1, <2>2, Zenon DEF ShareInv, Balanced
<1>4. CASE ~(addrs \subseteq members)
  BY <1>1, <1>2, <1>4, Zenon DEF ShareInv
<1> QED BY <1>3, <1>4

LEMMA ShareStep == ShareInv /\ [PoolNext]_poolVars => ShareInv'
<1> SUFFICES ASSUME ShareInv, [PoolNext]_poolVars PROVE ShareInv'
  BY Zenon
<1>1. CASE \E c \in Conns : DialFrom(c)
  BY <1>1, PickNextShare DEF DialFrom, ByConn
<1>2. CASE \E c \in Conns : Pick(c)
  <2>1. Candidates({}) \in SUBSET All
    BY Zenon DEF Candidates, ShareInv
  <2>2. UNCHANGED members /\ Candidates({}) # {}
    BY <1>2, Zenon DEF Pick, ByConn
  <2>3. PICK m \in Picks(Candidates({})) : PickEffect(Candidates({}), m)
    BY <1>2, Zenon DEF Pick
  <2> QED BY <2>1, <2>2, <2>3, PickEffectShare
<1>3. CASE \E c \in Conns : DialAddr(c)
  <2>1. PICK c \in Conns : DialAddr(c)
    BY <1>3, Zenon
  <2>2. UNCHANGED members
    BY <2>1 DEF DialAddr, ByConn
  <2>3. CASE PickNext(c)
    BY <2>2, <2>3, PickNextShare, Zenon
  <2>4. CASE UNCHANGED <<current, share, even>>
    BY <2>2, <2>4, Zenon DEF ShareInv, Balanced
  <2> QED BY <2>1, <2>3, <2>4 DEF DialAddr
<1>4. CASE \E addrs \in SUBSET All \ {{}} : ResolveMembers(addrs)
  BY <1>4, ResolveShare
<1>5. CASE UNCHANGED <<members, current, share, even>>
  BY <1>5 DEF ShareInv, Balanced
<1>6. CASE \/ \E c \in Conns : \/ DialFails(c) \/ Connected(c) \/ Secured(c)
                               \/ SecureFails(c) \/ CountedClose(c)
           \/ CheckAll \/ SecondChance \/ StartCheck \/ EndCheck
           \/ \E a \in All : Rest(a) \/ Flip(a)
  BY <1>5, <1>6, Zenon DEF DialFails, Connected, Secured, SecureFails, CountedClose, CheckAll,
        SecondChance, StartCheck, EndCheck, Rest, Flip, ByConn, ByLoop
<1>7. CASE UNCHANGED poolVars
  BY <1>5, <1>7, Zenon DEF poolVars, memberVars
<1> QED BY <1>1, <1>2, <1>3, <1>4, <1>6, <1>7, Zenon DEF PoolNext

\* A full round gave nobody more than its weight, and so everybody exactly that.
LEMMA BalancedShare == ShareInv => RoundRobinShare
<1> SUFFICES ASSUME ShareInv, even, share # <<>>, SumFunction(share) = Total(DOMAIN share),
                    NEW a \in DOMAIN share
             PROVE  share[a] = Weight[a]
  BY DEF RoundRobinShare
<1> DEFINE D == DOMAIN share
           N == Total(D)
<1>1. /\ D \in SUBSET All /\ D # {} /\ Balanced(D, share, current)
      /\ SumFunctionOnSet(share, D) = N
  BY DEF ShareInv, SumFunction
<1>2. IsFiniteSet(D) /\ N \in Nat \ {0}
  BY <1>1, TotalPositive, Zenon
<1>3. ASSUME NEW b \in D
      PROVE  share[b] \in Nat /\ Weight[b] \in Nat /\ 1 * share[b] <= 1 * Weight[b]
  <2>1. share[b] \in Nat /\ Weight[b] \in Nat /\ N * Weight[b] - share[b] * N > -N
    BY <1>1, WeightsPositive, Zenon DEF Balanced
  <2> HIDE DEF N
  <2>2. share[b] < Weight[b] + 1
    <3>1. N * Weight[b] = Weight[b] * N /\ (Weight[b] + 1) * N = Weight[b] * N + N
      BY <1>2, <2>1, Distributes, Zenon
    <3> DEFINE w == Weight[b] + 1
    <3>2. share[b] * N < w * N /\ w \in Nat
      BY <1>2, <2>1, <3>1, Distributes
    <3> HIDE DEF w
    <3>3. w <= share[b] => w * N <= share[b] * N
      BY <1>2, <2>1, <3>2, ProductGrows, Zenon
    <3>4. share[b] * N \in Nat /\ w * N \in Nat
      BY <1>2, <2>1, <3>2, Distributes, Zenon
    <3>5. ~(w <= share[b])
      BY <3>2, <3>3, <3>4
    <3> QED BY <2>1, <3>5 DEF w
  <2> QED BY <2>1, <2>2
<1>4. SumFunctionOnSet(share, D) \in Nat /\ SumFunctionOnSet(Weight, D) = N
  BY <1>1, <1>2, Zenon DEF Total
<1>5. ~(1 * share[a] < 1 * Weight[a])
  <2>1. 1 * share[a] < 1 * Weight[a] => 1 * SumFunctionOnSet(share, D) < 1 * SumFunctionOnSet(Weight, D)
    BY <1>2, <1>3, SumProportion, Zenon
  <2> QED BY <1>1, <1>2, <1>4, <2>1
<1> QED BY <1>3, <1>5

LEMMA ShareInitInv == PoolInit => ShareInv
  BY DEF PoolInit, ShareInv

\* Weighted round robin gives each candidate exactly its weight in every full round
\* that began balanced, for any members and weights and however many connections
\* pick, fail and retry meanwhile (smoothRoundRobin).
THEOREM RoundRobinIsFair == PoolSpec => []RoundRobinShare
<1>1. ShareInv /\ [PoolNext]_poolVars => ShareInv'
  BY ShareStep
<1> QED BY <1>1, ShareInitInv, BalancedShare, PTL DEF PoolSpec

-----------------------------------------------------------------------------

(* The stored domains.                                                     *)

\* What validating every write gives: within a row no two forwards overlap or share
\* an ID, and rows share a port only where both tell connections apart by name.
Consistent(S) ==
    /\ DOMAIN S = Domains
    /\ \A d \in Rows(S) : \A a \in S[d].fwds : a.port \in Nat /\ a.end \in Nat
    /\ \A d \in Rows(S) : \A a, b \in S[d].fwds : a # b => ~Overlap(a, b) /\ a.id # b.id
    /\ \A d, o \in Rows(S) : d # o =>
         \A a \in S[d].fwds, b \in S[o].fwds : Overlap(a, b) => a.proto = b.proto /\ a.proto # "TCP"

LEMMA OverlapSymmetric ==
    ASSUME NEW a, NEW b
    PROVE  Overlap(a, b) <=> Overlap(b, a)
  BY DEF Overlap

\* Forwards on the same port overlap.
LEMMA SharedPort ==
    ASSUME NEW a, NEW b, NEW p, a.port \in Nat, a.end \in Nat, b.port \in Nat, b.end \in Nat,
           p \in PortsOf(a), p \in PortsOf(b)
    PROVE  Overlap(a, b)
<1>1. EndOf(a) \in Nat /\ EndOf(b) \in Nat
  BY DEF EndOf
<1>2. a.port <= p /\ p <= EndOf(a) /\ b.port <= p /\ p <= EndOf(b) /\ p \in Int
  BY <1>1 DEF PortsOf
<1> QED BY <1>1, <1>2 DEF Overlap

LEMMA NoDomainsConsistent ==
    Consistent(NoDomains) /\ Rows(NoDomains) = {} /\ Enabled(NoDomains) = {}
<1>1. DOMAIN NoDomains = Domains /\ Rows(NoDomains) = {}
  BY DEF NoDomains, Rows
<1> QED BY <1>1 DEF Consistent, Enabled

\* A stored row is replaced by one that fits the others, or dropped.
LEMMA RowReplaced ==
    ASSUME NEW S, Consistent(S), NEW d \in Domains, NEW row,
           \A a \in row.fwds : a.port \in Nat /\ a.end \in Nat,
           \A a, b \in row.fwds : a # b => ~Overlap(a, b) /\ a.id # b.id,
           \A o \in Rows(S) \ {d} : \A a \in row.fwds, b \in S[o].fwds :
             Overlap(a, b) => a.proto = b.proto /\ a.proto # "TCP"
    PROVE  Consistent([S EXCEPT ![d] = row])
<1> DEFINE T == [S EXCEPT ![d] = row]
<1>1. DOMAIN S = Domains
  BY DEF Consistent
<1>2. DOMAIN T = Domains /\ T[d] = row /\ \A e \in Domains \ {d} : T[e] = S[e]
  BY <1>1, Zenon
<1> HIDE DEF T
<1>3. Rows(T) \subseteq Rows(S) \cup {d} /\ \A e \in Rows(T) \ {d} : e \in Rows(S) /\ T[e] = S[e]
  BY <1>2, Zenon DEF Rows
<1>4. ASSUME NEW e \in Rows(T), NEW o \in Rows(T), e # o,
             NEW a \in T[e].fwds, NEW b \in T[o].fwds, Overlap(a, b)
      PROVE  a.proto = b.proto /\ a.proto # "TCP"
  <2>1. CASE e # d /\ o # d
    <3>1. e \in Rows(S) /\ T[e] = S[e] /\ o \in Rows(S) /\ T[o] = S[o]
      BY <1>3, <2>1, Zenon
    <3>2. a \in S[e].fwds /\ b \in S[o].fwds
      BY <3>1, Zenon
    <3> QED BY <1>4, <3>1, <3>2, ZenonT(30) DEF Consistent
  <2>2. CASE e = d
    <3>1. a \in row.fwds /\ o \in Rows(S) \ {d} /\ b \in S[o].fwds
      BY <1>2, <1>3, <1>4, <2>2
    <3> QED BY <1>4, <3>1, Zenon
  <2>3. CASE o = d
    <3>1. b \in row.fwds /\ e \in Rows(S) \ {d} /\ a \in S[e].fwds
      BY <1>2, <1>3, <1>4, <2>3, Zenon
    <3>2. Overlap(b, a)
      BY <1>4, OverlapSymmetric, Zenon
    <3>3. b.proto = a.proto /\ b.proto # "TCP"
      BY <3>1, <3>2, Zenon
    <3> QED BY <3>3, Zenon
  <2> QED BY <2>1, <2>2, <2>3, Zenon
<1>5. \A e \in Rows(T) : \A a \in T[e].fwds : a.port \in Nat /\ a.end \in Nat
  BY <1>2, <1>3, Zenon DEF Consistent
<1>6. ASSUME NEW e \in Rows(T)
      PROVE  \A a, b \in T[e].fwds : a # b => ~Overlap(a, b) /\ a.id # b.id
  <2>1. CASE e = d
    BY <1>2, <2>1
  <2>2. CASE e # d
    <3>1. e \in Rows(S) /\ T[e] = S[e]
      BY <1>3, <2>2
    <3> QED BY <3>1, Zenon DEF Consistent
  <2> QED BY <2>1, <2>2, Zenon
<1>7. Consistent(T)
  BY <1>2, <1>4, <1>5, <1>6, Zenon DEF Consistent
<1> QED BY <1>7, Zenon DEF T

LEMMA RowDropped ==
    ASSUME NEW S, Consistent(S), NEW d \in Domains
    PROVE  Consistent([S EXCEPT ![d] = None])
<1> DEFINE T == [S EXCEPT ![d] = None]
<1>1. DOMAIN S = Domains
  BY DEF Consistent
<1>2. DOMAIN T = Domains /\ T[d] = None /\ \A e \in Domains \ {d} : T[e] = S[e]
  BY <1>1
<1> HIDE DEF T
<1>3. \A e \in Rows(T) : e \in Rows(S) /\ T[e] = S[e]
  BY <1>2, Zenon DEF Rows
<1>4. ASSUME NEW e \in Rows(T)
      PROVE  /\ \A a \in T[e].fwds : a.port \in Nat /\ a.end \in Nat
             /\ \A a, b \in T[e].fwds : a # b => ~Overlap(a, b) /\ a.id # b.id
             /\ \A o \in Rows(T) : e # o => \A a \in T[e].fwds, b \in T[o].fwds :
                  Overlap(a, b) => a.proto = b.proto /\ a.proto # "TCP"
  <2>1. e \in Rows(S) /\ T[e] = S[e]
    BY <1>3
  <2>2. ASSUME NEW o \in Rows(T), e # o
        PROVE  \A a \in T[e].fwds, b \in T[o].fwds :
                 Overlap(a, b) => a.proto = b.proto /\ a.proto # "TCP"
    <3>1. o \in Rows(S) /\ T[o] = S[o]
      BY <1>3
    <3> QED BY <2>1, <2>2, <3>1, ZenonT(30) DEF Consistent
  <2>3. \A a \in S[e].fwds : a.port \in Nat /\ a.end \in Nat
    BY <2>1, Zenon DEF Consistent
  <2>4. \A a, b \in S[e].fwds : a # b => ~Overlap(a, b) /\ a.id # b.id
    BY <2>1, Zenon DEF Consistent
  <2> QED BY <2>1, <2>2, <2>3, <2>4, Zenon
<1>5. Consistent(T)
  BY <1>2, <1>4, Zenon DEF Consistent
<1> QED BY <1>5, Zenon DEF T

LEMMA BaseFits ==
    /\ \A a \in Base.fwds : a.port \in Nat /\ a.end \in Nat
    /\ \A a, b \in Base.fwds : a # b => ~Overlap(a, b) /\ a.id # b.id
  BY EdgeConstants, ForwardConstants, Zenon DEF Base

LEMMA BootstrapConsistent == Consistent(Bootstrap)
<1>1. Rows(NoDomains) \ {BaseRow} = {}
  BY NoDomainsConsistent
<1> QED BY <1>1, BaseFits, NoDomainsConsistent, RowReplaced, EdgeConstants, Zenon DEF Bootstrap

\* What the service stores for a client has numbers for ports and IDs of its own.
LEMMA PreparedFits ==
    ASSUME NEW d \in Sites, NEW draft \in Drafts[d]
    PROVE  /\ \A a \in Prepared(draft).fwds : a.port \in Nat /\ a.end \in Nat
           /\ \A a, b \in Prepared(draft).fwds : a # b => a.id # b.id
<1>1. CASE draft.kind = "BASE"
  <2>1. Prepared(draft).fwds = BaseForwards
    BY <1>1, EdgeConstants, Zenon DEF Prepared
  <2> QED BY <2>1, EdgeConstants, ForwardConstants, Zenon
<1>2. CASE draft.kind # "BASE"
  <2>1. Prepared(draft).fwds = {Defaulted(f) : f \in draft.fwds}
    BY <1>2, EdgeConstants DEF Prepared
  <2>2. ASSUME NEW f \in draft.fwds
        PROVE  Defaulted(f).port \in Nat /\ Defaulted(f).end \in Nat
    BY EdgeConstants DEF Defaulted
  <2> QED BY <2>1, <2>2, ForwardConstants
<1> QED BY <1>1, <1>2, Zenon

LEMMA StoredConsistent ==
    ASSUME Consistent(stored),
           \/ \E d \in Sites : \E draft \in Drafts[d] : Write(d, draft)
           \/ \E d \in Domains : Delete(d)
           \/ EnsureTunnelBase
    PROVE  Consistent(stored)'
<1>1. ASSUME NEW d \in Sites, NEW draft \in Drafts[d], Write(d, draft)
      PROVE  Consistent(stored)'
  <2> DEFINE row == Prepared(draft)
  <2>1. ValidateDomain(d, row, stored) /\ stored' = [stored EXCEPT ![d] = row] /\ d \in Domains
    BY <1>1, Zenon DEF Write, Sites
  <2>2. CheckPortConflicts(d, row, stored)
    BY <2>1, Zenon DEF ValidateDomain
  <2>3. /\ \A a \in row.fwds : a.port \in Nat /\ a.end \in Nat
        /\ \A a, b \in row.fwds : a # b => a.id # b.id
    BY PreparedFits
  <2> HIDE DEF row
  <2>4. Consistent([stored EXCEPT ![d] = row])
    BY <2>1, <2>2, <2>3, RowReplaced, Zenon DEF CheckPortConflicts
  <2> QED BY <2>1, <2>4
<1>2. ASSUME NEW d \in Domains, Delete(d)
      PROVE  Consistent(stored)'
  BY <1>2, RowDropped, Zenon DEF Delete
<1>3. ASSUME EnsureTunnelBase
      PROVE  Consistent(stored)'
  <2>1. CheckPortConflicts(BaseRow, Base, stored) /\ stored' = [stored EXCEPT ![BaseRow] = Base]
    BY <1>3, Zenon DEF EnsureTunnelBase, ValidateDomain
  <2>2. Consistent([stored EXCEPT ![BaseRow] = Base])
    BY <2>1, BaseFits, RowReplaced, EdgeConstants, Zenon DEF CheckPortConflicts
  <2> QED BY <2>1, <2>2
<1> QED BY <1>1, <1>2, <1>3, Zenon

-------------------------------------------------------------------------------
(* Apply.                                                                  *)

LEMMA RoutesOnPort ==
    ASSUME NEW S, NEW p \in PortsIn(S)
    PROVE  RoutesOn(S, p) # {} /\ ProtoOn(S, p) \in {r[2].proto : r \in RoutesOn(S, p)}
<1>1. RoutesOn(S, p) # {}
  BY DEF PortsIn, RoutesOn
<1>2. (CHOOSE r \in RoutesOn(S, p) : TRUE) \in RoutesOn(S, p)
  BY <1>1
<1> QED BY <1>1, <1>2, Zenon DEF ProtoOn

\* What an enabled forward is.
LEMMA EnabledForward ==
    ASSUME NEW S, NEW r \in Enabled(S)
    PROVE  r = <<r[1], r[2]>> /\ r[1] \in Rows(S) /\ r[2] \in S[r[1]].fwds
  BY DEF Enabled

\* The routes of a port speak one protocol, and a TCP port has one.
LEMMA PortUnambiguous ==
    ASSUME NEW S, Consistent(S), NEW p \in PortsIn(S)
    PROVE  /\ \A r \in RoutesOn(S, p) : r[2].proto = ProtoOn(S, p)
           /\ ProtoOn(S, p) = "TCP" => Cardinality(RoutesOn(S, p)) = 1
<1>1. PICK q \in RoutesOn(S, p) : ProtoOn(S, p) = q[2].proto
  BY RoutesOnPort, Zenon
<1>2. ASSUME NEW r \in RoutesOn(S, p), r # q
      PROVE  r[2].proto = q[2].proto /\ q[2].proto # "TCP"
  <2>1. /\ r \in Enabled(S) /\ q \in Enabled(S)
        /\ p \in PortsOf(r[2]) /\ p \in PortsOf(q[2])
    BY DEF RoutesOn
  <2>2. /\ r = <<r[1], r[2]>> /\ r[1] \in Rows(S) /\ r[2] \in S[r[1]].fwds
        /\ q = <<q[1], q[2]>> /\ q[1] \in Rows(S) /\ q[2] \in S[q[1]].fwds
    BY <2>1, EnabledForward, Zenon
  <2>3. r[2].port \in Nat /\ r[2].end \in Nat /\ q[2].port \in Nat /\ q[2].end \in Nat
    BY <2>2 DEF Consistent
  <2>4. Overlap(q[2], r[2])
    BY <2>1, <2>3, SharedPort, Zenon
  <2>5. CASE r[1] = q[1]
    <3>1. r[2] # q[2]
      BY <1>2, <2>2, <2>5, Zenon
    <3> QED BY <2>2, <2>4, <2>5, <3>1, Zenon DEF Consistent
  <2>6. CASE r[1] # q[1]
    BY <2>2, <2>4, <2>6 DEF Consistent
  <2> QED BY <2>5, <2>6, Zenon
<1>3. ASSUME ProtoOn(S, p) = "TCP"
      PROVE  Cardinality(RoutesOn(S, p)) = 1
  <2>1. RoutesOn(S, p) = {q}
    BY <1>1, <1>2, <1>3, Zenon
  <2> QED BY <2>1, FS_Singleton, Zenon
<1> QED BY <1>1, <1>2, <1>3, Zenon

\* Every enabled forward has a pool of its own.
LEMMA PoolPerForward ==
    ASSUME NEW S, Consistent(S)
    PROVE  PoolSet(PoolsFor(S)) = {<<ForwardKey(r), r[2]>> : r \in Enabled(S)}
<1> DEFINE chosen(k) == CHOOSE r \in Enabled(S) : ForwardKey(r) = k
<1>1. DOMAIN PoolsFor(S) = {ForwardKey(r) : r \in Enabled(S)}
      /\ \A k \in DOMAIN PoolsFor(S) : PoolsFor(S)[k] = chosen(k)[2]
  BY DEF PoolsFor
<1>2. ASSUME NEW r \in Enabled(S)
      PROVE  chosen(ForwardKey(r)) = r
  <2> DEFINE q == chosen(ForwardKey(r))
  <2>1. q \in Enabled(S) /\ ForwardKey(q) = ForwardKey(r)
    BY Zenon
  <2> HIDE DEF q
  <2>2. q[1] = r[1] /\ q[2].id = r[2].id
    BY <2>1, Zenon DEF ForwardKey
  <2>3. /\ r = <<r[1], r[2]>> /\ r[1] \in Rows(S) /\ r[2] \in S[r[1]].fwds
        /\ q = <<q[1], q[2]>> /\ q[2] \in S[q[1]].fwds
    BY <2>1, EnabledForward, Zenon
  <2>4. q[2] = r[2]
    BY <2>2, <2>3, Zenon DEF Consistent
  <2>5. q = r
    BY <2>2, <2>3, <2>4
  <2> QED BY <2>5 DEF q
<1> HIDE DEF chosen
<1>3. PoolSet(PoolsFor(S)) = {<<k, chosen(k)[2]>> : k \in {ForwardKey(r) : r \in Enabled(S)}}
  BY <1>1, Zenon DEF PoolSet
<1> QED BY <1>2, <1>3, Zenon

\* The edge is what Apply makes of domains S, but for the ports that are left.
Built(S, left) ==
    /\ DOMAIN listeners \subseteq PortsIn(S) /\ left \subseteq PortsIn(S)
    /\ PortsIn(S) \ left \subseteq DOMAIN listeners
    /\ \A p \in DOMAIN listeners :
         /\ {"proto", "bound", "routes"} \subseteq DOMAIN listeners[p]
         /\ listeners[p].proto = ProtoOn(S, p)
         /\ p \notin left => listeners[p].routes = RoutesOn(S, p)
    /\ pools = PoolsFor(S)
    /\ running = {q \in PoolSet(pools) : q[2].mode # "RELAY"}

\* The inductive invariant: whatever a reload holds was valid, the one inside Apply
\* keeps what it read, and the edge is what it applied last, or is on its way from
\* there to what it applies now.
ConfigInv ==
    /\ Consistent(stored) /\ (cache = None \/ Consistent(cache)) /\ Consistent(applied)
    /\ DOMAIN step = Reloaders /\ DOMAIN snap = Reloaders
    /\ \A r \in Reloaders : Consistent(snap[r])
    /\ lock # None => alive /\ lock \in Reloaders /\ step[lock] \in {"boot", "apply"}
    /\ IF lock = None THEN todo = {} /\ Built(applied, {}) ELSE Built(snap[lock], todo)

LEMMA NothingBuilt ==
    listeners = <<>> /\ pools = <<>> /\ running = {} => Built(NoDomains, {})
<1> SUFFICES ASSUME listeners = <<>>, pools = <<>>, running = {}
             PROVE  Built(NoDomains, {})
  OBVIOUS
<1>1. Enabled(NoDomains) = {} /\ PortsIn(NoDomains) = {}
  BY NoDomainsConsistent, Zenon DEF PortsIn
<1>2. PoolsFor(NoDomains) = <<>> /\ PoolSet(<<>>) = {}
  BY <1>1 DEF PoolsFor, PoolSet
<1>3. DOMAIN listeners = {}
  OBVIOUS
<1> QED BY <1>1, <1>2, <1>3, Zenon DEF Built

LEMMA ConfigInitInv == ConfigInit => ConfigInv
<1> SUFFICES ASSUME ConfigInit PROVE ConfigInv
  OBVIOUS
<1>1. Built(NoDomains, {})
  BY NothingBuilt DEF ConfigInit
<1>2. \A r \in Reloaders : snap[r] \in {Bootstrap, NoDomains}
  BY DEF ConfigInit
<1>3. \A r \in Reloaders : Consistent(snap[r])
  BY <1>2, BootstrapConsistent, NoDomainsConsistent, Zenon
<1> QED BY <1>1, <1>3, BootstrapConsistent, NoDomainsConsistent, Zenon DEF ConfigInit, ConfigInv

\* A step that leaves the edge and what its Apply holds alone.
LEMMA EdgeAlone ==
    ASSUME ConfigInv, UNCHANGED <<lock, todo, pools, running, listeners, applied>>,
           DOMAIN step' = Reloaders, DOMAIN snap' = Reloaders,
           lock # None => alive' /\ step'[lock] = step[lock] /\ snap'[lock] = snap[lock],
           \A r \in Reloaders : Consistent(snap'[r]),
           Consistent(stored)', cache' = None \/ Consistent(cache)'
    PROVE  ConfigInv'
<1>1. CASE lock = None
  BY <1>1, Zenon DEF ConfigInv, Built
<1>2. CASE lock # None
  BY <1>2, Zenon DEF ConfigInv, Built
<1> QED BY <1>1, <1>2

\* Apply replaces the pools and drops the listeners that no longer fit; their routes
\* are still the old ones.
LEMMA ApplyStartInv ==
    ASSUME ConfigInv, NEW r \in Reloaders, ApplyStart(r)
    PROVE  ConfigInv'
<1> DEFINE S == snap[r]
           keep == {p \in DOMAIN listeners \cap PortsIn(S) : listeners[p].proto = ProtoOn(S, p)}
<1>1. /\ lock = None /\ lock' = r /\ step[r] \in {"boot", "apply"} /\ pools' = PoolsFor(S)
      /\ running' = Started(PoolsFor(S), running) /\ todo' = PortsIn(S)
      /\ listeners' = [p \in keep |-> listeners[p]]
      /\ alive /\ UNCHANGED <<alive, stored, cache, applied, step, snap>>
  BY Zenon DEF ApplyStart, Restricted, tableVars, nodeVars
<1>2. Built(applied, {}) /\ Consistent(S) /\ r # None
  BY <1>1, EdgeConstants, Zenon DEF ConfigInv
<1>3. \A p \in keep : /\ p \in DOMAIN listeners /\ p \in PortsIn(S)
                      /\ listeners[p].proto = ProtoOn(S, p)
  BY Zenon
<1> HIDE DEF keep, S
<1>4. running' = {q \in PoolSet(pools') : q[2].mode # "RELAY"}
  <2>1. \A q \in running : q[2].mode # "RELAY"
    BY <1>2, Zenon DEF Built
  <2> QED BY <1>1, <2>1, Zenon DEF Started
<1>5. /\ DOMAIN listeners' = keep /\ keep \subseteq PortsIn(S)
      /\ \A p \in keep : listeners'[p] = listeners[p]
                         /\ {"proto", "bound", "routes"} \subseteq DOMAIN listeners[p]
  BY <1>1, <1>2, <1>3, Zenon DEF Built
<1>6. Built(S, PortsIn(S))'
  <2>1. S' = S
    BY <1>1, Zenon DEF S
  <2> QED BY <1>1, <1>3, <1>4, <1>5, <2>1, Zenon DEF Built
<1>7. Built(snap[lock], todo)'
  <2>1. S' = snap'[r] /\ PortsIn(S)' = todo'
    BY <1>1, Zenon DEF S
  <2> QED BY <1>1, <1>6, <2>1, ZenonT(30) DEF Built, S
<1> QED BY <1>1, <1>2, <1>7, Zenon DEF ConfigInv

\* A listener starts accepting, without routes; its port stays among those left.
LEMMA ListenInv ==
    ASSUME ConfigInv, NEW p, Listen(p)
    PROVE  ConfigInv'
<1> DEFINE S == snap[lock]
           new == [proto |-> ProtoOn(S, p), bound |-> p \notin busy, routes |-> None]
<1>1. /\ p \in todo \ DOMAIN listeners
      /\ listeners' = [q \in DOMAIN listeners \cup {p} |-> IF q = p THEN new ELSE listeners[q]]
      /\ UNCHANGED <<alive, stored, cache, applied, step, snap, lock, todo, pools, running>>
  BY Zenon DEF Listen, With, tableVars, nodeVars
<1>2. lock # None /\ Built(S, todo)
  BY <1>1, Zenon DEF ConfigInv
<1>3. /\ DOMAIN listeners' = DOMAIN listeners \cup {p}
      /\ listeners'[p] = new /\ \A q \in DOMAIN listeners : listeners'[q] = listeners[q]
      /\ new.proto = ProtoOn(S, p) /\ {"proto", "bound", "routes"} \subseteq DOMAIN new
  BY <1>1, Zenon
<1> HIDE DEF new, S
<1>4. S' = S
  BY <1>1 DEF S
<1>5. Built(S, todo)'
  BY <1>1, <1>2, <1>3, <1>4, Zenon DEF Built
<1> QED BY <1>1, <1>2, <1>5, Zenon DEF ConfigInv, S

LEMMA SetRoutesInv ==
    ASSUME ConfigInv, NEW p, SetRoutes(p)
    PROVE  ConfigInv'
<1> DEFINE S == snap[lock]
<1>1. /\ p \in todo \cap DOMAIN listeners /\ todo' = todo \ {p}
      /\ listeners' = [listeners EXCEPT ![p].routes = RoutesOn(S, p)]
      /\ UNCHANGED <<alive, stored, cache, applied, step, snap, lock, pools, running>>
  BY DEF SetRoutes, tableVars, nodeVars
<1>2. lock # None /\ Built(S, todo)
  BY <1>1 DEF ConfigInv
<1>3. /\ DOMAIN listeners' = DOMAIN listeners
      /\ listeners'[p] = [listeners[p] EXCEPT !.routes = RoutesOn(S, p)]
      /\ \A q \in DOMAIN listeners \ {p} : listeners'[q] = listeners[q]
  BY <1>1
<1>4. /\ {"proto", "bound", "routes"} \subseteq DOMAIN listeners'[p]
      /\ listeners'[p].routes = RoutesOn(S, p) /\ listeners'[p].proto = listeners[p].proto
  <2>1. {"proto", "bound", "routes"} \subseteq DOMAIN listeners[p]
    BY <1>1, <1>2 DEF Built
  <2> QED BY <1>3, <2>1
<1> HIDE DEF S
<1>5. S' = S
  BY <1>1 DEF S
<1>6. Built(S, todo)'
  BY <1>1, <1>2, <1>3, <1>4, <1>5, Zenon DEF Built
<1> QED BY <1>1, <1>2, <1>6 DEF ConfigInv, S

\* With no port left, the edge is what Apply makes of the domains.
LEMMA ApplyEndInv ==
    ASSUME ConfigInv, ApplyEnd
    PROVE  ConfigInv'
<1>1. /\ lock # None /\ todo = {} /\ applied' = snap[lock] /\ lock' = None
      /\ snap' = [snap EXCEPT ![lock] = NoDomains]
      /\ step' = [step EXCEPT ![lock] = IF @ = "boot" THEN "fetch" ELSE "idle"]
      /\ UNCHANGED <<stored, cache, todo, pools, running, listeners>>
  BY Zenon DEF ApplyEnd, tableVars
<1>2. Built(snap[lock], {}) /\ Consistent(snap[lock]) /\ lock \in Reloaders
  BY <1>1, Zenon DEF ConfigInv
<1>3. DOMAIN snap' = Reloaders /\ DOMAIN step' = Reloaders
  BY <1>1 DEF ConfigInv
<1>4. \A r \in Reloaders : Consistent(snap'[r])
  <2>1. \A r \in Reloaders : snap'[r] \in {snap[r], NoDomains}
    BY <1>1, Zenon DEF ConfigInv
  <2> QED BY <2>1, NoDomainsConsistent, Zenon DEF ConfigInv
<1>5. Built(applied, {})'
  BY <1>1, <1>2, Zenon DEF Built
<1> QED BY <1>1, <1>2, <1>3, <1>4, <1>5, Zenon DEF ConfigInv

LEMMA StoppedInv ==
    ASSUME ConfigInv, Stopped, UNCHANGED <<stored, cache>>
    PROVE  ConfigInv'
<1>1. /\ lock' = None /\ todo' = {} /\ applied' = NoDomains
      /\ DOMAIN step' = Reloaders /\ DOMAIN snap' = Reloaders
      /\ \A r \in Reloaders : snap'[r] = NoDomains
  BY DEF Stopped
<1>2. (listeners = <<>> /\ pools = <<>> /\ running = {})'
  BY DEF Stopped
<1>3. Built(NoDomains, {})'
  BY <1>2, NothingBuilt, PTL
<1>4. NoDomains' = NoDomains
  BY DEF NoDomains
<1>5. Built(applied, {})'
  BY <1>1, <1>3, <1>4, Zenon DEF Built
<1> QED BY <1>1, <1>5, NoDomainsConsistent, Zenon DEF ConfigInv

-----------------------------------------------------------------------------
(* The table and the node: what a reload reads was valid when it was      *)
(* stored, and the reload inside Apply is at no step of theirs.            *)
LEMMA TableStepInv ==
    ASSUME ConfigInv,
           \/ \E d \in Sites : \E draft \in Drafts[d] : Write(d, draft)
           \/ \E d \in Domains : Delete(d)
           \/ EnsureTunnelBase
    PROVE  ConfigInv'
<1>1. Consistent(stored)'
  BY StoredConsistent, Zenon DEF ConfigInv
<1>2. UNCHANGED <<nodeVars, edgeVars>>
  BY DEF Write, Delete, EnsureTunnelBase
<1> QED BY <1>1, <1>2, EdgeAlone, Zenon DEF ConfigInv, nodeVars, edgeVars

LEMMA NodeStepInv ==
    ASSUME ConfigInv, NEW r \in Reloaders, Fetch(r) \/ Keep(r)
    PROVE  ConfigInv'
<1>1. UNCHANGED <<stored, alive, lock, todo, pools, running, listeners, applied>>
  BY Zenon DEF Fetch, Keep, tableVars, edgeVars
<1>2. step[r] \in {"fetch", "fetched"} /\ lock # r
  BY EdgeConstants DEF Fetch, Keep, ConfigInv
<1>3. CASE Fetch(r)
  <2>1. /\ DOMAIN step' = Reloaders /\ DOMAIN snap' = Reloaders /\ UNCHANGED cache
        /\ \A o \in Reloaders \ {r} : step'[o] = step[o] /\ snap'[o] = snap[o]
    BY <1>3, Zenon DEF Fetch, ConfigInv
  <2>2. snap'[r] \in {snap[r], stored} \/ (cache # None /\ snap'[r] = cache)
    BY <1>3, Zenon DEF Fetch, ConfigInv
  <2>3. \A o \in Reloaders : Consistent(snap'[o])
    BY <2>1, <2>2, Zenon DEF ConfigInv
  <2> QED BY <1>1, <1>2, <2>1, <2>3, EdgeAlone, Zenon DEF ConfigInv
<1>4. CASE Keep(r)
  <2>1. /\ DOMAIN step' = Reloaders /\ UNCHANGED snap /\ cache' = snap[r]
        /\ \A o \in Reloaders \ {r} : step'[o] = step[o]
    BY <1>4, Zenon DEF Keep, SaveCache, ConfigInv
  <2> QED BY <1>1, <1>2, <2>1, EdgeAlone, Zenon DEF ConfigInv
<1> QED BY <1>3, <1>4, Zenon

\* A reload begins: a timer's, or the loop's at the minute or at a restart.
LEMMA ReloadInv ==
    ASSUME ConfigInv, (\E t \in Timers : TimerFires(t)) \/ Resync \/ Restart
    PROVE  ConfigInv'
<1>1. PICK r \in Reloaders :
        /\ \E v : step' = [step EXCEPT ![r] = v]
        /\ snap' = snap \/ snap' = [snap EXCEPT ![r] = Bootstrap]
        /\ step[r] = "idle" \/ ~alive
  BY Zenon DEF TimerFires, Resync, Restart, Reloaders
<1>2. UNCHANGED <<stored, cache, lock, todo, pools, running, listeners, applied>> /\ (alive => alive')
  BY DEF TimerFires, Resync, Restart, tableVars, nodeVars, edgeVars
<1>3. lock # r
  BY <1>1, EdgeConstants, Zenon DEF ConfigInv
<1>4. /\ DOMAIN step' = Reloaders /\ DOMAIN snap' = Reloaders
      /\ \A o \in Reloaders \ {r} : step'[o] = step[o] /\ snap'[o] = snap[o]
      /\ snap'[r] \in {snap[r], Bootstrap}
  BY <1>1, Zenon DEF ConfigInv
<1>5. \A o \in Reloaders : Consistent(snap'[o])
  BY <1>4, BootstrapConsistent, Zenon DEF ConfigInv
<1> QED BY <1>2, <1>3, <1>4, <1>5, EdgeAlone, Zenon DEF ConfigInv

LEMMA ConfigStep == ConfigInv /\ [ConfigNext]_configVars => ConfigInv'
<1> SUFFICES ASSUME ConfigInv, [ConfigNext]_configVars PROVE ConfigInv'
  OBVIOUS
<1>1. CASE \/ \E d \in Sites : \E draft \in Drafts[d] : Write(d, draft)
           \/ \E d \in Domains : Delete(d)
           \/ EnsureTunnelBase
  BY <1>1, TableStepInv, Zenon
<1>2. CASE \E r \in Reloaders : Fetch(r) \/ Keep(r) \/ ApplyStart(r)
  BY <1>2, NodeStepInv, ApplyStartInv
<1>3. CASE (\E t \in Timers : TimerFires(t)) \/ Resync \/ Restart
  BY <1>3, ReloadInv
<1>4. CASE \E p \in AllPorts : Listen(p) \/ SetRoutes(p)
  BY <1>4, ListenInv, SetRoutesInv
<1>5. CASE ApplyEnd
  BY <1>5, ApplyEndInv
<1>6. CASE Crash \/ \E p \in AllPorts : ServedEarly(p)
  <2>1. Stopped /\ UNCHANGED <<stored, cache>>
    BY <1>6 DEF Crash, ServedEarly, tableVars
  <2> QED BY <2>1, StoppedInv
<1>7. CASE \/ PushArrives \/ PushLost \/ BackendStops \/ BackendReturns
           \/ (\E p \in AllPorts : Occupy(p) \/ Vacate(p)) \/ UNCHANGED configVars
  <2>1. UNCHANGED <<stored, step, snap, cache, edgeVars>>
    BY <1>7 DEF PushArrives, PushLost, BackendStops, BackendReturns, Occupy, Vacate,
                configVars, tableVars, nodeVars
  <2> QED BY <2>1, EdgeAlone, Zenon DEF ConfigInv, edgeVars
<1> QED BY <1>1, <1>2, <1>3, <1>4, <1>5, <1>6, <1>7, Zenon DEF ConfigNext

\* What the invariant says of the edge between two Applies.
LEMMA BuiltMatches == ConfigInv => ApplyMatches
<1> SUFFICES ASSUME ConfigInv, lock = None PROVE ApplyMatches
  BY Zenon DEF ApplyMatches
<1>1. Built(applied, {}) /\ Consistent(applied)
  BY Zenon DEF ConfigInv
<1>2. DOMAIN listeners = PortsIn(applied)
  BY <1>1, Zenon DEF Built
<1>3. ASSUME NEW p \in DOMAIN listeners
      PROVE  /\ listeners[p].routes = RoutesOn(applied, p)
             /\ listeners[p].proto = ProtoOn(applied, p)
             /\ Unambiguous(listeners[p])
  <2>1. listeners[p].proto = ProtoOn(applied, p) /\ listeners[p].routes = RoutesOn(applied, p)
    BY <1>1, Zenon DEF Built
  <2>2. /\ \A r \in RoutesOn(applied, p) : r[2].proto = ProtoOn(applied, p)
        /\ ProtoOn(applied, p) = "TCP" => Cardinality(RoutesOn(applied, p)) = 1
    <3>1. p \in PortsIn(applied)
      BY <1>2
    <3> QED BY <1>1, <3>1, PortUnambiguous, Zenon
  <2> QED BY <2>1, <2>2, Zenon DEF Unambiguous
<1> QED BY <1>1, <1>2, <1>3, PoolPerForward, Zenon DEF Built, ApplyMatches

\* Between two Applies the edge is what a fresh Apply of the domains it applied
\* last would have built, and every port is served unambiguously, for any drafts,
\* any overlap of reloads, and crashes anywhere (Edge.Apply, ValidateDomain).
THEOREM EdgeMatches == ConfigSpec => []ApplyMatches
<1>1. ConfigInit => ConfigInv
  BY ConfigInitInv
<1>2. ConfigInv /\ [ConfigNext]_configVars => ConfigInv'
  BY ConfigStep
<1> QED BY <1>1, <1>2, BuiltMatches, PTL DEF ConfigSpec

=============================================================================
