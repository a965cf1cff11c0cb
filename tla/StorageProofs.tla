---------------------------- MODULE StorageProofs ----------------------------
(***************************************************************************)
(* The versioned trees stay linked under any mix of executed blocks,       *)
(* reorderings, rewinds and prunings, for any accounts, blocks and bounds, *)
(* and what is read through the links is the plain history of the ledger.  *)
(*                                                                         *)
(* The argument is about the set of the versions of one account in one     *)
(* tree.  Newest says which of them a reader at a topoheight must find;    *)
(* GoodTree says that the pointer and every link lead to it.  A block adds *)
(* one version at the end, undoing blocks and rewinding both keep exactly  *)
(* the versions up to a topoheight, and pruning moves the newest version   *)
(* at the pruned topoheight there and drops the older ones.                *)
(***************************************************************************)
EXTENDS VersionedStorage, FiniteSetTheorems, WellFoundedInduction, TLAPS

\* t is the newest of the versions V at or below m, NoTopo when there is none.
Newest(V, m, t) ==
    \/ t = NoTopo /\ \A u \in V : u > m
    \/ t \in V /\ t <= m /\ \A u \in V : u <= m => u <= t

\* The tree holds versions of the topoheights low..high; the pointer of an
\* account is its newest version, and every version links to the next older.
GoodTree(tree, low, high, Values) ==
    /\ DOMAIN tree.last \subseteq Account
    /\ DOMAIN tree.ver \subseteq (low..high) \X Account
    /\ \A k \in Account : k \in DOMAIN tree.last <=> Versions(tree, k) # {}
    /\ \A k \in DOMAIN tree.last :
          /\ tree.last[k] \in Versions(tree, k)
          /\ \A u \in Versions(tree, k) : u <= tree.last[k]
    /\ \A k \in Account : \A t \in Versions(tree, k) :
          /\ tree.ver[<<t, k>>] \in [value : Values, prev : Topo \cup {NoTopo}]
          /\ Newest(Versions(tree, k), t - 1, tree.ver[<<t, k>>].prev)

-----------------------------------------------------------------------------
(* Finding a version.                                                      *)

\* Induction over the natural numbers, for a set.
LEMMA NatSetInduction ==
    ASSUME NEW S, 0 \in S, \A n \in Nat : n \in S => n + 1 \in S
    PROVE  Nat \subseteq S
<1> DEFINE R == OpToRel(<, Nat)
           T == Nat \ S
<1>1. SUFFICES ASSUME T # {} PROVE FALSE
  OBVIOUS
<1>2. IsWellFoundedOn(R, Nat)
  BY NatLessThanWellFounded
<1>3. T \subseteq Nat
  OBVIOUS
<1> HIDE DEF R, T
<1>4. PICK x \in T : \A y \in T : ~(<<y, x>> \in R)
  BY <1>1, <1>2, <1>3, WFMin
<1>5. \A y \in T : ~(y < x)
  BY <1>3, <1>4 DEF R, OpToRel
<1>6. x \in Nat /\ x \notin S
  BY <1>4 DEF T
<1>7. x - 1 \in Nat /\ x - 1 < x
  BY <1>6
<1>8. (x - 1) + 1 \in S
  BY <1>5, <1>7 DEF T
<1>9. QED
  BY <1>6, <1>8

\* The absent topoheight is below all others.
LEMMA NoTopoIs == NoTopo \in Int /\ NoTopo < 0 /\ \A n \in Nat : NoTopo < n
BY DEF NoTopo

\* What is found is a version or NoTopo.
LEMMA NewestIs ==
    ASSUME NEW V \in SUBSET Nat, NEW m, NEW t, Newest(V, m, t)
    PROVE  t \in Int /\ (t = NoTopo \/ t \in V)
<1>1. CASE t = NoTopo
  BY <1>1, NoTopoIs
<1>2. CASE t \in V
  BY <1>2
<1>3. QED
  BY <1>1, <1>2 DEF Newest

\* A set of versions has one newest version at or below a topoheight.
LEMMA NewestUnique ==
    ASSUME NEW V \in SUBSET Nat, NEW m \in Int, NEW t, NEW u,
           Newest(V, m, t), Newest(V, m, u)
    PROVE  t = u
<1>1. t \in Int /\ u \in Int
  BY NewestIs
<1>2. \A v \in V : v \in Nat /\ v # NoTopo
  BY NoTopoIs
<1>3. QED
  BY <1>1, <1>2, NoTopoIs DEF Newest

\* The versions of an account are topoheights.
LEMMA VersionsAre ==
    ASSUME NEW tree, NEW k
    PROVE  /\ Versions(tree, k) \in SUBSET Topo
           /\ Versions(tree, k) \in SUBSET Nat
           /\ \A t : t \in Versions(tree, k) <=> t \in Topo /\ <<t, k>> \in DOMAIN tree.ver
BY StorageAssumption DEF Versions, Topo

\* Following the links from a version down to a maximum finds the newest
\* version at or below it.
LEMMA SearchFinds ==
    ASSUME NEW tree, NEW low, NEW high, NEW Values, GoodTree(tree, low, high, Values),
           NEW k \in Account, NEW m \in Int, NEW start \in Versions(tree, k) \cup {NoTopo}
    PROVE  /\ start = NoTopo \/ start <= m => Search(tree, k, start, m) = start
           /\ start # NoTopo /\ start > m => Newest(Versions(tree, k), m, Search(tree, k, start, m))
<1> DEFINE V == Versions(tree, k)
           D == V \cup {NoTopo}
           prev(t) == tree.ver[<<t, k>>].prev
           Step(g, t) == IF t = NoTopo \/ t <= m THEN t ELSE g[prev(t)]
           Below(n) == {t \in D : t < n}
           Solved(g, S) == g = [t \in S |-> Step(g, t)]
           found == CHOOSE g : Solved(g, D)
<1>1. Search(tree, k, start, m) = found[start]
  BY Zenon DEF Search
<1>2. V \in SUBSET Nat /\ V \in SUBSET Topo
  BY VersionsAre
<1>3. \A t \in V : prev(t) \in D /\ prev(t) < t /\ Newest(V, t - 1, prev(t))
  <2>1. \A t \in V : Newest(V, t - 1, prev(t))
    BY DEF GoodTree
  <2> HIDE DEF V, prev
  <2>2. SUFFICES ASSUME NEW t \in V PROVE prev(t) \in D /\ prev(t) < t
    BY <2>1
  <2>3. t \in Nat /\ Newest(V, t - 1, prev(t))
    BY <1>2, <2>1
  <2>4. prev(t) \in Int /\ (prev(t) = NoTopo \/ prev(t) \in V)
    BY <1>2, <2>3, NewestIs
  <2>5. QED
    BY <2>3, <2>4, NoTopoIs DEF Newest
<1>d. \A t \in D : t \in Int /\ (t = NoTopo \/ t \in Nat) /\ t <= MaxTopo
  BY <1>2, NoTopoIs, StorageAssumption DEF Topo
<1> HIDE DEF V, prev
<1>4. \E g : Solved(g, D)
  <2> DEFINE N == {n \in Nat : \E g : Solved(g, Below(n))}
  <2>1. 0 \in N
    <3>1. Below(0) = {NoTopo}
      <4>1. \A t \in D : t < 0 <=> t = NoTopo
        BY <1>d, NoTopoIs
      <4>2. QED
        BY <4>1
    <3>2. Solved([t \in Below(0) |-> NoTopo], Below(0))
      BY <3>1
    <3>3. QED
      BY <3>2
  <2>2. ASSUME NEW n \in Nat, n \in N PROVE n + 1 \in N
    <3>1. PICK g : Solved(g, Below(n))
      BY <2>2
    <3> DEFINE h == [t \in Below(n + 1) |-> IF t = n THEN Step(g, t) ELSE g[t]]
    <3>2. ASSUME NEW t \in Below(n + 1) PROVE h[t] = Step(h, t)
      <4>1. t = n \/ t \in Below(n)
        BY <1>2, NoTopoIs
      <4>2. \A u \in Below(n) : h[u] = g[u]
        BY <1>2, NoTopoIs
      <4>3. t = NoTopo \/ prev(t) \in Below(n)
        <5>1. t \in D /\ t < n + 1 /\ t \in Int
          BY <1>d
        <5>2. CASE t \in V
          <6>1. prev(t) \in D /\ prev(t) < t
            BY <1>3, <5>2
          <6>2. prev(t) \in Int
            BY <1>d, <6>1
          <6>3. prev(t) < n
            BY <5>1, <6>1, <6>2
          <6>4. QED
            BY <6>1, <6>3
        <5>3. QED
          BY <5>1, <5>2
      <4>4. Step(h, t) = Step(g, t)
        BY <4>2, <4>3
      <4>5. t \in Below(n) => g[t] = Step(g, t)
        BY <3>1
      <4>6. t \in Below(n) => t # n
        BY <1>2, NoTopoIs
      <4>7. QED
        BY <4>1, <4>2, <4>4, <4>5, <4>6
    <3>3. h = [t \in Below(n + 1) |-> h[t]]
      OBVIOUS
    <3> HIDE DEF h, Step, Below
    <3>4. Solved(h, Below(n + 1))
      BY <3>2, <3>3
    <3>5. QED
      BY <3>4
  <2> HIDE DEF N
  <2>3. Nat \subseteq N
    BY <2>1, <2>2, NatSetInduction
  <2>4. MaxTopo + 1 \in N
    BY <2>3, StorageAssumption
  <2>5. Below(MaxTopo + 1) = D
    BY <1>d, StorageAssumption
  <2> HIDE DEF Below, Solved, D
  <2>6. QED
    BY <2>4, <2>5 DEF N
<1>5. Solved(found, D)
  BY <1>4, Zenon
<1> HIDE DEF found
<1>6. \A t \in D : found[t] = Step(found, t)
  <2> HIDE DEF Step
  <2>1. QED
    BY <1>5
<1>7. start \in D
  BY DEF V
<1>8. start = NoTopo \/ start <= m => found[start] = start
  BY <1>6, <1>7
<1> DEFINE Good(t) == t # NoTopo /\ t > m => Newest(V, m, found[t])
           N == {n \in Nat : \A t \in D : t < n => Good(t)}
<1>9. 0 \in N
  BY <1>2, NoTopoIs
<1>10. ASSUME NEW n \in Nat, n \in N PROVE n + 1 \in N
  <2>1. SUFFICES ASSUME NEW t \in D, t < n + 1, t # NoTopo, t > m
                 PROVE  Newest(V, m, found[t])
    OBVIOUS
  <2>2. t \in V /\ t \in Nat
    BY <1>2, <2>1
  <2>3. found[t] = found[prev(t)] /\ prev(t) \in D /\ prev(t) < n
    <3>1. found[t] = Step(found, t) /\ ~(t <= m) /\ t \in Int
      BY <1>6, <1>d, <2>1
    <3>2. prev(t) \in D /\ prev(t) < t
      BY <1>3, <2>2
    <3>3. prev(t) \in Int
      BY <1>d, <3>2
    <3>4. prev(t) < n
      BY <2>1, <3>1, <3>2, <3>3
    <3>5. QED
      BY <2>1, <3>1, <3>2, <3>4
  <2>4. CASE prev(t) # NoTopo /\ prev(t) > m
    BY <1>10, <2>3, <2>4
  <2>5. CASE prev(t) = NoTopo \/ prev(t) <= m
    <3>1. found[prev(t)] = prev(t)
      BY <1>6, <2>3, <2>5
    <3>2. Newest(V, t - 1, prev(t))
      BY <1>3, <2>2
    <3>3. Newest(V, m, prev(t))
      BY <1>2, <2>1, <2>2, <2>3, <2>5, <3>2, NoTopoIs DEF Newest
    <3>4. QED
      BY <2>3, <3>1, <3>3
  <2>6. QED
    BY <1>d, <2>3, <2>4, <2>5
<1> HIDE DEF N
<1>11. Nat \subseteq N
  BY <1>9, <1>10, NatSetInduction
<1>12. start < MaxTopo + 1 /\ MaxTopo + 1 \in Nat
  BY <1>2, <1>7, StorageAssumption, NoTopoIs DEF Topo
<1>13. Good(start)
  BY <1>7, <1>11, <1>12 DEF N
<1>14. QED
  BY <1>1, <1>8, <1>13 DEF V

\* get_balance_at_maximum_topoheight and get_nonce_at_maximum_topoheight find
\* the newest version at or below the maximum.
LEMMA AtMaximumFinds ==
    ASSUME NEW tree, NEW low \in Nat, NEW high \in Int, high <= MaxTopo, NEW Values,
           GoodTree(tree, low, high, Values), NEW k \in Account, NEW m \in Int
    PROVE  Newest(Versions(tree, k), m, AtMaximum(tree, k, m))
<1> DEFINE V == Versions(tree, k)
<1>1. V \in SUBSET Nat
  BY VersionsAre
<1>2. CASE k \notin DOMAIN tree.last
  <2>1. V = {} /\ AtMaximum(tree, k, m) = NoTopo
    BY <1>2 DEF GoodTree, AtMaximum
  <2>2. QED
    BY <2>1 DEF Newest
<1>3. CASE k \in DOMAIN tree.last /\ <<m, k>> \in DOMAIN tree.ver
  <2>1. m \in V /\ AtMaximum(tree, k, m) = m
    BY <1>3, StorageAssumption DEF GoodTree, AtMaximum, Versions, Topo
  <2>2. QED
    BY <1>1, <2>1 DEF Newest
<1>4. CASE k \in DOMAIN tree.last /\ <<m, k>> \notin DOMAIN tree.ver
  <2> DEFINE l == tree.last[k]
  <2>1. l \in V /\ (\A u \in V : u <= l) /\ AtMaximum(tree, k, m) = Search(tree, k, l, m)
    BY <1>4 DEF GoodTree, AtMaximum
  <2>2. /\ l = NoTopo \/ l <= m => Search(tree, k, l, m) = l
        /\ l # NoTopo /\ l > m => Newest(V, m, Search(tree, k, l, m))
    BY <2>1, SearchFinds
  <2> HIDE DEF V, l
  <2>3. QED
    BY <1>1, <2>1, <2>2, NoTopoIs DEF Newest, V
<1>5. QED
  BY <1>2, <1>3, <1>4

\* What a reader at a topoheight gets.
LEMMA ValueIs ==
    ASSUME NEW tree, NEW low \in Nat, NEW high \in Int, high <= MaxTopo, NEW Values,
           GoodTree(tree, low, high, Values), NEW k \in Account, NEW m \in Int, NEW r,
           Newest(Versions(tree, k), m, r), NEW default
    PROVE  Value(tree, k, m, default) = IF r = NoTopo THEN default ELSE tree.ver[<<r, k>>].value
<1>1. Newest(Versions(tree, k), m, AtMaximum(tree, k, m))
  BY AtMaximumFinds
<1>2. r = AtMaximum(tree, k, m)
  BY <1>1, NewestUnique, VersionsAre
<1>3. QED
  BY <1>2 DEF Value

-----------------------------------------------------------------------------
(* A block adds versions at its topoheight.                                *)

LEMMA SetLastGood ==
    ASSUME NEW tree, NEW low \in Nat, NEW t \in Topo, low <= t, NEW Values,
           GoodTree(tree, low, t, Values), NEW new, DOMAIN new \subseteq Account,
           \A k \in DOMAIN new :
              /\ t \notin Versions(tree, k)
              /\ new[k] \in [value : Values, prev : Topo \cup {NoTopo}]
              /\ new[k].prev = AtMaximum(tree, k, t)
    PROVE  LET d == SetLast(tree, t, new)
           IN /\ GoodTree(d, low, t, Values)
              /\ DOMAIN d.last = DOMAIN tree.last \cup DOMAIN new
              /\ \A k \in Account : Versions(d, k) = Versions(tree, k)
                                      \cup (IF k \in DOMAIN new THEN {t} ELSE {})
              /\ \A k \in Account : \A u \in Versions(tree, k) : d.ver[<<u, k>>] = tree.ver[<<u, k>>]
              /\ \A k \in DOMAIN new : d.ver[<<t, k>>] = new[k]
<1> DEFINE d == SetLast(tree, t, new)
<1>0. t \in Int /\ t <= MaxTopo /\ t \in Nat
  BY StorageAssumption DEF Topo
<1>1. /\ d.last = Insert(tree.last, [k \in DOMAIN new |-> t])
      /\ d.ver = Insert(tree.ver, [p \in {t} \X DOMAIN new |-> new[p[2]]])
  BY DEF SetLast
<1> HIDE DEF d
<1>2. /\ DOMAIN d.last = DOMAIN tree.last \cup DOMAIN new
      /\ \A k \in DOMAIN d.last : d.last[k] = IF k \in DOMAIN new THEN t ELSE tree.last[k]
  BY <1>1 DEF Insert
<1>3. /\ DOMAIN d.ver = DOMAIN tree.ver \cup ({t} \X DOMAIN new)
      /\ \A p \in DOMAIN d.ver : d.ver[p] = IF p \in {t} \X DOMAIN new THEN new[p[2]] ELSE tree.ver[p]
  BY <1>1 DEF Insert
<1>4. \A k \in Account : Versions(d, k) = Versions(tree, k) \cup (IF k \in DOMAIN new THEN {t} ELSE {})
  <2>1. ASSUME NEW k, NEW u \in Topo
        PROVE  <<u, k>> \in DOMAIN d.ver <=> <<u, k>> \in DOMAIN tree.ver \/ (u = t /\ k \in DOMAIN new)
    BY <1>3
  <2>2. QED
    BY <2>1 DEF Versions
<1>5. \A k \in Account : \A u \in Versions(tree, k) : d.ver[<<u, k>>] = tree.ver[<<u, k>>]
  <2>1. ASSUME NEW k \in Account, NEW u \in Versions(tree, k)
        PROVE  <<u, k>> \in DOMAIN d.ver /\ <<u, k>> \notin {t} \X DOMAIN new
    BY <1>3, VersionsAre
  <2>2. QED
    BY <1>3, <2>1
<1>6. \A k \in DOMAIN new : d.ver[<<t, k>>] = new[k]
  <2>1. ASSUME NEW k \in DOMAIN new PROVE d.ver[<<t, k>>] = new[k]
    <3>1. <<t, k>> \in {t} \X DOMAIN new /\ <<t, k>>[2] = k
      OBVIOUS
    <3>2. QED
      BY <1>3, <3>1
  <2>2. QED
    BY <2>1
<1>7. \A k \in Account : /\ Versions(tree, k) \in SUBSET Nat
                         /\ \A u \in Versions(tree, k) : u \in Int /\ u <= t
  <2>1. ASSUME NEW k \in Account, NEW u \in Versions(tree, k)
        PROVE  u \in Int /\ u <= t
    <3>1. <<u, k>> \in (low..t) \X Account
      BY VersionsAre DEF GoodTree
    <3>2. QED
      BY <1>0, <3>1
  <2>2. QED
    BY <2>1, VersionsAre
<1>8. ASSUME NEW k \in Account
      PROVE  /\ k \in DOMAIN d.last <=> Versions(d, k) # {}
             /\ k \in DOMAIN d.last => /\ d.last[k] \in Versions(d, k)
                                       /\ \A u \in Versions(d, k) : u <= d.last[k]
  <2>1. CASE k \in DOMAIN new
    BY <1>0, <1>2, <1>4, <1>7, <2>1
  <2>2. CASE k \notin DOMAIN new
    <3>1. Versions(d, k) = Versions(tree, k)
      BY <1>4, <2>2
    <3>2. k \in DOMAIN d.last <=> k \in DOMAIN tree.last
      BY <1>2, <2>2
    <3>3. k \in DOMAIN d.last => d.last[k] = tree.last[k]
      BY <1>2, <2>2
    <3>4. QED
      BY <3>1, <3>2, <3>3 DEF GoodTree
  <2>3. QED
    BY <2>1, <2>2
<1>9. ASSUME NEW k \in Account, NEW u \in Versions(d, k)
      PROVE  /\ d.ver[<<u, k>>] \in [value : Values, prev : Topo \cup {NoTopo}]
             /\ Newest(Versions(d, k), u - 1, d.ver[<<u, k>>].prev)
  <2> DEFINE V == Versions(tree, k)
             W == Versions(d, k)
  <2>0. W = V \cup (IF k \in DOMAIN new THEN {t} ELSE {})
    BY <1>4
  <2>1. CASE u \in V
    <3> DEFINE r == tree.ver[<<u, k>>].prev
    <3>1. /\ d.ver[<<u, k>>] = tree.ver[<<u, k>>]
          /\ tree.ver[<<u, k>>] \in [value : Values, prev : Topo \cup {NoTopo}]
          /\ Newest(V, u - 1, r)
      BY <1>5, <2>1 DEF GoodTree
    <3>2. r \in Int /\ u \in Int /\ u <= t /\ V \in SUBSET Nat
      BY <1>7, <2>1, <3>1, NewestIs
    <3> HIDE DEF V, W, r
    <3>3. Newest(W, u - 1, r)
      <4>1. \A x \in W : x \in V \/ (x = t /\ ~(x <= u - 1) /\ x > u - 1)
        BY <1>0, <2>0, <3>2
      <4>2. V \subseteq W
        BY <2>0
      <4>3. QED
        BY <3>1, <4>1, <4>2 DEF Newest
    <3>4. QED
      BY <3>1, <3>3 DEF V, W, r
  <2>2. CASE u \notin V
    <3>1. u = t /\ k \in DOMAIN new /\ t \notin V
      BY <2>0, <2>2
    <3> DEFINE r == new[k].prev
    <3>2. d.ver[<<u, k>>] = new[k] /\ new[k] \in [value : Values, prev : Topo \cup {NoTopo}]
      BY <1>6, <3>1
    <3>3. Newest(V, t, r)
      BY <1>0, <3>1, AtMaximumFinds
    <3>4. V \in SUBSET Nat /\ (\A x \in V : x \in Int /\ x <= t) /\ W = V \cup {t} /\ r \in Int
      BY <1>7, <2>0, <3>1, <3>3, NewestIs
    <3> HIDE DEF V, W, r
    <3>5. Newest(W, t - 1, r)
      <4>1. \A x \in V : x <= t - 1 /\ x # t
        BY <1>0, <3>1, <3>4
      <4>2. ~(t <= t - 1) /\ t > t - 1
        BY <1>0
      <4>3. CASE r = NoTopo /\ \A x \in V : x > t
        BY <1>0, <3>4, <4>1, <4>2, <4>3 DEF Newest
      <4>4. CASE r \in V /\ \A x \in V : x <= t => x <= r
        BY <1>0, <3>4, <4>1, <4>2, <4>4 DEF Newest
      <4>5. QED
        BY <3>3, <4>3, <4>4 DEF Newest
    <3>6. QED
      BY <3>1, <3>2, <3>5 DEF W, r
  <2>3. QED
    BY <2>1, <2>2
<1>10. DOMAIN d.last \subseteq Account /\ DOMAIN d.ver \subseteq (low..t) \X Account
  <2>1. DOMAIN tree.last \subseteq Account /\ DOMAIN tree.ver \subseteq (low..t) \X Account
    BY DEF GoodTree
  <2>2. {t} \X DOMAIN new \subseteq (low..t) \X Account
    BY <1>0
  <2>3. QED
    BY <1>2, <1>3, <2>1, <2>2
<1>11. GoodTree(d, low, t, Values)
  BY <1>2, <1>8, <1>9, <1>10 DEF GoodTree
<1>12. QED
  BY <1>2, <1>4, <1>5, <1>6, <1>11 DEF d

-----------------------------------------------------------------------------
(* Undoing blocks and rewinding keep the versions up to a topoheight.      *)

\* The tree cut holds exactly the versions of tree up to topoheight n.
IsCut(cut, tree, n) ==
    /\ DOMAIN cut.ver = {p \in DOMAIN tree.ver : p[1] <= n}
    /\ \A p \in DOMAIN cut.ver : cut.ver[p] = tree.ver[p]
    /\ DOMAIN cut.last = {k \in DOMAIN tree.last : \E u \in Versions(tree, k) : u <= n}
    /\ \A k \in DOMAIN cut.last : Newest(Versions(tree, k), n, cut.last[k])

\* Such a tree is linked, and reads like the whole one up to n.
LinkedUpTo(cut, tree, n, low, Values) ==
    /\ GoodTree(cut, low, n, Values)
    /\ \A k \in Account : Versions(cut, k) = {u \in Versions(tree, k) : u <= n}
    /\ \A k \in Account, m \in Int : \A default :
          m <= n => Value(cut, k, m, default) = Value(tree, k, m, default)

LEMMA CutGood ==
    ASSUME NEW tree, NEW low \in Nat, NEW high \in Int, high <= MaxTopo, NEW Values,
           GoodTree(tree, low, high, Values),
           NEW n \in Int, n <= MaxTopo, NEW low2 \in Nat, NEW cut, IsCut(cut, tree, n),
           DOMAIN cut.ver \subseteq (low2..n) \X Account
    PROVE  LinkedUpTo(cut, tree, n, low2, Values)
<1>1. \A k \in Account : Versions(cut, k) = {u \in Versions(tree, k) : u <= n}
  BY DEF IsCut, Versions
<1>2. \A k \in Account : \A u \in Versions(cut, k) : cut.ver[<<u, k>>] = tree.ver[<<u, k>>]
  <2>1. \A k \in Account : \A u \in Versions(cut, k) : <<u, k>> \in DOMAIN cut.ver
    BY VersionsAre
  <2>2. QED
    BY <2>1 DEF IsCut
<1>3. \A k \in Account : Versions(tree, k) \in SUBSET Nat
  BY VersionsAre
<1>4. ASSUME NEW k \in Account, NEW m \in Int, m <= n, NEW r, Newest(Versions(tree, k), m, r)
      PROVE  Newest(Versions(cut, k), m, r)
  <2> DEFINE V == Versions(tree, k)
             W == Versions(cut, k)
  <2>1. V \in SUBSET Nat /\ W = {u \in V : u <= n} /\ r \in Int
    BY <1>1, <1>3, <1>4, NewestIs
  <2>2. Newest(V, m, r)
    BY <1>4
  <2> HIDE DEF V, W
  <2>3. Newest(W, m, r)
    BY <1>4, <2>1, <2>2 DEF Newest
  <2>4. QED
    BY <2>3 DEF W
<1>5. ASSUME NEW k \in Account
      PROVE  k \in DOMAIN cut.last <=> Versions(cut, k) # {}
  <2>1. k \in DOMAIN tree.last <=> Versions(tree, k) # {}
    BY DEF GoodTree
  <2>2. QED
    BY <1>1, <2>1 DEF IsCut
<1>6. ASSUME NEW k \in DOMAIN cut.last
      PROVE  /\ k \in Account
             /\ cut.last[k] \in Versions(cut, k)
             /\ \A u \in Versions(cut, k) : u <= cut.last[k]
  <2> DEFINE V == Versions(tree, k)
             W == Versions(cut, k)
             l == cut.last[k]
  <2>1. k \in Account /\ (\E u \in V : u <= n) /\ Newest(V, n, l)
    BY DEF IsCut, GoodTree
  <2>2. V \in SUBSET Nat /\ W = {u \in V : u <= n} /\ l \in Int
    BY <1>1, <1>3, <2>1, NewestIs
  <2> HIDE DEF V, W, l
  <2>3. l \in W /\ \A u \in W : u <= l
    BY <2>1, <2>2 DEF Newest
  <2>4. QED
    BY <2>1, <2>3 DEF W, l
<1>7. ASSUME NEW k \in Account, NEW u \in Versions(cut, k)
      PROVE  /\ cut.ver[<<u, k>>] \in [value : Values, prev : Topo \cup {NoTopo}]
             /\ Newest(Versions(cut, k), u - 1, cut.ver[<<u, k>>].prev)
  <2>1. u \in Versions(tree, k) /\ u \in Nat /\ u - 1 <= n
    BY <1>1, <1>3
  <2>2. /\ tree.ver[<<u, k>>] \in [value : Values, prev : Topo \cup {NoTopo}]
        /\ Newest(Versions(tree, k), u - 1, tree.ver[<<u, k>>].prev)
    BY <2>1 DEF GoodTree
  <2>3. Newest(Versions(cut, k), u - 1, tree.ver[<<u, k>>].prev)
    BY <1>4, <2>1, <2>2
  <2>4. QED
    BY <1>2, <2>2, <2>3
<1>8. GoodTree(cut, low2, n, Values)
  <2>1. DOMAIN cut.last \subseteq Account
    BY <1>6
  <2>2. QED
    BY <1>5, <1>6, <1>7, <2>1 DEF GoodTree
<1>9. ASSUME NEW k \in Account, NEW m \in Int, NEW default, m <= n
      PROVE  Value(cut, k, m, default) = Value(tree, k, m, default)
  <2> DEFINE r == AtMaximum(tree, k, m)
  <2>1. Newest(Versions(tree, k), m, r)
    BY AtMaximumFinds
  <2> HIDE DEF r
  <2>2. Newest(Versions(cut, k), m, r)
    BY <1>4, <1>9, <2>1
  <2>3. Value(tree, k, m, default) = IF r = NoTopo THEN default ELSE tree.ver[<<r, k>>].value
    BY DEF Value, r
  <2>4. Value(cut, k, m, default) = IF r = NoTopo THEN default ELSE cut.ver[<<r, k>>].value
    BY <1>8, <2>2, ValueIs
  <2>5. r = NoTopo \/ r \in Versions(cut, k)
    BY <2>2 DEF Newest
  <2>6. QED
    BY <1>2, <2>3, <2>4, <2>5
<1>10. QED
  BY <1>1, <1>8, <1>9 DEF LinkedUpTo

\* pop_blocks keeps the versions up to the new top topoheight.
LEMMA RewindCuts ==
    ASSUME NEW tree, NEW low \in Nat, NEW high \in Int, high <= MaxTopo, NEW Values,
           GoodTree(tree, low, high, Values), NEW n \in Int
    PROVE  IsCut(RewindTree(tree, n), tree, n)
<1> DEFINE kept == KeptBelow(tree, n)
           cut == RewindTree(tree, n)
           L == {k \in DOMAIN kept : kept[k] # NoTopo}
           P == {p \in DOMAIN tree.ver : p[1] <= n}
<1>1. DOMAIN kept = DOMAIN tree.last
  BY DEF KeptBelow
<1>2. ASSUME NEW k \in DOMAIN tree.last
      PROVE  k \in Account /\ Newest(Versions(tree, k), n, kept[k])
  <2> DEFINE V == Versions(tree, k)
             l == tree.last[k]
  <2>1. k \in Account /\ l \in V /\ (\A u \in V : u <= l) /\ V \in SUBSET Nat
    BY VersionsAre DEF GoodTree
  <2>2. kept[k] = IF l <= n THEN l ELSE Search(tree, k, l, n)
    BY DEF KeptBelow
  <2>3. l # NoTopo /\ l > n => Newest(V, n, Search(tree, k, l, n))
    BY <2>1, SearchFinds
  <2> HIDE DEF V, l, kept
  <2>4. l # NoTopo /\ l \in Int
    BY <2>1, NoTopoIs
  <2>5. CASE l <= n
    BY <2>1, <2>2, <2>4, <2>5 DEF Newest, V
  <2>6. CASE ~(l <= n)
    BY <2>1, <2>2, <2>3, <2>4, <2>6 DEF V
  <2>7. QED
    BY <2>5, <2>6
<1>3. cut.last = [k \in L |-> kept[k]] /\ cut.ver = [p \in P |-> tree.ver[p]]
  BY DEF RewindTree, Restrict
<1> HIDE DEF kept, cut
<1>4. DOMAIN cut.ver = P /\ (\A p \in DOMAIN cut.ver : cut.ver[p] = tree.ver[p])
      /\ DOMAIN cut.last = L /\ \A k \in DOMAIN cut.last : cut.last[k] = kept[k]
  BY <1>3
<1>5. ASSUME NEW k \in DOMAIN tree.last
      PROVE  kept[k] # NoTopo <=> \E u \in Versions(tree, k) : u <= n
  <2> DEFINE V == Versions(tree, k)
  <2>1. Newest(V, n, kept[k]) /\ V \in SUBSET Nat /\ kept[k] \in Int
    BY <1>2, VersionsAre, NewestIs
  <2> HIDE DEF V
  <2>2. \A u \in V : u \in Int /\ u # NoTopo
    BY <2>1, NoTopoIs
  <2>3. kept[k] # NoTopo <=> \E u \in V : u <= n
    BY <2>1, <2>2 DEF Newest
  <2>4. QED
    BY <2>3 DEF V
<1>6. DOMAIN cut.last = {k \in DOMAIN tree.last : \E u \in Versions(tree, k) : u <= n}
  BY <1>1, <1>4, <1>5
<1>7. \A k \in DOMAIN cut.last : Newest(Versions(tree, k), n, cut.last[k])
  BY <1>1, <1>2, <1>4
<1>8. IsCut(cut, tree, n)
  BY <1>4, <1>6, <1>7 DEF IsCut
<1>9. QED
  BY <1>8 DEF cut

\* The versions of the i topoheights above keep are gone from tree, lowest
\* first; an account that had one points to its newest version up to keep.
PartlyUndone(x, tree, keep, i) ==
    /\ DOMAIN x.ver = {p \in DOMAIN tree.ver : p[1] <= keep \/ p[1] > keep + i}
    /\ \A p \in DOMAIN x.ver : x.ver[p] = tree.ver[p]
    /\ DOMAIN x.last \subseteq DOMAIN tree.last
    /\ \A k \in DOMAIN tree.last :
          IF \E u \in Versions(tree, k) : keep < u /\ u <= keep + i
          THEN /\ k \in DOMAIN x.last <=> \E u \in Versions(tree, k) : u <= keep
               /\ k \in DOMAIN x.last => Newest(Versions(tree, k), keep, x.last[k])
          ELSE k \in DOMAIN x.last /\ x.last[k] = tree.last[k]

\* delete_versioned_balances_at_topoheight and its sibling for nonces, at the
\* next topoheight.
LEMMA DeleteStep ==
    ASSUME NEW tree, NEW low \in Nat, NEW high \in Int, high <= MaxTopo, NEW Values,
           GoodTree(tree, low, high, Values), NEW keep \in Nat, NEW i \in Nat,
           NEW x, PartlyUndone(x, tree, keep, i), NEW t, t = keep + (i + 1)
    PROVE  LET y == DeleteVersionsAt(x, t)
           IN /\ PartlyUndone(y, tree, keep, i + 1)
              /\ DOMAIN y.last = DOMAIN x.last \ Emptied(x, t)
<1> DEFINE y == DeleteVersionsAt(x, t)
<1>1. /\ y.last = [k \in DOMAIN x.last \ Emptied(x, t) |->
                      IF k \in Moved(x, t) THEN x.ver[<<t, k>>].prev ELSE x.last[k]]
      /\ y.ver = Restrict(x.ver, {p \in DOMAIN x.ver : p[1] # t})
  BY DEF DeleteVersionsAt
<1> HIDE DEF y
<1>2. /\ DOMAIN y.last = DOMAIN x.last \ Emptied(x, t)
      /\ \A k \in DOMAIN y.last :
            y.last[k] = IF k \in Moved(x, t) THEN x.ver[<<t, k>>].prev ELSE x.last[k]
  BY <1>1
<1>3. /\ DOMAIN y.ver = {p \in DOMAIN x.ver : p[1] # t}
      /\ \A p \in DOMAIN y.ver : y.ver[p] = x.ver[p]
  BY <1>1 DEF Restrict
<1>4. t \in Int /\ t = keep + i + 1 /\ t > keep
  OBVIOUS
<1>5. \A p \in DOMAIN tree.ver : p[1] \in Int
  BY DEF GoodTree
<1>6. DOMAIN y.ver = {p \in DOMAIN tree.ver : p[1] <= keep \/ p[1] > keep + (i + 1)}
  <2>1. \A p \in DOMAIN tree.ver :
           (p[1] <= keep \/ p[1] > keep + i) /\ p[1] # t <=> p[1] <= keep \/ p[1] > keep + (i + 1)
    BY <1>4, <1>5
  <2>2. QED
    BY <1>3, <2>1 DEF PartlyUndone
<1>7. \A p \in DOMAIN y.ver : y.ver[p] = tree.ver[p]
  BY <1>3 DEF PartlyUndone
<1>8. DOMAIN y.last \subseteq DOMAIN tree.last
  BY <1>2 DEF PartlyUndone
<1>9. ASSUME NEW k \in DOMAIN tree.last
      PROVE  IF \E u \in Versions(tree, k) : keep < u /\ u <= keep + (i + 1)
             THEN /\ k \in DOMAIN y.last <=> \E u \in Versions(tree, k) : u <= keep
                  /\ k \in DOMAIN y.last => Newest(Versions(tree, k), keep, y.last[k])
             ELSE k \in DOMAIN y.last /\ y.last[k] = tree.last[k]
  <2> DEFINE V == Versions(tree, k)
             gone == \E u \in V : keep < u /\ u <= keep + i
             l == tree.last[k]
             r == tree.ver[<<t, k>>].prev
  <2>1. /\ k \in Account /\ V \in SUBSET Nat
        /\ l \in V /\ \A u \in V : u <= l
    BY VersionsAre DEF GoodTree
  <2>2. t \in V <=> <<t, k>> \in DOMAIN x.ver
    <3>1. <<t, k>> \in DOMAIN tree.ver => t \in Topo
      BY StorageAssumption DEF GoodTree, Topo
    <3>2. t \in V <=> <<t, k>> \in DOMAIN tree.ver
      BY <3>1, VersionsAre
    <3>3. t > keep + i /\ <<t, k>>[1] = t
      BY <1>4
    <3>4. QED
      BY <3>2, <3>3 DEF PartlyUndone
  <2>3. t \in V => Newest(V, t - 1, r) /\ r = x.ver[<<t, k>>].prev
    BY <2>1, <2>2 DEF GoodTree, PartlyUndone
  <2>4. IF gone
        THEN /\ k \in DOMAIN x.last <=> \E u \in V : u <= keep
             /\ k \in DOMAIN x.last => Newest(V, keep, x.last[k])
        ELSE k \in DOMAIN x.last /\ x.last[k] = l
    BY DEF PartlyUndone
  <2>5. k \in Moved(x, t) <=> k \in DOMAIN x.last /\ t \in V /\ x.last[k] >= t
    BY <2>2 DEF Moved
  <2>6. k \in Emptied(x, t) <=> k \in Moved(x, t) /\ r = NoTopo
    BY <2>3, <2>5 DEF Emptied
  <2>7. /\ k \in DOMAIN y.last <=> k \in DOMAIN x.last /\ k \notin Emptied(x, t)
        /\ k \in DOMAIN y.last => y.last[k] = IF k \in Moved(x, t) THEN r ELSE x.last[k]
    BY <1>2, <2>3, <2>5
  <2> HIDE DEF V, l, r
  <2>8. (\E u \in V : keep < u /\ u <= keep + (i + 1)) <=> gone \/ t \in V
    BY <1>4, <2>1
  <2>9. CASE gone
    <3>1. k \in DOMAIN x.last => x.last[k] \in Int /\ x.last[k] <= keep
      <4>1. k \in DOMAIN x.last => Newest(V, keep, x.last[k])
        BY <2>4, <2>9
      <4>2. k \in DOMAIN x.last => x.last[k] \in Int
        BY <2>1, <4>1, NewestIs
      <4>3. QED
        BY <4>1, <4>2, NoTopoIs DEF Newest
    <3>2. k \notin Moved(x, t)
      BY <1>4, <2>5, <3>1
    <3>3. QED
      BY <2>4, <2>6, <2>7, <2>8, <2>9, <3>2 DEF V
  <2>10. CASE ~gone /\ t \notin V
    BY <2>4, <2>5, <2>6, <2>7, <2>8, <2>10 DEF V, l
  <2>11. CASE ~gone /\ t \in V
    <3>1. k \in Moved(x, t)
      BY <1>4, <2>1, <2>4, <2>5, <2>11
    <3>2. Newest(V, keep, r) /\ r \in Int
      <4>1. Newest(V, t - 1, r) /\ r \in Int
        BY <2>1, <2>3, <2>11, NewestIs
      <4>2. \A u \in V : u \in Int /\ (u <= t - 1 <=> u <= keep)
        BY <1>4, <2>1, <2>11
      <4>3. \A u \in V : u > t - 1 => u > keep
        BY <1>4, <2>1
      <4>4. QED
        BY <4>1, <4>2, <4>3 DEF Newest
    <3>3. r # NoTopo <=> \E u \in V : u <= keep
      <4>1. \A u \in V : u \in Int /\ u # NoTopo
        BY <2>1, NoTopoIs
      <4>2. QED
        BY <3>2, <4>1 DEF Newest
    <3>4. QED
      BY <2>4, <2>6, <2>7, <2>8, <2>11, <3>1, <3>2, <3>3 DEF V
  <2>12. QED
    BY <2>9, <2>10, <2>11
<1>10. PartlyUndone(y, tree, keep, i + 1)
  BY <1>6, <1>7, <1>8, <1>9 DEF PartlyUndone
<1>11. QED
  BY <1>2, <1>10 DEF y

\* Nothing is undone at first, and at the end only the versions up to keep are
\* left.
LEMMA UndoneCuts ==
    ASSUME NEW tree, NEW low \in Nat, NEW high \in Int, high <= MaxTopo, NEW Values,
           GoodTree(tree, low, high, Values), NEW keep \in Nat, keep <= high
    PROVE  /\ PartlyUndone(tree, tree, keep, 0)
           /\ \A x : PartlyUndone(x, tree, keep, high - keep) => IsCut(x, tree, keep)
<1>1. \A p \in DOMAIN tree.ver : p[1] \in Int /\ p[1] <= high
  BY DEF GoodTree
<1>2. \A k \in Account : \A u \in Versions(tree, k) : u \in Int /\ u <= high
  <2>1. ASSUME NEW k \in Account, NEW u \in Versions(tree, k) PROVE u \in Int /\ u <= high
    <3>1. <<u, k>> \in DOMAIN tree.ver
      BY VersionsAre
    <3>2. QED
      BY <1>1, <3>1
  <2>2. QED
    BY <2>1
<1>3. PartlyUndone(tree, tree, keep, 0)
  <2>1. DOMAIN tree.ver = {p \in DOMAIN tree.ver : p[1] <= keep \/ p[1] > keep + 0}
    BY <1>1
  <2>2. \A k \in DOMAIN tree.last : ~\E u \in Versions(tree, k) : keep < u /\ u <= keep + 0
    BY <1>2 DEF GoodTree
  <2>3. QED
    BY <2>1, <2>2 DEF PartlyUndone
<1>4. ASSUME NEW x, PartlyUndone(x, tree, keep, high - keep) PROVE IsCut(x, tree, keep)
  <2>0. keep + (high - keep) = high
    OBVIOUS
  <2>1. DOMAIN x.ver = {p \in DOMAIN tree.ver : p[1] <= keep}
    <3>1. \A p \in DOMAIN tree.ver : p[1] <= keep \/ p[1] > keep + (high - keep) <=> p[1] <= keep
      BY <1>1, <2>0
    <3>2. QED
      BY <1>4, <3>1 DEF PartlyUndone
  <2>2. ASSUME NEW k \in DOMAIN tree.last
        PROVE  /\ k \in DOMAIN x.last <=> \E u \in Versions(tree, k) : u <= keep
               /\ k \in DOMAIN x.last => Newest(Versions(tree, k), keep, x.last[k])
    <3> DEFINE V == Versions(tree, k)
               l == tree.last[k]
    <3>1. k \in Account /\ V \in SUBSET Nat /\ l \in V /\ (\A u \in V : u <= l)
      BY VersionsAre DEF GoodTree
    <3>2. \A u \in V : u \in Int /\ u <= high
      BY <1>2, <3>1
    <3>3. CASE \E u \in V : keep < u /\ u <= keep + (high - keep)
      BY <1>4, <3>3 DEF PartlyUndone
    <3>4. CASE ~\E u \in V : keep < u /\ u <= keep + (high - keep)
      <4>1. k \in DOMAIN x.last /\ x.last[k] = l
        BY <1>4, <3>4 DEF PartlyUndone
      <4> HIDE DEF V, l
      <4>2. \A u \in V : u <= keep
        BY <2>0, <3>2, <3>4
      <4>3. Newest(V, keep, l)
        BY <3>1, <4>2 DEF Newest
      <4>4. QED
        BY <3>1, <4>1, <4>2, <4>3 DEF V
    <3>5. QED
      BY <3>3, <3>4
  <2>3. DOMAIN x.last = {k \in DOMAIN tree.last : \E u \in Versions(tree, k) : u <= keep}
    BY <1>4, <2>2 DEF PartlyUndone
  <2>4. \A k \in DOMAIN x.last : Newest(Versions(tree, k), keep, x.last[k])
    BY <2>2, <2>3
  <2>5. QED
    BY <1>4, <2>1, <2>3, <2>4 DEF IsCut, PartlyUndone
<1>5. QED
  BY <1>3, <1>4

-----------------------------------------------------------------------------
(* The trees together.                                                     *)

DbFields ==
    {"balances", "nonces", "accounts_count", "registrations", "registrations_prefixed"}

\* An account has a nonce from the topoheight of its first balance on: only
\* then do a reordering and a rewind drop both or none, and the registrations
\* name that topoheight.
GoodDb(d, low, high) ==
    /\ DOMAIN d = DbFields
    /\ GoodTree(d.balances, low, high, SUBSET Block)
    /\ GoodTree(d.nonces, low, high, Nat)
    /\ \A k \in Account, n \in Int :
          (\E u \in Versions(d.balances, k) : u <= n) <=> (\E u \in Versions(d.nonces, k) : u <= n)
    /\ d.accounts_count = Cardinality(DOMAIN d.nonces.last)
    /\ DOMAIN d.registrations = DOMAIN d.balances.last
    /\ \A k \in DOMAIN d.registrations :
          /\ d.registrations[k] \in Versions(d.balances, k)
          /\ \A u \in Versions(d.balances, k) : d.registrations[k] <= u
    /\ d.registrations_prefixed = {<<d.registrations[k], k>> : k \in DOMAIN d.registrations}

\* The ledger a reader sees at topoheight m.
Read(d, m) ==
    [k \in Account |->
        [balance |-> Value(d.balances, k, m, {}), nonce |-> Value(d.nonces, k, m, -1)]]

\* x is what d was at topoheight n.
CutDb(x, d, n) ==
    /\ DOMAIN x = DbFields
    /\ IsCut(x.balances, d.balances, n)
    /\ IsCut(x.nonces, d.nonces, n)
    /\ x.accounts_count = Cardinality(DOMAIN x.nonces.last)
    /\ DOMAIN x.registrations = {k \in DOMAIN d.registrations : d.registrations[k] <= n}
    /\ \A k \in DOMAIN x.registrations : x.registrations[k] = d.registrations[k]
    /\ x.registrations_prefixed = {<<x.registrations[k], k>> : k \in DOMAIN x.registrations}

\* The versions left are within the new bounds.
LEMMA CutBounds ==
    ASSUME NEW tree, NEW low \in Nat, NEW high \in Int, NEW Values,
           GoodTree(tree, low, high, Values), NEW n \in Int, NEW low2 \in Nat,
           low2 <= low \/ n < low, NEW cut, IsCut(cut, tree, n)
    PROVE  DOMAIN cut.ver \subseteq (low2..n) \X Account
<1>1. SUFFICES ASSUME NEW p \in DOMAIN cut.ver PROVE p \in (low2..n) \X Account
  OBVIOUS
<1>2. p \in (low..high) \X Account /\ p[1] <= n
  BY DEF IsCut, GoodTree
<1>3. p = <<p[1], p[2]>> /\ p[1] \in Int /\ low <= p[1] /\ p[2] \in Account
  BY <1>2
<1>4. p[1] \in low2..n
  BY <1>2, <1>3
<1>5. QED
  BY <1>3, <1>4

\* What d was at topoheight n is good, and reads like d up to n.
LEMMA CutDbGood ==
    ASSUME NEW d, NEW low \in Nat, NEW high \in Int, high <= MaxTopo, GoodDb(d, low, high),
           NEW n \in Int, n <= MaxTopo, NEW low2 \in Nat, low2 <= low \/ n < low,
           NEW x, CutDb(x, d, n)
    PROVE  /\ GoodDb(x, low2, n)
           /\ \A m \in Int : m <= n => Read(x, m) = Read(d, m)
<1> DEFINE B == SUBSET Block
<1>1. /\ GoodTree(d.balances, low, high, B) /\ GoodTree(d.nonces, low, high, Nat)
      /\ IsCut(x.balances, d.balances, n) /\ IsCut(x.nonces, d.nonces, n)
  BY DEF GoodDb, CutDb
<1> HIDE DEF B
<1>2. /\ DOMAIN x.balances.ver \subseteq (low2..n) \X Account
      /\ DOMAIN x.nonces.ver \subseteq (low2..n) \X Account
  BY <1>1, CutBounds
<1>3. /\ GoodTree(x.balances, low2, n, B)
      /\ \A k \in Account : Versions(x.balances, k) = {u \in Versions(d.balances, k) : u <= n}
      /\ \A k \in Account, m \in Int : \A default :
            m <= n => Value(x.balances, k, m, default) = Value(d.balances, k, m, default)
  <2>1. PICK tree, cut : tree = d.balances /\ cut = x.balances
    OBVIOUS
  <2>2. /\ GoodTree(tree, low, high, B) /\ IsCut(cut, tree, n)
        /\ DOMAIN cut.ver \subseteq (low2..n) \X Account
    BY <1>1, <1>2, <2>1
  <2>3. LinkedUpTo(cut, tree, n, low2, B)
    BY <2>2, CutGood
  <2>4. QED
    BY <2>1, <2>3 DEF LinkedUpTo
<1>4. /\ GoodTree(x.nonces, low2, n, Nat)
      /\ \A k \in Account : Versions(x.nonces, k) = {u \in Versions(d.nonces, k) : u <= n}
      /\ \A k \in Account, m \in Int : \A default :
            m <= n => Value(x.nonces, k, m, default) = Value(d.nonces, k, m, default)
  <2>1. PICK tree, cut : tree = d.nonces /\ cut = x.nonces
    OBVIOUS
  <2>2. /\ GoodTree(tree, low, high, Nat) /\ IsCut(cut, tree, n)
        /\ DOMAIN cut.ver \subseteq (low2..n) \X Account
    BY <1>1, <1>2, <2>1
  <2>3. LinkedUpTo(cut, tree, n, low2, Nat)
    BY <2>2, CutGood
  <2>4. QED
    BY <2>1, <2>3 DEF LinkedUpTo
<1>5. ASSUME NEW k \in Account, NEW m \in Int
      PROVE  (\E u \in Versions(x.balances, k) : u <= m) <=> (\E u \in Versions(x.nonces, k) : u <= m)
  <2> DEFINE V == Versions(d.balances, k)
             W == Versions(d.nonces, k)
             l == IF m <= n THEN m ELSE n
  <2>1. V \in SUBSET Nat /\ W \in SUBSET Nat
    BY VersionsAre
  <2>2. (\E u \in V : u <= l) <=> (\E u \in W : u <= l)
    BY DEF GoodDb
  <2>3. Versions(x.balances, k) = {u \in V : u <= n} /\ Versions(x.nonces, k) = {u \in W : u <= n}
    BY <1>3, <1>4
  <2> HIDE DEF V, W
  <2>4. \A u \in Int : u <= n /\ u <= m <=> u <= l
    OBVIOUS
  <2> HIDE DEF l
  <2>5. (\E u \in {w \in V : w <= n} : u <= m) <=> (\E u \in V : u <= l)
    BY <2>1, <2>4
  <2>6. (\E u \in {w \in W : w <= n} : u <= m) <=> (\E u \in W : u <= l)
    BY <2>1, <2>4
  <2>7. QED
    BY <2>2, <2>3, <2>5, <2>6
<1>6. DOMAIN x.registrations = DOMAIN x.balances.last
  <2>1. ASSUME NEW k \in DOMAIN d.registrations
        PROVE  d.registrations[k] <= n <=> \E u \in Versions(d.balances, k) : u <= n
    <3> DEFINE V == Versions(d.balances, k)
               r == d.registrations[k]
    <3>1. r \in V /\ (\A u \in V : r <= u) /\ V \in SUBSET Nat
      BY VersionsAre DEF GoodDb
    <3> HIDE DEF V, r
    <3>2. r <= n <=> \E u \in V : u <= n
      BY <3>1
    <3>3. QED
      BY <3>2 DEF V, r
  <2>2. DOMAIN d.registrations = DOMAIN d.balances.last
    BY DEF GoodDb
  <2>3. QED
    BY <2>1, <2>2 DEF CutDb, IsCut
<1>7. ASSUME NEW k \in DOMAIN x.registrations
      PROVE  /\ x.registrations[k] \in Versions(x.balances, k)
             /\ \A u \in Versions(x.balances, k) : x.registrations[k] <= u
  <2>1. k \in DOMAIN d.registrations /\ d.registrations[k] <= n /\ x.registrations[k] = d.registrations[k]
    BY DEF CutDb
  <2>2. k \in Account
    BY <2>1 DEF GoodDb, GoodTree
  <2>3. /\ d.registrations[k] \in Versions(d.balances, k)
        /\ \A u \in Versions(d.balances, k) : d.registrations[k] <= u
    BY <2>1 DEF GoodDb
  <2>4. QED
    BY <1>3, <2>1, <2>2, <2>3
<1>8. GoodDb(x, low2, n)
  BY <1>3, <1>4, <1>5, <1>6, <1>7 DEF GoodDb, CutDb, B
<1>9. ASSUME NEW m \in Int, m <= n PROVE Read(x, m) = Read(d, m)
  BY <1>3, <1>4, <1>9 DEF Read
<1>10. QED
  BY <1>8, <1>9

\* Accounts are finitely many, and so are those a tree points to.
LEMMA CountLess ==
    ASSUME NEW S, NEW T, S \subseteq Account, T \subseteq S
    PROVE  Cardinality(S) - Cardinality(S \ T) = Cardinality(T)
<1>1. IsFiniteSet(S) /\ IsFiniteSet(T) /\ IsFiniteSet(S \ T)
  BY StorageAssumption, FS_Subset
<1>2. Cardinality(S \ T) = Cardinality(S) - Cardinality(S \cap T)
  BY <1>1, FS_Difference
<1>3. S \cap T = T
  OBVIOUS
<1>4. Cardinality(S) \in Nat /\ Cardinality(T) \in Nat
  BY <1>1, FS_CardinalityType
<1>5. QED
  BY <1>2, <1>3, <1>4

\* pop_blocks takes the trees back to topoheight n.
LEMMA RewindDbCuts ==
    ASSUME NEW d, NEW low \in Nat, NEW high \in Int, high <= MaxTopo, GoodDb(d, low, high),
           NEW n \in Int
    PROVE  CutDb(RewindDb(d, n), d, n)
<1> DEFINE x == RewindDb(d, n)
           nonces == RewindTree(d.nonces, n)
           gone == {p \in d.registrations_prefixed : p[1] > n}
           keys == DOMAIN d.registrations \ {p[2] : p \in gone}
<1>1. /\ DOMAIN x = DbFields
      /\ x.balances = RewindTree(d.balances, n) /\ x.nonces = nonces
      /\ x.accounts_count = d.accounts_count - Cardinality(DOMAIN d.nonces.last \ DOMAIN nonces.last)
      /\ x.registrations = Restrict(d.registrations, keys)
      /\ x.registrations_prefixed = d.registrations_prefixed \ gone
  BY DEF RewindDb, DbFields
<1> HIDE DEF x
<1>2. IsCut(x.balances, d.balances, n) /\ IsCut(x.nonces, d.nonces, n)
  BY <1>1, RewindCuts DEF GoodDb
<1>3. x.accounts_count = Cardinality(DOMAIN x.nonces.last)
  <2>1. DOMAIN d.nonces.last \subseteq Account /\ DOMAIN x.nonces.last \subseteq DOMAIN d.nonces.last
    BY <1>2 DEF GoodDb, GoodTree, IsCut
  <2>2. QED
    BY <1>1, <2>1, CountLess DEF GoodDb
<1>4. \A k \in DOMAIN d.registrations : d.registrations[k] \in Int
  BY VersionsAre DEF GoodDb
<1>5. d.registrations_prefixed = {<<d.registrations[k], k>> : k \in DOMAIN d.registrations}
  BY DEF GoodDb
<1>6. keys = {k \in DOMAIN d.registrations : d.registrations[k] <= n}
  <2>1. ASSUME NEW k \in DOMAIN d.registrations
        PROVE  k \in {p[2] : p \in gone} <=> d.registrations[k] > n
    <3>1. ASSUME d.registrations[k] > n PROVE k \in {p[2] : p \in gone}
      <4>1. <<d.registrations[k], k>> \in gone /\ <<d.registrations[k], k>>[2] = k
        BY <1>5, <3>1
      <4>2. QED
        BY <4>1, Zenon
    <3>2. ASSUME NEW p \in gone, k = p[2] PROVE d.registrations[k] > n
      <4>1. PICK j \in DOMAIN d.registrations : p = <<d.registrations[j], j>>
        BY <1>5
      <4>2. p[1] > n /\ p[1] = d.registrations[j] /\ p[2] = j
        BY <4>1
      <4>3. QED
        BY <3>2, <4>2
    <3>3. QED
      BY <3>1, <3>2, Zenon
  <2>2. QED
    BY <1>4, <2>1
<1>7. DOMAIN x.registrations = keys /\ \A k \in keys : x.registrations[k] = d.registrations[k]
  BY <1>1 DEF Restrict
<1>8. x.registrations_prefixed = {<<x.registrations[k], k>> : k \in DOMAIN x.registrations}
  <2>1. d.registrations_prefixed \ gone = {<<d.registrations[k], k>> : k \in keys}
    BY <1>4, <1>5, <1>6
  <2> HIDE DEF keys, gone
  <2>2. {<<d.registrations[k], k>> : k \in keys} = {<<x.registrations[k], k>> : k \in keys}
    BY <1>7
  <2>3. QED
    BY <1>1, <1>7, <2>1, <2>2
<1>9. CutDb(x, d, n)
  BY <1>1, <1>2, <1>3, <1>6, <1>7, <1>8 DEF CutDb
<1>10. QED
  BY <1>9 DEF x

\* The i topoheights above keep are undone in all the trees.
PartlyUndoneDb(x, d, keep, i) ==
    /\ DOMAIN x = DbFields
    /\ PartlyUndone(x.balances, d.balances, keep, i)
    /\ PartlyUndone(x.nonces, d.nonces, keep, i)
    /\ x.accounts_count = Cardinality(DOMAIN x.nonces.last)
    /\ DOMAIN x.registrations =
          {k \in DOMAIN d.registrations : d.registrations[k] <= keep \/ d.registrations[k] > keep + i}
    /\ \A k \in DOMAIN x.registrations : x.registrations[k] = d.registrations[k]
    /\ x.registrations_prefixed = {<<x.registrations[k], k>> : k \in DOMAIN x.registrations}

\* The fields of the trees after the versions of one topoheight are deleted.
DeletedAt(y, x, t) ==
    LET gone == {p \in x.registrations_prefixed : p[1] = t}
    IN /\ DOMAIN y = DbFields
       /\ y.balances = DeleteVersionsAt(x.balances, t)
       /\ y.nonces = DeleteVersionsAt(x.nonces, t)
       /\ y.accounts_count = x.accounts_count - Cardinality(Emptied(x.nonces, t))
       /\ y.registrations_prefixed = x.registrations_prefixed \ gone
       /\ y.registrations = Restrict(x.registrations, DOMAIN x.registrations \ {p[2] : p \in gone})

LEMMA DeleteAtIs ==
    ASSUME NEW x, DOMAIN x = DbFields, NEW t
    PROVE  DeletedAt(DeleteAt(x, t), x, t)
<1> DEFINE b == DeleteVersionsAt(x.balances, t)
           n == DeleteVersionsAt(x.nonces, t)
           c == x.accounts_count - Cardinality(Emptied(x.nonces, t))
           z == [x EXCEPT !.balances = b, !.nonces = n, !.accounts_count = c]
           gone == {p \in z.registrations_prefixed : p[1] = t}
           r == Restrict(z.registrations, DOMAIN z.registrations \ {p[2] : p \in gone})
           y == [z EXCEPT !.registrations_prefixed = z.registrations_prefixed \ gone,
                          !.registrations = r]
<1>1. DeleteAt(x, t) = y
  BY DEF DeleteAt, DeleteRegistrationsAt
<1> HIDE DEF b, n, c
<1>2. /\ DOMAIN z = DbFields /\ z.balances = b /\ z.nonces = n /\ z.accounts_count = c
      /\ z.registrations = x.registrations /\ z.registrations_prefixed = x.registrations_prefixed
  BY DEF DbFields
<1> HIDE DEF z, gone, r
<1>3. /\ DOMAIN y = DbFields /\ y.balances = b /\ y.nonces = n /\ y.accounts_count = c
      /\ y.registrations = r /\ y.registrations_prefixed = x.registrations_prefixed \ gone
  BY <1>2 DEF DbFields
<1> HIDE DEF y
<1>4. QED
  BY <1>1, <1>2, <1>3 DEF b, n, c, gone, r, DeletedAt

LEMMA DeleteAtStep ==
    ASSUME NEW d, NEW low \in Nat, NEW high \in Int, high <= MaxTopo, GoodDb(d, low, high),
           NEW keep \in Nat, NEW i \in Nat, NEW x, PartlyUndoneDb(x, d, keep, i),
           NEW t, t = keep + (i + 1)
    PROVE  PartlyUndoneDb(DeleteAt(x, t), d, keep, i + 1)
<1> DEFINE y == DeleteAt(x, t)
           gone == {p \in x.registrations_prefixed : p[1] = t}
           keys == DOMAIN x.registrations \ {p[2] : p \in gone}
<1>1. /\ DOMAIN y = DbFields
      /\ y.balances = DeleteVersionsAt(x.balances, t)
      /\ y.nonces = DeleteVersionsAt(x.nonces, t)
      /\ y.accounts_count = x.accounts_count - Cardinality(Emptied(x.nonces, t))
      /\ y.registrations_prefixed = x.registrations_prefixed \ gone
      /\ y.registrations = Restrict(x.registrations, keys)
  <2>1. DOMAIN x = DbFields
    BY DEF PartlyUndoneDb
  <2>2. DeletedAt(y, x, t)
    BY <2>1, DeleteAtIs
  <2> HIDE DEF y
  <2>3. QED
    BY <2>2 DEF DeletedAt
<1> HIDE DEF y
<1>2. PartlyUndone(y.balances, d.balances, keep, i + 1)
  <2>1. PICK tree, z : tree = d.balances /\ z = x.balances
    OBVIOUS
  <2>2. GoodTree(tree, low, high, SUBSET Block) /\ PartlyUndone(z, tree, keep, i)
    BY <2>1 DEF GoodDb, PartlyUndoneDb
  <2>3. PartlyUndone(DeleteVersionsAt(z, t), tree, keep, i + 1)
    BY <2>2, DeleteStep
  <2>4. QED
    BY <1>1, <2>1, <2>3
<1>3. /\ PartlyUndone(y.nonces, d.nonces, keep, i + 1)
      /\ DOMAIN y.nonces.last = DOMAIN x.nonces.last \ Emptied(x.nonces, t)
  <2>1. PICK tree, z : tree = d.nonces /\ z = x.nonces
    OBVIOUS
  <2>2. GoodTree(tree, low, high, Nat) /\ PartlyUndone(z, tree, keep, i)
    BY <2>1 DEF GoodDb, PartlyUndoneDb
  <2>3. PartlyUndone(DeleteVersionsAt(z, t), tree, keep, i + 1)
    BY <2>2, DeleteStep
  <2>4. DOMAIN DeleteVersionsAt(z, t).last = DOMAIN z.last \ Emptied(z, t)
    BY DEF DeleteVersionsAt
  <2>5. QED
    BY <1>1, <2>1, <2>3, <2>4
<1>4. y.accounts_count = Cardinality(DOMAIN y.nonces.last)
  <2> DEFINE S == DOMAIN x.nonces.last
             E == Emptied(x.nonces, t)
             T == DOMAIN y.nonces.last
  <2>1. S \subseteq Account /\ E \subseteq S /\ x.accounts_count = Cardinality(S)
    BY DEF PartlyUndoneDb, PartlyUndone, GoodDb, GoodTree, Emptied, Moved
  <2>2. T = S \ E /\ y.accounts_count = Cardinality(S) - Cardinality(E)
    BY <1>1, <1>3, <2>1
  <2> HIDE DEF S, E, T
  <2>3. T \subseteq S /\ S \ T = E
    BY <2>1, <2>2
  <2>4. Cardinality(S) - Cardinality(S \ T) = Cardinality(T)
    BY <2>1, <2>3, CountLess
  <2>5. QED
    BY <2>2, <2>3, <2>4 DEF T
<1>5. /\ \A k \in DOMAIN d.registrations : d.registrations[k] \in Int
      /\ \A k \in DOMAIN x.registrations : x.registrations[k] = d.registrations[k]
      /\ x.registrations_prefixed = {<<x.registrations[k], k>> : k \in DOMAIN x.registrations}
  BY VersionsAre DEF GoodDb, PartlyUndoneDb
<1>6. keys = {k \in DOMAIN x.registrations : x.registrations[k] # t}
  <2>1. ASSUME NEW k \in DOMAIN x.registrations
        PROVE  k \in {p[2] : p \in gone} <=> x.registrations[k] = t
    <3>1. ASSUME x.registrations[k] = t PROVE k \in {p[2] : p \in gone}
      <4>1. <<x.registrations[k], k>> \in gone /\ <<x.registrations[k], k>>[2] = k
        BY <1>5, <3>1
      <4>2. QED
        BY <4>1, Zenon
    <3>2. ASSUME NEW p \in gone, k = p[2] PROVE x.registrations[k] = t
      <4>1. PICK j \in DOMAIN x.registrations : p = <<x.registrations[j], j>>
        BY <1>5
      <4>2. p[1] = t /\ p[1] = x.registrations[j] /\ p[2] = j
        BY <4>1
      <4>3. QED
        BY <3>2, <4>2
    <3>3. QED
      BY <3>1, <3>2, Zenon
  <2>2. QED
    BY <2>1
<1>7. DOMAIN y.registrations = keys /\ \A k \in keys : y.registrations[k] = d.registrations[k]
  BY <1>1, <1>5 DEF Restrict
<1>8. keys = {k \in DOMAIN d.registrations :
                 d.registrations[k] <= keep \/ d.registrations[k] > keep + (i + 1)}
  <2>1. \A k \in DOMAIN d.registrations :
           (d.registrations[k] <= keep \/ d.registrations[k] > keep + i) /\ d.registrations[k] # t
             <=> d.registrations[k] <= keep \/ d.registrations[k] > keep + (i + 1)
    BY <1>5
  <2>2. DOMAIN x.registrations =
           {k \in DOMAIN d.registrations : d.registrations[k] <= keep \/ d.registrations[k] > keep + i}
    BY DEF PartlyUndoneDb
  <2>3. QED
    BY <1>5, <1>6, <2>1, <2>2
<1>9. y.registrations_prefixed = {<<y.registrations[k], k>> : k \in DOMAIN y.registrations}
  <2>1. x.registrations_prefixed \ gone = {<<x.registrations[k], k>> : k \in keys}
    BY <1>5, <1>6
  <2> HIDE DEF keys, gone
  <2>2. {<<x.registrations[k], k>> : k \in keys} = {<<y.registrations[k], k>> : k \in keys}
    BY <1>5, <1>6, <1>7
  <2>3. QED
    BY <1>1, <1>7, <2>1, <2>2
<1>10. PartlyUndoneDb(y, d, keep, i + 1)
  BY <1>1, <1>2, <1>3, <1>4, <1>5, <1>7, <1>8, <1>9 DEF PartlyUndoneDb
<1>11. QED
  BY <1>10 DEF y

\* A reordering deletes the versions of one topoheight after the other.
LEMMA UndoneInTurn ==
    ASSUME NEW d, NEW keep, NEW n \in Nat
    PROVE  \E f : /\ f[0] = d
                  /\ \A i \in 1..n : f[i] = DeleteAt(f[i - 1], keep + i)
                  /\ Undone(d, keep, n) = f[n]
<1> DEFINE Step(g, i) == IF i = 0 THEN d ELSE DeleteAt(g[i - 1], keep + i)
           Solved(g, j) == g = [i \in 0..j |-> Step(g, i)]
           at == CHOOSE g : Solved(g, n)
<1>0. n \in Nat
  OBVIOUS
<1>1. Undone(d, keep, n) = at[n]
  BY Zenon DEF Undone
<1>2. \E g : Solved(g, n)
  <2> DEFINE N == {j \in Nat : \E g : Solved(g, j)}
  <2>1. 0 \in N
    <3>1. Solved([i \in 0..0 |-> d], 0)
      <4> HIDE DEF Step
      <4>1. \A g, i : i = 0 => Step(g, i) = d
        BY DEF Step
      <4>2. QED
        BY <4>1
    <3>2. QED
      BY <3>1
  <2>2. ASSUME NEW j \in Nat, j \in N PROVE j + 1 \in N
    <3>1. PICK g : Solved(g, j)
      BY <2>2
    <3> DEFINE h == [i \in 0..(j + 1) |-> IF i = j + 1 THEN Step(g, i) ELSE g[i]]
    <3>2. ASSUME NEW i \in 0..(j + 1) PROVE h[i] = Step(h, i)
      <4>1. i = 0 \/ i - 1 \in 0..j
        OBVIOUS
      <4>2. i \in 0..j => g[i] = Step(g, i)
        BY <3>1
      <4>3. \A l \in 0..j : h[l] = g[l]
        OBVIOUS
      <4>4. Step(h, i) = Step(g, i)
        BY <4>1, <4>3
      <4>5. QED
        BY <4>2, <4>4
    <3>3. h = [i \in 0..(j + 1) |-> h[i]]
      OBVIOUS
    <3> HIDE DEF h, Step
    <3>4. Solved(h, j + 1)
      BY <3>2, <3>3
    <3>5. QED
      BY <3>4
  <2> HIDE DEF N
  <2>3. n \in N
    BY <1>0, <2>1, <2>2, NatSetInduction
  <2> HIDE DEF Solved
  <2>4. QED
    BY <2>3 DEF N
<1>3. Solved(at, n)
  BY <1>2, Zenon
<1> HIDE DEF at
<1>4. \A i \in 0..n : at[i] = Step(at, i)
  <2> HIDE DEF Step
  <2>1. QED
    BY <1>3
<1>5. at[0] = d /\ \A i \in 1..n : at[i] = DeleteAt(at[i - 1], keep + i)
  <2>1. 0 \in 0..n /\ (\A i \in 1..n : i \in 0..n /\ i # 0)
    BY <1>0
  <2>2. QED
    BY <1>4, <2>1, Zenon
<1>6. QED
  BY <1>1, <1>5

\* A reordering takes the trees back to topoheight keep.
LEMMA UndoneDbCuts ==
    ASSUME NEW d, NEW low \in Nat, NEW high \in Int, high <= MaxTopo, GoodDb(d, low, high),
           NEW keep \in Nat, keep <= high
    PROVE  CutDb(Undone(d, keep, high - keep), d, keep)
<1> DEFINE n == high - keep
<1>0. n \in Nat
  OBVIOUS
<1>1. PICK f : /\ f[0] = d
               /\ \A i \in 1..n : f[i] = DeleteAt(f[i - 1], keep + i)
               /\ Undone(d, keep, n) = f[n]
  BY <1>0, UndoneInTurn
<1>2. GoodTree(d.balances, low, high, SUBSET Block) /\ GoodTree(d.nonces, low, high, Nat)
  BY DEF GoodDb
<1>3. /\ PartlyUndone(d.balances, d.balances, keep, 0) /\ PartlyUndone(d.nonces, d.nonces, keep, 0)
      /\ \A x : PartlyUndone(x, d.balances, keep, n) => IsCut(x, d.balances, keep)
      /\ \A x : PartlyUndone(x, d.nonces, keep, n) => IsCut(x, d.nonces, keep)
  BY <1>2, UndoneCuts
<1>4. \A k \in DOMAIN d.registrations : d.registrations[k] \in Int /\ d.registrations[k] <= high
  <2>1. ASSUME NEW k \in DOMAIN d.registrations
        PROVE  d.registrations[k] \in Int /\ d.registrations[k] <= high
    <3>1. d.registrations[k] \in Versions(d.balances, k)
      BY DEF GoodDb
    <3>2. <<d.registrations[k], k>> \in (low..high) \X Account
      BY <1>2, <3>1, VersionsAre DEF GoodTree
    <3>3. QED
      BY <3>2
  <2>2. QED
    BY <2>1
<1> DEFINE N == {i \in Nat : i <= n => PartlyUndoneDb(f[i], d, keep, i)}
<1>5. 0 \in N
  <2>1. DOMAIN d.registrations =
           {k \in DOMAIN d.registrations : d.registrations[k] <= keep \/ d.registrations[k] > keep + 0}
    BY <1>4
  <2>2. PartlyUndoneDb(d, d, keep, 0)
    BY <1>3, <2>1 DEF PartlyUndoneDb, GoodDb
  <2>3. QED
    BY <1>1, <2>2
<1>6. ASSUME NEW i \in Nat, i \in N PROVE i + 1 \in N
  <2>1. SUFFICES ASSUME i + 1 <= n PROVE PartlyUndoneDb(f[i + 1], d, keep, i + 1)
    OBVIOUS
  <2>2. PartlyUndoneDb(f[i], d, keep, i)
    BY <1>0, <1>6, <2>1
  <2>3. i + 1 \in 1..n /\ (i + 1) - 1 = i
    BY <1>0, <2>1
  <2>4. f[i + 1] = DeleteAt(f[i], keep + (i + 1))
    BY <1>1, <2>3, Zenon
  <2>5. QED
    BY <2>2, <2>4, DeleteAtStep
<1> HIDE DEF N
<1>7. PartlyUndoneDb(f[n], d, keep, n)
  <2>1. n \in N
    BY <1>0, <1>5, <1>6, NatSetInduction
  <2>2. QED
    BY <1>0, <2>1 DEF N
<1>8. CutDb(f[n], d, keep)
  <2>1. PICK x : x = f[n]
    OBVIOUS
  <2>2. PartlyUndoneDb(x, d, keep, n)
    BY <1>7, <2>1
  <2>3. \A k \in DOMAIN d.registrations :
           d.registrations[k] <= keep \/ d.registrations[k] > keep + n <=> d.registrations[k] <= keep
    BY <1>4
  <2> HIDE DEF n
  <2>4. CutDb(x, d, keep)
    BY <1>3, <2>2, <2>3 DEF PartlyUndoneDb, CutDb
  <2>5. QED
    BY <2>1, <2>4
<1>9. QED
  BY <1>1, <1>8

-----------------------------------------------------------------------------
(* Executing a block.                                                      *)

\* new holds versions of topoheight t that may be added to the tree.
Fresh(tree, t, new, Values) ==
    /\ DOMAIN new \subseteq Account
    /\ \A k \in DOMAIN new :
          /\ t \notin Versions(tree, k)
          /\ new[k] \in [value : Values, prev : Topo \cup {NoTopo}]
          /\ new[k].prev = AtMaximum(tree, k, t)

\* x is the tree with these versions: linked, and changed for readers at t only.
Extended(x, tree, t, new, low, Values) ==
    /\ GoodTree(x, low, t, Values)
    /\ DOMAIN x.last = DOMAIN tree.last \cup DOMAIN new
    /\ \A k \in Account : Versions(x, k) = Versions(tree, k)
                            \cup (IF k \in DOMAIN new THEN {t} ELSE {})
    /\ \A k \in Account, m \in Int : \A default :
          m < t \/ k \notin DOMAIN new => Value(x, k, m, default) = Value(tree, k, m, default)
    /\ \A k \in DOMAIN new : \A default : Value(x, k, t, default) = new[k].value

LEMMA SetLastExtends ==
    ASSUME NEW tree, NEW low \in Nat, NEW t \in Topo, low <= t, NEW Values,
           GoodTree(tree, low, t, Values), NEW new, Fresh(tree, t, new, Values)
    PROVE  Extended(SetLast(tree, t, new), tree, t, new, low, Values)
<1> DEFINE x == SetLast(tree, t, new)
<1>0. t \in Int /\ t <= MaxTopo
  BY StorageAssumption DEF Topo
<1>1. /\ GoodTree(x, low, t, Values)
      /\ DOMAIN x.last = DOMAIN tree.last \cup DOMAIN new
      /\ \A k \in Account : Versions(x, k) = Versions(tree, k)
                              \cup (IF k \in DOMAIN new THEN {t} ELSE {})
      /\ \A k \in Account : \A u \in Versions(tree, k) : x.ver[<<u, k>>] = tree.ver[<<u, k>>]
      /\ \A k \in DOMAIN new : x.ver[<<t, k>>] = new[k]
  BY SetLastGood DEF Fresh
<1> HIDE DEF x
<1>2. ASSUME NEW k \in Account, NEW m \in Int, NEW default, m < t \/ k \notin DOMAIN new
      PROVE  Value(x, k, m, default) = Value(tree, k, m, default)
  <2> DEFINE V == Versions(tree, k)
             W == Versions(x, k)
             r == AtMaximum(tree, k, m)
  <2>1. Newest(V, m, r) /\ V \in SUBSET Nat
    BY <1>0, AtMaximumFinds, VersionsAre
  <2>2. r \in Int /\ W = V \cup (IF k \in DOMAIN new THEN {t} ELSE {})
    BY <1>1, <2>1, NewestIs
  <2>3. Value(tree, k, m, default) = IF r = NoTopo THEN default ELSE tree.ver[<<r, k>>].value
    BY DEF Value
  <2> HIDE DEF V, W, r
  <2>4. Newest(W, m, r)
    <3>1. CASE k \notin DOMAIN new
      BY <2>1, <2>2, <3>1
    <3>2. CASE m < t
      <4>1. \A u \in W : u \in V \/ (~(u <= m) /\ u > m)
        BY <1>0, <2>2, <3>2
      <4>2. V \subseteq W
        BY <2>2
      <4>3. QED
        BY <2>1, <2>2, <4>1, <4>2 DEF Newest
    <3>3. QED
      BY <1>2, <3>1, <3>2
  <2>5. Value(x, k, m, default) = IF r = NoTopo THEN default ELSE x.ver[<<r, k>>].value
    <3>1. Newest(W, m, AtMaximum(x, k, m)) /\ W \in SUBSET Nat
      BY <1>0, <1>1, AtMaximumFinds, VersionsAre DEF W
    <3>2. AtMaximum(x, k, m) = r
      BY <2>4, <3>1, NewestUnique
    <3>3. QED
      BY <3>2 DEF Value
  <2>6. r = NoTopo \/ r \in V
    BY <2>1 DEF Newest
  <2>7. QED
    BY <1>1, <2>3, <2>5, <2>6 DEF V
<1>3. ASSUME NEW k \in DOMAIN new, NEW default PROVE Value(x, k, t, default) = new[k].value
  <2>1. k \in Account /\ Versions(x, k) \in SUBSET Nat /\ t \in Versions(x, k)
    BY <1>1, VersionsAre DEF Fresh
  <2>2. Newest(Versions(x, k), t, t)
    BY <1>0, <2>1 DEF Newest
  <2>3. Value(x, k, t, default) = IF t = NoTopo THEN default ELSE x.ver[<<t, k>>].value
    <3>1. Newest(Versions(x, k), t, AtMaximum(x, k, t))
      BY <1>0, <1>1, <2>1, AtMaximumFinds
    <3>2. AtMaximum(x, k, t) = t
      BY <1>0, <2>1, <2>2, <3>1, NewestUnique
    <3>3. QED
      BY <3>2 DEF Value
  <2>4. t # NoTopo
    BY NoTopoIs DEF Topo
  <2>5. QED
    BY <1>1, <2>3, <2>4
<1>4. Extended(x, tree, t, new, low, Values)
  BY <1>1, <1>2, <1>3 DEF Extended
<1>5. QED
  BY <1>4 DEF x

\* Before the block at t is executed a reader at t sees what one at t - 1 does.
QuietAt(tree, low, t, Values) ==
    /\ GoodTree(tree, low, t, Values)
    /\ \A k \in Account : t \notin Versions(tree, k)
    /\ \A k \in Account : AtMaximum(tree, k, t) = AtMaximum(tree, k, t - 1)
    /\ \A k \in Account : AtMaximum(tree, k, t) # NoTopo <=> k \in DOMAIN tree.last
    /\ \A k \in Account : AtMaximum(tree, k, t) \in Topo \cup {NoTopo}
    /\ \A k \in Account : \A default :
          AtMaximum(tree, k, t) # NoTopo => Value(tree, k, t, default) \in Values
    /\ \A k \in Account : \A default : Value(tree, k, t, default) = Value(tree, k, t - 1, default)

LEMMA NothingAt ==
    ASSUME NEW tree, NEW low \in Nat, NEW t \in Topo, NEW Values,
           GoodTree(tree, low, t - 1, Values)
    PROVE  QuietAt(tree, low, t, Values)
<1>0. t \in Nat /\ t - 1 \in Int /\ t <= MaxTopo /\ t - 1 <= MaxTopo
  BY StorageAssumption DEF Topo
<1>1. GoodTree(tree, low, t, Values)
  <2>1. low..(t - 1) \subseteq low..t
    BY <1>0
  <2>2. DOMAIN tree.ver \subseteq (low..t) \X Account
    BY <2>1 DEF GoodTree
  <2>3. QED
    BY <2>2 DEF GoodTree
<1>2. ASSUME NEW k \in Account, NEW u \in Versions(tree, k) PROVE u \in Nat /\ u <= t - 1
  <2>1. <<u, k>> \in (low..(t - 1)) \X Account
    BY VersionsAre DEF GoodTree
  <2>2. QED
    BY <1>0, <2>1
<1>3. ASSUME NEW k \in Account
      PROVE  /\ AtMaximum(tree, k, t) = AtMaximum(tree, k, t - 1)
             /\ AtMaximum(tree, k, t) # NoTopo <=> k \in DOMAIN tree.last
             /\ AtMaximum(tree, k, t) \in Versions(tree, k) \cup {NoTopo}
  <2> DEFINE V == Versions(tree, k)
             r == AtMaximum(tree, k, t)
             s == AtMaximum(tree, k, t - 1)
  <2>1. V \in SUBSET Nat /\ Newest(V, t, r) /\ Newest(V, t - 1, s)
    BY <1>0, <1>1, AtMaximumFinds, VersionsAre
  <2>2. r \in Int /\ s \in Int
    BY <2>1, NewestIs
  <2>3. \A u \in V : u \in Nat /\ u <= t - 1
    BY <1>2
  <2>4. k \in DOMAIN tree.last <=> V # {}
    BY DEF GoodTree
  <2> HIDE DEF V, r, s
  <2>5. Newest(V, t, s)
    BY <1>0, <2>1, <2>2, <2>3 DEF Newest
  <2>6. r = s
    BY <1>0, <2>1, <2>5, NewestUnique
  <2>7. r # NoTopo <=> V # {}
    <3>1. CASE r = NoTopo
      <4>1. \A u \in V : u > t \/ r \in V
        BY <2>1 DEF Newest
      <4>2. r \notin V
        BY <2>3, <3>1, NoTopoIs
      <4>3. \A u \in V : ~(u > t)
        BY <1>0, <2>3
      <4>4. QED
        BY <3>1, <4>1, <4>2, <4>3
    <3>2. CASE r # NoTopo
      BY <2>1, <3>2 DEF Newest
    <3>3. QED
      BY <3>1, <3>2
  <2>8. r \in V \cup {NoTopo}
    BY <2>1 DEF Newest
  <2>9. QED
    BY <2>4, <2>6, <2>7, <2>8 DEF V, r, s
<1>4. ASSUME NEW k \in Account, NEW default, AtMaximum(tree, k, t) # NoTopo
      PROVE  Value(tree, k, t, default) \in Values
  <2>1. AtMaximum(tree, k, t) \in Versions(tree, k)
    BY <1>3, <1>4
  <2>2. tree.ver[<<AtMaximum(tree, k, t), k>>] \in [value : Values, prev : Topo \cup {NoTopo}]
    BY <2>1 DEF GoodTree
  <2>3. QED
    BY <1>4, <2>2 DEF Value
<1>5. \A k \in Account : t \notin Versions(tree, k)
  BY <1>0, <1>2
<1>6. \A k \in Account : \A default : Value(tree, k, t, default) = Value(tree, k, t - 1, default)
  BY <1>3 DEF Value
<1>7. \A k \in Account : AtMaximum(tree, k, t) \in Topo \cup {NoTopo}
  BY <1>3, VersionsAre
<1>8. QED
  BY <1>1, <1>3, <1>4, <1>5, <1>6, <1>7 DEF QuietAt

\* The versions a block adds: balances, the sender's nonce and first nonces.
NewBalances(d, t, b) == [k \in Touched(d, t, b) |-> NewBalance(d.balances, k, t, b)]
Senders(d, t, b) == IF Runs(d, t, b) THEN {From[b]} ELSE {}
NewNonces(d, t, b) == [k \in Senders(d, t, b) |-> NewNonce(d.nonces, k, t)]
FirstNonces(d, t, b, nonces) ==
    [k \in Touched(d, t, b) \ DOMAIN nonces.last |-> [value |-> 0, prev |-> NoTopo]]

\* The fields of the trees after a block is executed.
ExecutedAt(x, d, t, b) ==
    LET sent == SetLast(d.nonces, t, NewNonces(d, t, b))
        late == {k \in Touched(d, t, b) : ~RegisteredBelow(d, k, t)}
    IN  /\ DOMAIN x = DbFields
        /\ x.balances = SetLast(d.balances, t, NewBalances(d, t, b))
        /\ x.nonces = SetLast(sent, t, FirstNonces(d, t, b, sent))
        /\ x.accounts_count = (d.accounts_count
                                + Cardinality(Senders(d, t, b) \ DOMAIN d.nonces.last))
                              + Cardinality((Touched(d, t, b) \ DOMAIN sent.last) \ DOMAIN sent.last)
        /\ x.registrations = Insert(d.registrations, [k \in late |-> t])
        /\ x.registrations_prefixed =
              (d.registrations_prefixed
                 \ {<<d.registrations[k], k>> : k \in late \cap DOMAIN d.registrations})
              \cup {t} \X late

LEMMA ExecuteIs ==
    ASSUME NEW d, DOMAIN d = DbFields, NEW t, NEW b
    PROVE  ExecutedAt(Execute(d, t, b), d, t, b)
<1> DEFINE touched == Touched(d, t, b)
           senders == Senders(d, t, b)
           newN == NewNonces(d, t, b)
           newB == NewBalances(d, t, b)
           n1 == SetLast(d.nonces, t, newN)
           c1 == d.accounts_count + Cardinality(DOMAIN newN \ DOMAIN d.nonces.last)
           sent == [d EXCEPT !.nonces = n1, !.accounts_count = c1]
           b1 == SetLast(sent.balances, t, newB)
           paid == [sent EXCEPT !.balances = b1]
           newF == FirstNonces(d, t, b, paid.nonces)
           n2 == SetLast(paid.nonces, t, newF)
           c2 == paid.accounts_count + Cardinality(DOMAIN newF \ DOMAIN paid.nonces.last)
           known == [paid EXCEPT !.nonces = n2, !.accounts_count = c2]
           late == {k \in touched : ~RegisteredBelow(known, k, t)}
           r == Insert(known.registrations, [k \in late |-> t])
           rp == (known.registrations_prefixed
                    \ {<<known.registrations[k], k>> : k \in late \cap DOMAIN known.registrations})
                 \cup {t} \X late
           x == [known EXCEPT !.registrations = r, !.registrations_prefixed = rp]
<1>1. Execute(d, t, b) = x
  BY Zenon DEF Execute, SaveNonces, Register, Senders, NewNonces, NewBalances, FirstNonces
<1>2. DOMAIN newN = senders
  BY DEF NewNonces
<1> HIDE DEF n1, c1
<1>3. /\ DOMAIN sent = DbFields /\ sent.balances = d.balances /\ sent.nonces = n1
      /\ sent.accounts_count = c1 /\ sent.registrations = d.registrations
      /\ sent.registrations_prefixed = d.registrations_prefixed
  BY DEF DbFields
<1> HIDE DEF sent, b1
<1>4. /\ DOMAIN paid = DbFields /\ paid.balances = b1 /\ paid.nonces = n1
      /\ paid.accounts_count = c1 /\ paid.registrations = d.registrations
      /\ paid.registrations_prefixed = d.registrations_prefixed
  BY <1>3 DEF DbFields
<1>5. DOMAIN newF = touched \ DOMAIN n1.last
  BY <1>4 DEF FirstNonces
<1> HIDE DEF paid, n2, c2
<1>6. /\ DOMAIN known = DbFields /\ known.balances = b1 /\ known.nonces = n2
      /\ known.accounts_count = c2 /\ known.registrations = d.registrations
      /\ known.registrations_prefixed = d.registrations_prefixed
  BY <1>4 DEF DbFields
<1> HIDE DEF known, r, rp
<1>7. /\ DOMAIN x = DbFields /\ x.balances = b1 /\ x.nonces = n2
      /\ x.accounts_count = c2 /\ x.registrations = r
      /\ x.registrations_prefixed = rp
  BY <1>6 DEF DbFields
<1>8. late = {k \in Touched(d, t, b) : ~RegisteredBelow(d, k, t)}
  BY <1>6 DEF RegisteredBelow
<1> HIDE DEF x, late
<1>9. b1 = SetLast(d.balances, t, NewBalances(d, t, b))
  BY <1>3 DEF b1
<1>10. n1 = SetLast(d.nonces, t, NewNonces(d, t, b)) /\ n2 = SetLast(n1, t, FirstNonces(d, t, b, n1))
  BY <1>4 DEF n1, n2
<1>11. c2 = (d.accounts_count + Cardinality(Senders(d, t, b) \ DOMAIN d.nonces.last))
            + Cardinality((Touched(d, t, b) \ DOMAIN n1.last) \ DOMAIN n1.last)
  BY <1>2, <1>4, <1>5 DEF c1, c2
<1>12. r = Insert(d.registrations, [k \in late |-> t])
       /\ rp = (d.registrations_prefixed
                 \ {<<d.registrations[k], k>> : k \in late \cap DOMAIN d.registrations})
              \cup {t} \X late
  BY <1>6 DEF r, rp
<1>13. ExecutedAt(x, d, t, b)
  BY <1>7, <1>8, <1>9, <1>10, <1>11, <1>12 DEF ExecutedAt
<1>14. QED
  BY <1>1, <1>13

\* What a block does to the two versioned trees.
GrownTrees(xB, xN, d, t, b, low) ==
    LET T == Touched(d, t, b)
        S == Senders(d, t, b)
        known == DOMAIN d.nonces.last
    IN  /\ T \subseteq Account /\ S \subseteq T /\ S \subseteq known
        /\ GoodTree(xB, low, t, SUBSET Block) /\ GoodTree(xN, low, t, Nat)
        /\ DOMAIN xB.last = DOMAIN d.balances.last \cup T
        /\ DOMAIN xN.last = known \cup T
        /\ \A k \in Account :
              /\ Versions(xB, k) = Versions(d.balances, k) \cup (IF k \in T THEN {t} ELSE {})
              /\ Versions(xN, k) = Versions(d.nonces, k)
                                     \cup (IF k \in S \cup (T \ known) THEN {t} ELSE {})
        /\ \A k \in Account, m \in Int : \A default :
              m < t => /\ Value(xB, k, m, default) = Value(d.balances, k, m, default)
                       /\ Value(xN, k, m, default) = Value(d.nonces, k, m, default)
        /\ \A k \in Account : \A default :
              /\ k \in T => Value(xB, k, t, default) = Value(d.balances, k, t, {}) \cup {b}
              /\ k \notin T => Value(xB, k, t, default) = Value(d.balances, k, t, default)
              /\ k \in S => Value(xN, k, t, default) = Value(d.nonces, k, t, 0) + 1
              /\ k \in T \ known => Value(xN, k, t, default) = 0
              /\ k \notin S \cup (T \ known) =>
                    Value(xN, k, t, default) = Value(d.nonces, k, t, default)

LEMMA ExecuteGrows ==
    ASSUME NEW d, NEW low \in Nat, NEW t \in Topo, low <= t, GoodDb(d, low, t - 1),
           NEW b \in Block, NEW x, ExecutedAt(x, d, t, b)
    PROVE  GrownTrees(x.balances, x.nonces, d, t, b, low)
<1>1. PICK B : B = d.balances
  OBVIOUS
<1>2. PICK N : N = d.nonces
  OBVIOUS
<1>3. PICK V : V = SUBSET Block
  OBVIOUS
<1>4. GoodTree(B, low, t - 1, V) /\ GoodTree(N, low, t - 1, Nat)
  BY <1>1, <1>2, <1>3 DEF GoodDb
<1>5. /\ GoodTree(B, low, t, V)
      /\ \A k \in Account : t \notin Versions(B, k)
      /\ \A k \in Account : AtMaximum(B, k, t) \in Topo \cup {NoTopo}
      /\ \A k \in Account : \A default : AtMaximum(B, k, t) # NoTopo => Value(B, k, t, default) \in V
  BY <1>4, NothingAt DEF QuietAt
<1>6. /\ GoodTree(N, low, t, Nat)
      /\ \A k \in Account : t \notin Versions(N, k)
      /\ \A k \in Account : AtMaximum(N, k, t) # NoTopo <=> k \in DOMAIN N.last
      /\ \A k \in Account : AtMaximum(N, k, t) \in Topo \cup {NoTopo}
      /\ \A k \in Account : \A default : AtMaximum(N, k, t) # NoTopo => Value(N, k, t, default) \in Nat
  BY <1>4, NothingAt DEF QuietAt
<1> DEFINE T == Touched(d, t, b)
           S == Senders(d, t, b)
           newB == NewBalances(d, t, b)
           newN == NewNonces(d, t, b)
           sent == SetLast(N, t, newN)
           newF == FirstNonces(d, t, b, sent)
<1>7. T \subseteq Account /\ S \subseteq T /\ S \subseteq DOMAIN N.last
  <2>1. Miner[b] \in Account /\ To[b] \subseteq Account /\ From[b] \in Account \cup {NoAccount}
    BY StorageAssumption
  <2>2. Runs(d, t, b) => From[b] \in Account /\ From[b] \in DOMAIN N.last
    BY <1>2, <1>6, <2>1 DEF Runs
  <2>3. QED
    BY <2>1, <2>2 DEF Touched, Senders
<1>8. /\ DOMAIN newB = T /\ DOMAIN newN = S /\ DOMAIN newF = T \ DOMAIN sent.last
      /\ \A k \in T : newB[k] = NewBalance(B, k, t, b)
      /\ \A k \in S : newN[k] = NewNonce(N, k, t)
      /\ \A k \in DOMAIN newF : newF[k] = [value |-> 0, prev |-> NoTopo]
  BY <1>1, <1>2 DEF NewBalances, NewNonces, FirstNonces
<1>9. x.balances = SetLast(B, t, newB) /\ x.nonces = SetLast(sent, t, newF)
  BY <1>1, <1>2 DEF ExecutedAt
<1> HIDE DEF T, S, newB, newN, newF, sent
<1>10. Fresh(B, t, newB, V)
  <2>1. ASSUME NEW k \in T
        PROVE  /\ newB[k] \in [value : V, prev : Topo \cup {NoTopo}]
               /\ newB[k].prev = AtMaximum(B, k, t)
    <3>1. k \in Account
      BY <1>7
    <3>2. Value(B, k, t, {}) \in V
      BY <1>3, <1>5, <3>1 DEF Value
    <3>3. Value(B, k, t, {}) \cup {b} \in V
      BY <1>3, <3>2
    <3>4. PICK v : v = Value(B, k, t, {}) \cup {b}
      OBVIOUS
    <3>5. v \in V /\ newB[k] = [value |-> v, prev |-> AtMaximum(B, k, t)]
      BY <1>8, <3>3, <3>4 DEF NewBalance
    <3>6. QED
      BY <1>5, <3>1, <3>5
  <2>2. QED
    BY <1>5, <1>7, <1>8, <2>1 DEF Fresh
<1>11. Fresh(N, t, newN, Nat)
  <2>1. ASSUME NEW k \in S
        PROVE  /\ newN[k] \in [value : Nat, prev : Topo \cup {NoTopo}]
               /\ newN[k].prev = AtMaximum(N, k, t)
    <3>1. k \in Account /\ k \in DOMAIN N.last
      BY <1>7
    <3>2. Value(N, k, t, 0) \in Nat
      BY <1>6, <3>1
    <3>3. Value(N, k, t, 0) + 1 \in Nat
      BY <3>2
    <3>4. QED
      BY <1>6, <1>8, <3>1, <3>3 DEF NewNonce
  <2>2. S \subseteq Account
    BY <1>7
  <2>3. QED
    BY <1>6, <1>8, <2>1, <2>2 DEF Fresh
<1>12. Extended(x.balances, B, t, newB, low, V)
  BY <1>5, <1>9, <1>10, SetLastExtends
<1>13. Extended(sent, N, t, newN, low, Nat)
  BY <1>6, <1>11, SetLastExtends DEF sent
<1>14. GoodTree(sent, low, t, Nat) /\ DOMAIN sent.last = DOMAIN N.last
  BY <1>7, <1>8, <1>13 DEF Extended
<1>15. Fresh(sent, t, newF, Nat)
  <2>1. ASSUME NEW k \in DOMAIN newF
        PROVE  /\ k \in Account
               /\ t \notin Versions(sent, k)
               /\ newF[k] \in [value : Nat, prev : Topo \cup {NoTopo}]
               /\ newF[k].prev = AtMaximum(sent, k, t)
    <3>1. k \in Account /\ k \notin DOMAIN sent.last
      BY <1>7, <1>8
    <3>2. Versions(sent, k) = {}
      BY <1>14, <3>1 DEF GoodTree
    <3>3. AtMaximum(sent, k, t) = NoTopo
      BY <3>1 DEF AtMaximum
    <3>4. QED
      BY <1>8, <3>1, <3>2, <3>3
  <2>2. QED
    BY <2>1 DEF Fresh
<1>16. Extended(x.nonces, sent, t, newF, low, Nat)
  BY <1>9, <1>14, <1>15, SetLastExtends
<1>17. GrownTrees(x.balances, x.nonces, d, t, b, low)
  <2>1. PICK xB : xB = x.balances
    OBVIOUS
  <2>2. PICK xN : xN = x.nonces
    OBVIOUS
  <2> DEFINE known == DOMAIN N.last
  <2>3. /\ GoodTree(xB, low, t, V) /\ DOMAIN xB.last = DOMAIN B.last \cup T
        /\ \A k \in Account : Versions(xB, k) = Versions(B, k) \cup (IF k \in T THEN {t} ELSE {})
        /\ \A k \in Account, m \in Int : \A default :
              m < t \/ k \notin T => Value(xB, k, m, default) = Value(B, k, m, default)
        /\ \A k \in T : \A default : Value(xB, k, t, default) = newB[k].value
    BY <1>8, <1>12, <2>1 DEF Extended
  <2>4. /\ GoodTree(xN, low, t, Nat) /\ DOMAIN xN.last = DOMAIN sent.last \cup DOMAIN newF
        /\ \A k \in Account : Versions(xN, k) = Versions(sent, k)
                                \cup (IF k \in DOMAIN newF THEN {t} ELSE {})
        /\ \A k \in Account, m \in Int : \A default :
              m < t \/ k \notin DOMAIN newF => Value(xN, k, m, default) = Value(sent, k, m, default)
        /\ \A k \in DOMAIN newF : \A default : Value(xN, k, t, default) = newF[k].value
    BY <1>16, <2>2 DEF Extended
  <2>5. /\ \A k \in Account : Versions(sent, k) = Versions(N, k) \cup (IF k \in S THEN {t} ELSE {})
        /\ \A k \in Account, m \in Int : \A default :
              m < t \/ k \notin S => Value(sent, k, m, default) = Value(N, k, m, default)
        /\ \A k \in S : \A default : Value(sent, k, t, default) = newN[k].value
    BY <1>8, <1>13 DEF Extended
  <2>6. DOMAIN newF = T \ known /\ S \cap DOMAIN newF = {} /\ DOMAIN xN.last = known \cup T
    BY <1>7, <1>8, <1>14, <2>4
  <2>7. \A k \in Account : Versions(xN, k) = Versions(N, k)
                             \cup (IF k \in S \cup (T \ known) THEN {t} ELSE {})
    <3> HIDE DEF known
    <3>1. QED
      BY <2>4, <2>5, <2>6
  <2>8. t \in Int
    BY DEF Topo
  <2>9. ASSUME NEW k \in Account, NEW m \in Int, NEW default, m < t
        PROVE  /\ Value(xB, k, m, default) = Value(B, k, m, default)
               /\ Value(xN, k, m, default) = Value(N, k, m, default)
    BY <2>3, <2>4, <2>5, <2>9
  <2>10. ASSUME NEW k \in Account, NEW default
         PROVE  /\ k \in T => Value(xB, k, t, default) = Value(B, k, t, {}) \cup {b}
                /\ k \notin T => Value(xB, k, t, default) = Value(B, k, t, default)
                /\ k \in S => Value(xN, k, t, default) = Value(N, k, t, 0) + 1
                /\ k \in T \ known => Value(xN, k, t, default) = 0
                /\ k \notin S \cup (T \ known) => Value(xN, k, t, default) = Value(N, k, t, default)
    <3> HIDE DEF known
    <3>1. k \in T => Value(xB, k, t, default) = Value(B, k, t, {}) \cup {b}
      BY <1>8, <2>3 DEF NewBalance
    <3>2. k \notin T => Value(xB, k, t, default) = Value(B, k, t, default)
      BY <2>3, <2>8
    <3>3. k \in S => Value(xN, k, t, default) = Value(N, k, t, 0) + 1
      <4>1. k \in S => Value(xN, k, t, default) = Value(sent, k, t, default)
        BY <2>4, <2>6, <2>8
      <4>2. k \in S => Value(sent, k, t, default) = newN[k].value /\ newN[k].value = Value(N, k, t, 0) + 1
        BY <1>8, <2>5 DEF NewNonce
      <4>3. QED
        BY <4>1, <4>2
    <3>4. k \in T \ known => Value(xN, k, t, default) = 0
      BY <1>8, <2>4, <2>6
    <3>5. k \notin S \cup (T \ known) => Value(xN, k, t, default) = Value(N, k, t, default)
      BY <2>4, <2>5, <2>6, <2>8
    <3>6. QED
      BY <3>1, <3>2, <3>3, <3>4, <3>5
  <2>11. GrownTrees(xB, xN, d, t, b, low)
    BY <1>1, <1>2, <1>3, <1>7, <2>3, <2>4, <2>6, <2>7, <2>9, <2>10 DEF GrownTrees, T, S
  <2>12. QED
    BY <2>1, <2>2, <2>11
<1>18. QED
  BY <1>17

\* A block leaves the trees good and changes what is read at its topoheight only,
\* there as the history says.
ExecutedWell(x, d, t, b, low) ==
    /\ GoodDb(x, low, t)
    /\ \A m \in Int : m < t => Read(x, m) = Read(d, m)
    /\ Read(x, t) = Promised!After(Read(d, t - 1), b)

LEMMA ExecuteGood ==
    ASSUME NEW d, NEW low \in Nat, NEW t \in Topo, low <= t, GoodDb(d, low, t - 1),
           NEW b \in Block, NEW x, ExecutedAt(x, d, t, b)
    PROVE  GoodDb(x, low, t)
<1> DEFINE T == Touched(d, t, b)
           S == Senders(d, t, b)
           L == DOMAIN d.nonces.last
           R == d.registrations
           late == {k \in T : ~RegisteredBelow(d, k, t)}
<1>0. t \in Nat /\ t <= MaxTopo /\ t - 1 \in Int /\ low \in Int
  BY StorageAssumption DEF Topo
<1>1. GrownTrees(x.balances, x.nonces, d, t, b, low)
  BY ExecuteGrows
<1>2. /\ T \subseteq Account /\ S \subseteq T /\ S \subseteq L /\ L \subseteq Account
      /\ GoodTree(x.balances, low, t, SUBSET Block) /\ GoodTree(x.nonces, low, t, Nat)
      /\ DOMAIN x.balances.last = DOMAIN d.balances.last \cup T
      /\ DOMAIN x.nonces.last = L \cup T
      /\ \A k \in Account :
            /\ Versions(x.balances, k) = Versions(d.balances, k) \cup (IF k \in T THEN {t} ELSE {})
            /\ Versions(x.nonces, k) = Versions(d.nonces, k)
                                         \cup (IF k \in S \cup (T \ L) THEN {t} ELSE {})
  BY <1>1 DEF GrownTrees, GoodDb, GoodTree
<1>3. /\ GoodTree(d.balances, low, t - 1, SUBSET Block) /\ GoodTree(d.nonces, low, t - 1, Nat)
      /\ \A k \in Account, n \in Int :
            (\E u \in Versions(d.balances, k) : u <= n) <=> (\E u \in Versions(d.nonces, k) : u <= n)
      /\ d.accounts_count = Cardinality(L)
      /\ DOMAIN R = DOMAIN d.balances.last
      /\ \A k \in DOMAIN R : R[k] \in Versions(d.balances, k)
                             /\ \A u \in Versions(d.balances, k) : R[k] <= u
      /\ d.registrations_prefixed = {<<R[k], k>> : k \in DOMAIN R}
  BY DEF GoodDb
<1>4. /\ DOMAIN x = DbFields
      /\ x.accounts_count = (d.accounts_count + Cardinality(S \ L))
                            + Cardinality((T \ DOMAIN SetLast(d.nonces, t, NewNonces(d, t, b)).last)
                                             \ DOMAIN SetLast(d.nonces, t, NewNonces(d, t, b)).last)
      /\ x.registrations = Insert(R, [k \in late |-> t])
      /\ x.registrations_prefixed =
            (d.registrations_prefixed \ {<<R[k], k>> : k \in late \cap DOMAIN R}) \cup {t} \X late
  BY DEF ExecutedAt
<1>5. DOMAIN SetLast(d.nonces, t, NewNonces(d, t, b)).last = L
  <2>1. DOMAIN NewNonces(d, t, b) = S
    BY DEF NewNonces
  <2> HIDE DEF S
  <2>2. DOMAIN SetLast(d.nonces, t, NewNonces(d, t, b)).last = L \cup S
    BY <2>1 DEF SetLast, Insert
  <2>3. QED
    BY <1>2, <2>2
<1>6. ASSUME NEW k \in Account
      PROVE  /\ \A u \in Versions(d.balances, k) : u \in Int /\ u < t
             /\ \A u \in Versions(d.nonces, k) : u \in Int /\ u < t
  <2>1. \A u \in Versions(d.balances, k) : <<u, k>> \in (low..(t - 1)) \X Account
    BY <1>3, VersionsAre DEF GoodTree
  <2>2. \A u \in Versions(d.nonces, k) : <<u, k>> \in (low..(t - 1)) \X Account
    BY <1>3, VersionsAre DEF GoodTree
  <2>3. \A u : <<u, k>> \in (low..(t - 1)) \X Account => u \in Int /\ u < t
    BY <1>0
  <2>4. QED
    BY <2>1, <2>2, <2>3
<1>7. /\ DOMAIN d.balances.last \subseteq Account
      /\ \A k \in Account : k \in DOMAIN d.balances.last <=> Versions(d.balances, k) # {}
      /\ \A k \in Account : k \in L <=> Versions(d.nonces, k) # {}
  BY <1>3 DEF GoodTree
<1>8. L = DOMAIN d.balances.last
  <2>1. ASSUME NEW k \in Account
        PROVE  Versions(d.balances, k) # {} <=> Versions(d.nonces, k) # {}
    <3>1. (\E u \in Versions(d.balances, k) : u <= t) <=> (\E u \in Versions(d.nonces, k) : u <= t)
      BY <1>0, <1>3
    <3>2. QED
      BY <1>0, <1>6, <3>1
  <2> HIDE DEF L
  <2>2. QED
    BY <1>2, <1>7, <2>1
<1> HIDE DEF T, S, L, R
<1>9. x.accounts_count = Cardinality(DOMAIN x.nonces.last)
  <2>1. S \ L = {} /\ (T \ L) \ L = T \ L
    BY <1>2
  <2>2. Cardinality(L \cup T) - Cardinality((L \cup T) \ L) = Cardinality(L) /\ (L \cup T) \ L = T \ L
    BY <1>2, CountLess
  <2>3. IsFiniteSet(L) /\ IsFiniteSet(T) /\ IsFiniteSet(L \cup T) /\ IsFiniteSet(T \ L)
    <3>1. L \cup T \subseteq Account /\ T \ L \subseteq Account
      BY <1>2
    <3>2. QED
      BY <1>2, <3>1, StorageAssumption, FS_Subset
  <2>4. Cardinality({}) = 0 /\ Cardinality(L) \in Nat /\ Cardinality(L \cup T) \in Nat
        /\ Cardinality(T \ L) \in Nat
    BY <2>3, FS_EmptySet, FS_CardinalityType
  <2>5. x.accounts_count = (Cardinality(L) + Cardinality({})) + Cardinality(T \ L)
    BY <1>3, <1>4, <1>5, <2>1
  <2>6. Cardinality(L) + Cardinality(T \ L) = Cardinality(L \cup T)
    BY <2>2, <2>4
  <2>7. QED
    BY <1>2, <2>4, <2>5, <2>6
<1>10. late = T \ DOMAIN R
  <2>1. ASSUME NEW k \in T PROVE RegisteredBelow(d, k, t) <=> k \in DOMAIN R
    <3>1. ASSUME k \in DOMAIN R PROVE <<R[k], k>> \in d.registrations_prefixed /\ R[k] < t
      BY <1>2, <1>3, <1>6, <3>1
    <3>2. QED
      BY <3>1 DEF RegisteredBelow, R
  <2>2. QED
    BY <2>1
<1> HIDE DEF late
<1>11. /\ DOMAIN x.registrations = DOMAIN R \cup T
       /\ \A k \in T \ DOMAIN R : x.registrations[k] = t
       /\ \A k \in DOMAIN R : x.registrations[k] = R[k]
  BY <1>4, <1>10 DEF Insert
<1>12. DOMAIN x.registrations = DOMAIN x.balances.last
  BY <1>2, <1>3, <1>11
<1>13. ASSUME NEW k \in DOMAIN x.registrations
       PROVE  /\ x.registrations[k] \in Versions(x.balances, k)
              /\ \A u \in Versions(x.balances, k) : x.registrations[k] <= u
  <2>0. k \in Account
    BY <1>2, <1>7, <1>12
  <2>1. CASE k \in DOMAIN R
    <3>1. /\ x.registrations[k] = R[k] /\ R[k] \in Versions(d.balances, k)
          /\ \A u \in Versions(d.balances, k) : R[k] <= u
      BY <1>3, <1>11, <2>1
    <3>2. R[k] \in Int /\ R[k] < t
      BY <1>6, <2>0, <3>1
    <3>3. R[k] <= t
      BY <1>0, <3>2
    <3>4. QED
      BY <1>2, <2>0, <3>1, <3>3
  <2>2. CASE k \in T \ DOMAIN R
    <3>1. Versions(d.balances, k) = {}
      BY <1>3, <1>7, <2>0, <2>2
    <3>2. Versions(x.balances, k) = {t} /\ x.registrations[k] = t
      BY <1>2, <1>11, <2>0, <2>2, <3>1
    <3>3. QED
      BY <1>0, <3>2
  <2>3. QED
    BY <1>11, <2>1, <2>2
<1>14. x.registrations_prefixed = {<<x.registrations[k], k>> : k \in DOMAIN x.registrations}
  <2>1. late \cap DOMAIN R = {}
    BY <1>10
  <2>2. x.registrations_prefixed = {<<R[k], k>> : k \in DOMAIN R} \cup {t} \X late
    BY <1>3, <1>4, <2>1
  <2>3. {<<R[k], k>> : k \in DOMAIN R} = {<<x.registrations[k], k>> : k \in DOMAIN R}
    BY <1>11
  <2>4. {t} \X late = {<<x.registrations[k], k>> : k \in late}
    BY <1>10, <1>11
  <2>5. DOMAIN x.registrations = DOMAIN R \cup late
    BY <1>10, <1>11
  <2>6. QED
    BY <2>2, <2>3, <2>4, <2>5
<1>15. ASSUME NEW k \in Account, NEW n \in Int
       PROVE  (\E u \in Versions(x.balances, k) : u <= n) <=> (\E u \in Versions(x.nonces, k) : u <= n)
  <2>1. CASE n < t
    <3>1. /\ \A u \in Versions(x.balances, k) : u \in Versions(d.balances, k) \/ ~(u <= n)
          /\ \A u \in Versions(x.nonces, k) : u \in Versions(d.nonces, k) \/ ~(u <= n)
      BY <1>0, <1>2, <2>1
    <3>2. Versions(d.balances, k) \subseteq Versions(x.balances, k)
          /\ Versions(d.nonces, k) \subseteq Versions(x.nonces, k)
      BY <1>2
    <3>3. QED
      BY <1>3, <3>1, <3>2
  <2>2. CASE n >= t
    <3>1. /\ \A u \in Versions(x.balances, k) : u <= n
          /\ \A u \in Versions(x.nonces, k) : u <= n
      BY <1>0, <1>2, <1>6, <2>2
    <3>2. /\ k \in DOMAIN x.balances.last <=> Versions(x.balances, k) # {}
          /\ k \in DOMAIN x.nonces.last <=> Versions(x.nonces, k) # {}
      BY <1>2 DEF GoodTree
    <3>3. k \in DOMAIN x.balances.last <=> k \in DOMAIN x.nonces.last
      BY <1>2, <1>8
    <3>4. QED
      BY <3>1, <3>2, <3>3
  <2>3. QED
    BY <1>0, <2>1, <2>2
<1>16. QED
  BY <1>2, <1>4, <1>9, <1>12, <1>13, <1>14, <1>15 DEF GoodDb

LEMMA ExecuteReads ==
    ASSUME NEW d, NEW low \in Nat, NEW t \in Topo, low <= t, GoodDb(d, low, t - 1),
           NEW b \in Block, NEW x, ExecutedAt(x, d, t, b)
    PROVE  ExecutedWell(x, d, t, b, low)
<1> DEFINE T == Touched(d, t, b)
           S == Senders(d, t, b)
           L == DOMAIN d.nonces.last
           state == Read(d, t - 1)
<1>0. t \in Int
  BY DEF Topo
<1>1. GrownTrees(x.balances, x.nonces, d, t, b, low) /\ GoodDb(x, low, t)
  BY ExecuteGrows, ExecuteGood
<1>2. GoodTree(d.balances, low, t - 1, SUBSET Block) /\ GoodTree(d.nonces, low, t - 1, Nat)
  BY DEF GoodDb
<1>3. PICK B : B = d.balances
  OBVIOUS
<1>4. PICK N : N = d.nonces
  OBVIOUS
<1>5. /\ \A k \in Account : AtMaximum(N, k, t) # NoTopo <=> k \in L
      /\ \A k \in Account : \A default : AtMaximum(N, k, t) # NoTopo => Value(N, k, t, default) \in Nat
      /\ \A k \in Account : \A default : Value(N, k, t, default) = Value(N, k, t - 1, default)
  <2>1. GoodTree(N, low, t - 1, Nat)
    BY <1>2, <1>4
  <2>2. QuietAt(N, low, t, Nat)
    BY <2>1, NothingAt
  <2> HIDE DEF state
  <2>3. QED
    BY <1>4, <2>2 DEF QuietAt
<1>6. \A k \in Account : \A default : Value(B, k, t, default) = Value(B, k, t - 1, default)
  <2>1. PICK V : V = SUBSET Block
    OBVIOUS
  <2>2. GoodTree(B, low, t - 1, V)
    BY <1>2, <1>3, <2>1
  <2>3. QuietAt(B, low, t, V)
    BY <2>2, NothingAt
  <2>4. QED
    BY <2>3 DEF QuietAt
<1>7. ASSUME NEW m \in Int, m < t PROVE Read(x, m) = Read(d, m)
  <2>1. \A k \in Account : \A default :
           /\ Value(x.balances, k, m, default) = Value(d.balances, k, m, default)
           /\ Value(x.nonces, k, m, default) = Value(d.nonces, k, m, default)
    BY <1>1, <1>7 DEF GrownTrees
  <2>2. QED
    BY <2>1 DEF Read
<1>8. ASSUME NEW k \in Account
      PROVE  /\ state[k].balance = Value(B, k, t, {})
             /\ state[k].nonce = Value(N, k, t, -1)
             /\ state[k].nonce >= 0 <=> k \in L
             /\ state[k].nonce \in Int
             /\ k \in L => Value(N, k, t, 0) = Value(N, k, t, -1)
  <2>1. state[k].balance = Value(B, k, t, {}) /\ state[k].nonce = Value(N, k, t, -1)
    BY <1>3, <1>4, <1>5, <1>6 DEF Read
  <2>2. k \in L => Value(N, k, t, -1) \in Nat /\ Value(N, k, t, 0) = Value(N, k, t, -1)
    BY <1>5 DEF Value
  <2>3. k \notin L => Value(N, k, t, -1) = -1
    BY <1>5 DEF Value
  <2>4. QED
    BY <2>1, <2>2, <2>3
<1> HIDE DEF state
<1>9. Promised!Runs(state, b) <=> Runs(d, t, b)
  <2>1. From[b] \in Account \cup {NoAccount}
    BY StorageAssumption
  <2>2. From[b] # NoAccount => (state[From[b]].nonce >= 0 <=> AtMaximum(N, From[b], t) # NoTopo)
    BY <1>5, <1>8, <2>1
  <2>3. QED
    BY <1>4, <2>2 DEF Runs, Promised!Runs
<1>10. Promised!Touched(state, b) = T
  BY <1>9 DEF Promised!Touched, Touched
<1>11. ASSUME NEW k PROVE Promised!Runs(state, b) /\ k = From[b] <=> k \in S
  BY <1>9 DEF Senders
<1>12. /\ T \subseteq Account /\ S \subseteq T /\ S \subseteq L
       /\ \A k \in Account : \A default :
              /\ k \in T => Value(x.balances, k, t, default) = Value(B, k, t, {}) \cup {b}
              /\ k \notin T => Value(x.balances, k, t, default) = Value(B, k, t, default)
              /\ k \in S => Value(x.nonces, k, t, default) = Value(N, k, t, 0) + 1
              /\ k \in T \ L => Value(x.nonces, k, t, default) = 0
              /\ k \notin S \cup (T \ L) =>
                    Value(x.nonces, k, t, default) = Value(N, k, t, default)
  BY <1>1, <1>3, <1>4 DEF GrownTrees
<1> HIDE DEF T, S, L
<1>13. ASSUME NEW k \in Account
       PROVE  /\ Value(x.balances, k, t, {}) = state[k].balance \cup (IF k \in T THEN {b} ELSE {})
              /\ Value(x.nonces, k, t, -1) =
                    IF k \in S THEN state[k].nonce + 1
                    ELSE IF k \in T /\ state[k].nonce < 0 THEN 0
                    ELSE state[k].nonce
  <2>1. Value(x.balances, k, t, {}) = state[k].balance \cup (IF k \in T THEN {b} ELSE {})
    BY <1>8, <1>12
  <2>2. CASE k \in S
    BY <1>8, <1>12, <2>2
  <2>3. CASE k \in T \ L
    <3>1. state[k].nonce < 0 /\ k \notin S
      <4>1. state[k].nonce \in Int
        BY <1>8
      <4>2. QED
        BY <1>8, <1>12, <2>3, <4>1
    <3>2. QED
      BY <1>12, <2>1, <2>3, <3>1
  <2>4. CASE k \notin S \cup (T \ L)
    <3>1. Value(x.nonces, k, t, -1) = state[k].nonce
      BY <1>8, <1>12, <2>4
    <3>2. k \in T => ~(state[k].nonce < 0)
      <4>1. k \in L => state[k].nonce \in Int
        BY <1>5, <1>8
      <4>2. QED
        BY <1>8, <2>4, <4>1
    <3>3. QED
      BY <2>1, <2>4, <3>1, <3>2
  <2>5. QED
    BY <2>1, <2>2, <2>3, <2>4
<1>14. Read(x, t) = Promised!After(state, b)
  BY <1>10, <1>11, <1>13 DEF Read, Promised!After
<1>15. QED
  BY <1>1, <1>7, <1>14 DEF ExecutedWell, state

\* The blocks of the new order are executed one after the other.
ExecutesInTurn(f, d, keep, blocks) ==
    /\ f[0] = d
    /\ \A i \in 1..Len(blocks) : f[i] = Execute(f[i - 1], keep + i, blocks[i])
    /\ Executed(d, keep, blocks) = f[Len(blocks)]

LEMMA ExecutedInTurn ==
    ASSUME NEW d, NEW keep, NEW blocks \in Seq(Block)
    PROVE  \E f : ExecutesInTurn(f, d, keep, blocks)
<1> DEFINE Step(g, i) == IF i = 0 THEN d ELSE Execute(g[i - 1], keep + i, blocks[i])
           Solved(g, j) == g = [i \in 0..j |-> Step(g, i)]
           at == CHOOSE g : Solved(g, Len(blocks))
<1>0. Len(blocks) \in Nat
  OBVIOUS
<1>1. Executed(d, keep, blocks) = at[Len(blocks)]
  BY Zenon DEF Executed
<1>2. \E g : Solved(g, Len(blocks))
  <2> DEFINE N == {j \in Nat : \E g : Solved(g, j)}
  <2>1. 0 \in N
    <3>1. Solved([i \in 0..0 |-> d], 0)
      <4> HIDE DEF Step
      <4>1. \A g, i : i = 0 => Step(g, i) = d
        BY DEF Step
      <4>2. QED
        BY <4>1
    <3>2. QED
      BY <3>1
  <2>2. ASSUME NEW j \in Nat, j \in N PROVE j + 1 \in N
    <3>1. PICK g : Solved(g, j)
      BY <2>2
    <3> DEFINE h == [i \in 0..(j + 1) |-> IF i = j + 1 THEN Step(g, i) ELSE g[i]]
    <3>2. ASSUME NEW i \in 0..(j + 1) PROVE h[i] = Step(h, i)
      <4>1. i = 0 \/ i - 1 \in 0..j
        OBVIOUS
      <4>2. i \in 0..j => g[i] = Step(g, i)
        BY <3>1
      <4>3. \A l \in 0..j : h[l] = g[l]
        OBVIOUS
      <4>4. Step(h, i) = Step(g, i)
        BY <4>1, <4>3
      <4>5. QED
        BY <4>2, <4>4
    <3>3. h = [i \in 0..(j + 1) |-> h[i]]
      OBVIOUS
    <3> HIDE DEF h, Step
    <3>4. Solved(h, j + 1)
      BY <3>2, <3>3
    <3>5. QED
      BY <3>4
  <2> HIDE DEF N
  <2>3. Len(blocks) \in N
    BY <1>0, <2>1, <2>2, NatSetInduction
  <2> HIDE DEF Solved
  <2>4. QED
    BY <2>3 DEF N
<1>3. Solved(at, Len(blocks))
  BY <1>2, Zenon
<1> HIDE DEF at
<1>4. \A i \in 0..Len(blocks) : at[i] = Step(at, i)
  <2> HIDE DEF Step
  <2>1. QED
    BY <1>3
<1>5. at[0] = d /\ \A i \in 1..Len(blocks) : at[i] = Execute(at[i - 1], keep + i, blocks[i])
  <2>1. 0 \in 0..Len(blocks) /\ (\A i \in 1..Len(blocks) : i \in 0..Len(blocks) /\ i # 0)
    BY <1>0
  <2>2. QED
    BY <1>4, <2>1, Zenon
<1>6. ExecutesInTurn(at, d, keep, blocks)
  BY <1>1, <1>5 DEF ExecutesInTurn
<1>7. QED
  BY <1>6

\* The first n blocks of the new order are executed on what d was at keep.
ExecutedUpTo(x, d, keep, blocks, n, low) ==
    /\ GoodDb(x, low, keep + n)
    /\ \A m \in Int : m <= keep => Read(x, m) = Read(d, m)
    /\ \A i \in 1..n : Read(x, keep + i) = Promised!After(Read(x, (keep + i) - 1), blocks[i])

LEMMA ExecutedStep ==
    ASSUME NEW d, NEW keep \in Nat, NEW blocks \in Seq(Block), NEW low \in Nat, low <= keep,
           NEW n \in Nat, n + 1 \in 1..Len(blocks), keep + (n + 1) \in Topo,
           NEW x, ExecutedUpTo(x, d, keep, blocks, n, low)
    PROVE  ExecutedUpTo(Execute(x, keep + (n + 1), blocks[n + 1]), d, keep, blocks, n + 1, low)
<1>1. PICK t : t = keep + (n + 1)
  OBVIOUS
<1>2. PICK b : b = blocks[n + 1]
  OBVIOUS
<1>3. PICK y : y = Execute(x, t, b)
  OBVIOUS
<1>4. t \in Topo /\ t \in Int /\ low <= t /\ t - 1 = keep + n /\ b \in Block
  BY <1>1, <1>2
<1>5. GoodDb(x, low, t - 1)
  BY <1>4 DEF ExecutedUpTo
<1>6. ExecutedAt(y, x, t, b)
  BY <1>3, <1>5, ExecuteIs DEF GoodDb
<1>7. ExecutedWell(y, x, t, b, low)
  BY <1>4, <1>5, <1>6, ExecuteReads
<1>8. /\ GoodDb(y, low, t)
      /\ \A m \in Int : m < t => Read(y, m) = Read(x, m)
      /\ Read(y, t) = Promised!After(Read(x, t - 1), b)
  BY <1>7 DEF ExecutedWell
<1>9. /\ \A m \in Int : m <= keep => Read(x, m) = Read(d, m)
      /\ \A i \in 1..n : Read(x, keep + i) = Promised!After(Read(x, (keep + i) - 1), blocks[i])
  BY DEF ExecutedUpTo
<1>10. ASSUME NEW m \in Int, m <= keep PROVE Read(y, m) = Read(d, m)
  <2>1. m < t
    BY <1>1, <1>10
  <2>2. QED
    BY <1>8, <1>9, <1>10, <2>1
<1>11. ASSUME NEW i \in 1..(n + 1)
       PROVE  Read(y, keep + i) = Promised!After(Read(y, (keep + i) - 1), blocks[i])
  <2>1. CASE i \in 1..n
    <3>1. keep + i \in Int /\ (keep + i) - 1 \in Int /\ keep + i < t /\ (keep + i) - 1 < t
      BY <1>1, <2>1
    <3>2. Read(y, keep + i) = Read(x, keep + i) /\ Read(y, (keep + i) - 1) = Read(x, (keep + i) - 1)
      BY <1>8, <3>1
    <3>3. Read(x, keep + i) = Promised!After(Read(x, (keep + i) - 1), blocks[i])
      BY <1>9, <2>1
    <3>4. QED
      BY <3>2, <3>3
  <2>2. CASE i = n + 1
    <3>1. keep + i = t /\ blocks[i] = b /\ t - 1 \in Int /\ t - 1 < t
      BY <1>1, <1>2, <1>4, <2>2
    <3>2. Read(y, t - 1) = Read(x, t - 1)
      BY <1>8, <3>1
    <3>3. QED
      BY <1>8, <3>1, <3>2
  <2>3. QED
    BY <2>1, <2>2
<1>12. ExecutedUpTo(y, d, keep, blocks, n + 1, low)
  BY <1>1, <1>8, <1>10, <1>11 DEF ExecutedUpTo
<1>13. QED
  BY <1>1, <1>2, <1>3, <1>12

\* Executing the new order leaves the trees good, and the ledger of each of its
\* topoheights is the one of the topoheight below after its block.
LEMMA ExecutedGood ==
    ASSUME NEW d, NEW keep \in Nat, NEW blocks \in Seq(Block), NEW low \in Nat, low <= keep,
           keep + Len(blocks) \in Topo, GoodDb(d, low, keep)
    PROVE  ExecutedUpTo(Executed(d, keep, blocks), d, keep, blocks, Len(blocks), low)
<1>0. Len(blocks) \in Nat /\ \A i \in 1..Len(blocks) : keep + i \in Topo
  BY StorageAssumption DEF Topo
<1>a. PICK f : ExecutesInTurn(f, d, keep, blocks)
  BY ExecutedInTurn
<1>1. /\ f[0] = d
      /\ \A i \in 1..Len(blocks) : f[i] = Execute(f[i - 1], keep + i, blocks[i])
      /\ Executed(d, keep, blocks) = f[Len(blocks)]
  BY <1>a DEF ExecutesInTurn
<1> DEFINE N == {i \in Nat : i <= Len(blocks) => ExecutedUpTo(f[i], d, keep, blocks, i, low)}
<1>2. 0 \in N
  <2>1. keep + 0 = keep /\ 1..0 = {}
    OBVIOUS
  <2>2. ExecutedUpTo(d, d, keep, blocks, 0, low)
    BY <2>1 DEF ExecutedUpTo
  <2>3. QED
    BY <1>1, <2>2
<1>3. ASSUME NEW i \in Nat, i \in N PROVE i + 1 \in N
  <2>1. SUFFICES ASSUME i + 1 <= Len(blocks)
                 PROVE  ExecutedUpTo(f[i + 1], d, keep, blocks, i + 1, low)
    OBVIOUS
  <2>2. ExecutedUpTo(f[i], d, keep, blocks, i, low)
    BY <1>0, <1>3, <2>1
  <2>3. i + 1 \in 1..Len(blocks) /\ (i + 1) - 1 = i
    BY <1>0, <2>1
  <2>4. f[i + 1] = Execute(f[i], keep + (i + 1), blocks[i + 1])
    BY <1>1, <2>3, Zenon
  <2>5. keep + (i + 1) \in Topo
    BY <1>0, <2>3
  <2>6. QED
    BY <2>2, <2>3, <2>4, <2>5, ExecutedStep
<1> HIDE DEF N
<1>4. Len(blocks) \in N
  BY <1>0, <1>2, <1>3, NatSetInduction
<1>5. QED
  BY <1>0, <1>1, <1>4 DEF N

\* Nothing is stored before the genesis block.
LEMMA EmptyGood == GoodDb(EmptyDb, 0, 0 - 1) /\ Read(EmptyDb, 0 - 1) = Promised!Untouched
<1>1. /\ DOMAIN EmptyDb = DbFields /\ EmptyDb.balances = NoTree /\ EmptyDb.nonces = NoTree
      /\ EmptyDb.accounts_count = 0 /\ EmptyDb.registrations = <<>>
      /\ EmptyDb.registrations_prefixed = {}
  BY DEF EmptyDb, DbFields
<1>2. DOMAIN NoTree.last = {} /\ DOMAIN NoTree.ver = {} /\ DOMAIN <<>> = {}
  BY DEF NoTree
<1>3. \A k : Versions(NoTree, k) = {}
  BY <1>2 DEF Versions
<1>4. \A V : GoodTree(NoTree, 0, 0 - 1, V)
  BY <1>2, <1>3 DEF GoodTree
<1>5. Cardinality({}) = 0
  BY FS_EmptySet
<1>6. GoodDb(EmptyDb, 0, 0 - 1)
  BY <1>1, <1>2, <1>3, <1>4, <1>5 DEF GoodDb
<1>7. \A k, m : AtMaximum(NoTree, k, m) = NoTopo
  BY <1>2 DEF AtMaximum
<1>8. \A k, m, default : Value(NoTree, k, m, default) = default
  BY <1>7 DEF Value
<1>9. Read(EmptyDb, 0 - 1) = [k \in Account |-> [balance |-> {}, nonce |-> -1]]
  <2>1. PICK m : m = 0 - 1
    OBVIOUS
  <2>2. \A k \in Account : /\ Value(EmptyDb.balances, k, m, {}) = {}
                          /\ Value(EmptyDb.nonces, k, m, -1) = -1
    BY <1>1, <1>8
  <2>3. Read(EmptyDb, m) = [k \in Account |-> [balance |-> {}, nonce |-> -1]]
    BY <2>2 DEF Read
  <2>4. QED
    BY <2>1, <2>3
<1>10. QED
  BY <1>6, <1>9 DEF Promised!Untouched

-----------------------------------------------------------------------------
(* Pruning moves the version every account has at t there.                 *)

\* The fields of a tree after the snapshot at t and the deletion below it.
PrunedFields(x, tree, t) ==
    /\ DOMAIN x.last = DOMAIN tree.last
    /\ \A k \in DOMAIN x.last : x.last[k] = IF tree.last[k] <= t THEN t ELSE tree.last[k]
    /\ DOMAIN x.ver = {p \in DOMAIN tree.ver : p[1] >= t}
                        \cup {t} \X {k \in DOMAIN tree.last : Bumped(tree, k, t) # NoTopo}
    /\ \A k \in DOMAIN tree.last :
          Bumped(tree, k, t) # NoTopo =>
              x.ver[<<t, k>>] = [value |-> tree.ver[<<Bumped(tree, k, t), k>>].value, prev |-> NoTopo]
    /\ \A p \in DOMAIN tree.ver :
          p[1] > t =>
              x.ver[p] = [tree.ver[p] EXCEPT !.prev =
                             IF tree.ver[p].prev # NoTopo /\ tree.ver[p].prev <= t THEN t
                             ELSE tree.ver[p].prev]

LEMMA PruneTreeIs ==
    ASSUME NEW tree, NEW low \in Nat, NEW high \in Int, NEW Values,
           GoodTree(tree, low, high, Values), NEW t \in Topo
    PROVE  PrunedFields(DeleteVersionsBelow(Snapshot(tree, t), t), tree, t)
<1> DEFINE K == {k \in DOMAIN tree.last : Bumped(tree, k, t) # NoTopo}
           moved == [p \in {t} \X K |->
                       [value |-> tree.ver[<<Bumped(tree, p[2], t), p[2]>>].value, prev |-> NoTopo]]
           Link(p) == [tree.ver[p] EXCEPT !.prev =
                          IF tree.ver[p].prev # NoTopo /\ tree.ver[p].prev <= t THEN t
                          ELSE tree.ver[p].prev]
           links == [p \in {q \in DOMAIN tree.ver : q[1] > t} |-> Link(p)]
           last == [k \in DOMAIN tree.last |-> IF tree.last[k] <= t THEN t ELSE tree.last[k]]
           ver == Insert(Insert(tree.ver, links), moved)
           snap == [last |-> last, ver |-> ver]
           x == [snap EXCEPT !.ver = Restrict(ver, {p \in DOMAIN ver : p[1] >= t})]
<1>0. t \in Int /\ \A p \in DOMAIN tree.ver : p[1] \in Int
  BY DEF GoodTree, Topo
<1>1. DeleteVersionsBelow(Snapshot(tree, t), t) = x
  BY Zenon DEF DeleteVersionsBelow, Snapshot
<1> HIDE DEF last, ver
<1>2. x.last = last /\ x.ver = Restrict(ver, {p \in DOMAIN ver : p[1] >= t})
  OBVIOUS
<1> HIDE DEF x
<1> HIDE DEF Link, K
<1>3. /\ DOMAIN links = {q \in DOMAIN tree.ver : q[1] > t}
      /\ \A p \in DOMAIN links : links[p] = Link(p)
  OBVIOUS
<1>4. /\ DOMAIN moved = {t} \X K
      /\ \A k \in K : moved[<<t, k>>] =
            [value |-> tree.ver[<<Bumped(tree, k, t), k>>].value, prev |-> NoTopo]
  <2>1. DOMAIN moved = {t} \X K
    OBVIOUS
  <2>2. ASSUME NEW k \in K
        PROVE  moved[<<t, k>>] =
                  [value |-> tree.ver[<<Bumped(tree, k, t), k>>].value, prev |-> NoTopo]
    <3>1. <<t, k>> \in {t} \X K /\ <<t, k>>[2] = k
      OBVIOUS
    <3>2. QED
      BY <3>1
  <2>3. QED
    BY <2>1, <2>2
<1> HIDE DEF links, moved
<1>5. /\ DOMAIN ver = DOMAIN tree.ver \cup ({t} \X K)
      /\ \A k \in K : ver[<<t, k>>] = moved[<<t, k>>]
      /\ \A p \in DOMAIN tree.ver : p[1] > t => ver[p] = Link(p)
  <2>1. /\ DOMAIN ver = (DOMAIN tree.ver \cup DOMAIN links) \cup DOMAIN moved
        /\ \A p \in DOMAIN moved : ver[p] = moved[p]
        /\ \A p \in DOMAIN links : p \notin DOMAIN moved => ver[p] = links[p]
    BY DEF ver, Insert
  <2>2. \A p \in DOMAIN links : p \notin DOMAIN moved
    BY <1>0, <1>3, <1>4
  <2>3. \A k \in K : <<t, k>> \in DOMAIN moved
    BY <1>4
  <2>4. QED
    BY <1>3, <1>4, <2>1, <2>2, <2>3
<1>6. /\ DOMAIN x.ver = {p \in DOMAIN ver : p[1] >= t}
      /\ \A p \in DOMAIN x.ver : x.ver[p] = ver[p]
  BY <1>2 DEF Restrict
<1>7. \A p \in {t} \X K : p[1] >= t
  BY <1>0
<1>8. DOMAIN x.ver = {p \in DOMAIN tree.ver : p[1] >= t} \cup ({t} \X K)
  BY <1>5, <1>6, <1>7
<1>9. ASSUME NEW k \in DOMAIN tree.last, Bumped(tree, k, t) # NoTopo
      PROVE  x.ver[<<t, k>>] = [value |-> tree.ver[<<Bumped(tree, k, t), k>>].value, prev |-> NoTopo]
  <2>1. k \in K /\ <<t, k>> \in DOMAIN x.ver
    BY <1>8, <1>9 DEF K
  <2>2. QED
    BY <1>4, <1>5, <1>6, <2>1
<1>10. ASSUME NEW p \in DOMAIN tree.ver, p[1] > t PROVE x.ver[p] = Link(p)
  <2>1. p \in DOMAIN x.ver
    BY <1>0, <1>8, <1>10
  <2>2. QED
    BY <1>5, <1>6, <1>10, <2>1
<1>11. /\ DOMAIN x.last = DOMAIN tree.last
       /\ \A k \in DOMAIN x.last : x.last[k] = IF tree.last[k] <= t THEN t ELSE tree.last[k]
  BY <1>2 DEF last
<1>12. PrunedFields(x, tree, t)
  BY <1>8, <1>9, <1>10, <1>11 DEF PrunedFields, K, Link
<1>13. QED
  BY <1>1, <1>12

\* The pruned tree is linked, and reads like the whole one from t on.
LinkedFrom(x, tree, t, high, Values) ==
    /\ GoodTree(x, t, high, Values)
    /\ DOMAIN x.last = DOMAIN tree.last
    /\ \A k \in Account : Versions(x, k) = {u \in Versions(tree, k) : u > t}
                            \cup (IF \E u \in Versions(tree, k) : u <= t THEN {t} ELSE {})
    /\ \A k \in Account, m \in Int : \A default :
          m >= t => Value(x, k, m, default) = Value(tree, k, m, default)

\* The version that is moved is the newest at or below t.
LEMMA BumpedFinds ==
    ASSUME NEW tree, NEW low \in Nat, NEW high \in Int, NEW Values,
           GoodTree(tree, low, high, Values), NEW t \in Topo, NEW k \in DOMAIN tree.last
    PROVE  /\ Newest(Versions(tree, k), t, Bumped(tree, k, t))
           /\ Bumped(tree, k, t) # NoTopo <=> \E u \in Versions(tree, k) : u <= t
<1> DEFINE V == Versions(tree, k)
           l == tree.last[k]
           r == Bumped(tree, k, t)
<1>0. t \in Nat
  BY DEF Topo
<1>1. k \in Account /\ V \in SUBSET Nat
  BY VersionsAre DEF GoodTree
<1>2. l \in V /\ (\A u \in V : u <= l) /\ r = Search(tree, k, l, t)
  BY DEF GoodTree, Bumped
<1>3. /\ l = NoTopo \/ l <= t => Search(tree, k, l, t) = l
      /\ l # NoTopo /\ l > t => Newest(V, t, Search(tree, k, l, t))
  BY <1>0, <1>1, <1>2, SearchFinds
<1> HIDE DEF V, l, r
<1>4. Newest(V, t, r)
  BY <1>0, <1>1, <1>2, <1>3, NoTopoIs DEF Newest
<1>5. r # NoTopo <=> \E u \in V : u <= t
  <2>1. CASE r = NoTopo
    <3>1. r \notin V
      BY <1>1, <2>1, NoTopoIs
    <3>2. \A u \in V : u > t /\ u \in Nat
      BY <1>1, <1>4, <3>1 DEF Newest
    <3>3. \A u \in V : ~(u <= t)
      BY <1>0, <3>2
    <3>4. QED
      BY <2>1, <3>3
  <2>2. CASE r # NoTopo
    BY <1>4, <2>2 DEF Newest
  <2>3. QED
    BY <2>1, <2>2
<1>6. QED
  BY <1>4, <1>5 DEF V, r

LEMMA PruneTreeGood ==
    ASSUME NEW tree, NEW low \in Nat, NEW high \in Int, high <= MaxTopo, NEW Values,
           GoodTree(tree, low, high, Values), NEW t \in Topo, t <= high,
           NEW x, PrunedFields(x, tree, t)
    PROVE  LinkedFrom(x, tree, t, high, Values)
<1> DEFINE K == {k \in DOMAIN tree.last : Bumped(tree, k, t) # NoTopo}
           Old(k) == \E u \in Versions(tree, k) : u <= t
<1>0. t \in Nat /\ t \in Int
  BY DEF Topo
<1>1. \A k \in Account : Versions(tree, k) \in SUBSET Nat
  BY VersionsAre
<1>2. \A k \in Account : k \in K <=> Old(k)
  <2>1. ASSUME NEW k \in Account PROVE k \in K <=> Old(k)
    <3>1. CASE k \in DOMAIN tree.last
      BY <3>1, BumpedFinds
    <3>2. CASE k \notin DOMAIN tree.last
      BY <3>2 DEF GoodTree
    <3>3. QED
      BY <3>1, <3>2
  <2>2. QED
    BY <2>1
<1>3. DOMAIN x.ver = {p \in DOMAIN tree.ver : p[1] >= t} \cup ({t} \X K)
  BY DEF PrunedFields
<1> HIDE DEF K
<1>4. \A k \in Account : Versions(x, k) = {u \in Versions(tree, k) : u > t}
                           \cup (IF Old(k) THEN {t} ELSE {})
  <2>1. ASSUME NEW k \in Account, NEW u \in Topo
        PROVE  <<u, k>> \in DOMAIN x.ver
                 <=> (u \in Versions(tree, k) /\ u > t) \/ (u = t /\ Old(k))
    <3>0. u \in Nat
      BY DEF Topo
    <3>1. <<u, k>> \in DOMAIN x.ver
            <=> (<<u, k>> \in DOMAIN tree.ver /\ u >= t) \/ (u = t /\ k \in K)
      BY <1>3
    <3>2. <<u, k>> \in DOMAIN tree.ver <=> u \in Versions(tree, k)
      BY VersionsAre
    <3>3. u \in Versions(tree, k) /\ u = t => Old(k)
      BY <1>0
    <3>4. u >= t <=> u > t \/ u = t
      BY <1>0, <3>0
    <3>5. k \in K <=> Old(k)
      BY <1>2
    <3> HIDE DEF Old
    <3>6. QED
      BY <3>1, <3>2, <3>3, <3>4, <3>5, Zenon
  <2>2. \A k \in Account : \A u : u \in Versions(x, k) <=> u \in Topo /\ <<u, k>> \in DOMAIN x.ver
    BY VersionsAre
  <2>3. \A k \in Account : \A u \in Versions(tree, k) : u \in Topo
    BY VersionsAre
  <2> HIDE DEF Old
  <2>4. QED
    BY <2>1, <2>2, <2>3
<1>5. ASSUME NEW k \in Account, NEW u \in Versions(tree, k), u > t
      PROVE  /\ x.ver[<<u, k>>].value = tree.ver[<<u, k>>].value
             /\ x.ver[<<u, k>>] \in [value : Values, prev : Topo \cup {NoTopo}]
             /\ x.ver[<<u, k>>].prev =
                   IF tree.ver[<<u, k>>].prev # NoTopo /\ tree.ver[<<u, k>>].prev <= t THEN t
                   ELSE tree.ver[<<u, k>>].prev
  <2>1. <<u, k>> \in DOMAIN tree.ver /\ <<u, k>>[1] > t
    BY <1>5, VersionsAre
  <2>2. PICK v : v = tree.ver[<<u, k>>]
    OBVIOUS
  <2>3. v \in [value : Values, prev : Topo \cup {NoTopo}]
    BY <2>2 DEF GoodTree
  <2>4. x.ver[<<u, k>>] = [v EXCEPT !.prev = IF v.prev # NoTopo /\ v.prev <= t THEN t ELSE v.prev]
    BY <2>1, <2>2 DEF PrunedFields
  <2>5. QED
    BY <2>2, <2>3, <2>4
<1>6. ASSUME NEW k \in Account, Old(k), NEW r, Newest(Versions(tree, k), t, r)
      PROVE  /\ r \in Versions(tree, k)
             /\ x.ver[<<t, k>>] = [value |-> tree.ver[<<r, k>>].value, prev |-> NoTopo]
             /\ x.ver[<<t, k>>] \in [value : Values, prev : Topo \cup {NoTopo}]
  <2>1. k \in DOMAIN tree.last /\ Bumped(tree, k, t) # NoTopo
    BY <1>2, <1>6 DEF K
  <2>2. Newest(Versions(tree, k), t, Bumped(tree, k, t))
    BY <2>1, BumpedFinds
  <2>3. r = Bumped(tree, k, t)
    BY <1>0, <1>1, <1>6, <2>2, NewestUnique
  <2>4. r \in Versions(tree, k)
    BY <2>1, <2>2, <2>3 DEF Newest
  <2>5. x.ver[<<t, k>>] = [value |-> tree.ver[<<r, k>>].value, prev |-> NoTopo]
    BY <2>1, <2>3 DEF PrunedFields
  <2>6. tree.ver[<<r, k>>].value \in Values
    BY <2>4 DEF GoodTree
  <2>7. QED
    BY <2>4, <2>5, <2>6
<1>7. ASSUME NEW k \in Account, NEW u \in Versions(x, k)
      PROVE  /\ x.ver[<<u, k>>] \in [value : Values, prev : Topo \cup {NoTopo}]
             /\ Newest(Versions(x, k), u - 1, x.ver[<<u, k>>].prev)
  <2> DEFINE V == Versions(tree, k)
             W == Versions(x, k)
  <2>0. V \in SUBSET Nat /\ W = {v \in V : v > t} \cup (IF Old(k) THEN {t} ELSE {})
    BY <1>1, <1>4
  <2>1. CASE u \in V /\ u > t
    <3> DEFINE p == tree.ver[<<u, k>>].prev
               q == x.ver[<<u, k>>].prev
    <3>1. Newest(V, u - 1, p)
      BY <2>1 DEF GoodTree
    <3>2. q = IF p # NoTopo /\ p <= t THEN t ELSE p
      BY <1>5, <2>1
    <3>3. p \in Int /\ u \in Nat
      BY <2>0, <2>1, <3>1, NewestIs
    <3>o. Old(k) <=> \E v \in V : v <= t
      OBVIOUS
    <3> HIDE DEF V, W, p, q, Old
    <3>4. ASSUME p = NoTopo PROVE Newest(W, u - 1, q)
      <4>1. \A v \in V : v > u - 1
        BY <2>0, <3>1, <3>4, NoTopoIs DEF Newest
      <4>2. \A v \in V : v > t
        BY <1>0, <2>0, <2>1, <3>3, <4>1
      <4>3. \A v \in V : ~(v <= t)
        BY <1>0, <2>0, <4>2
      <4>4. W = V
        BY <2>0, <3>o, <4>2, <4>3
      <4>5. QED
        BY <3>2, <3>4, <4>1, <4>4 DEF Newest
    <3>5. ASSUME p # NoTopo, p <= t PROVE Newest(W, u - 1, q)
      <4>1. p \in V /\ \A v \in V : v <= u - 1 => v <= p
        BY <3>1, <3>5 DEF Newest
      <4>2. Old(k)
        BY <3>o, <3>5, <4>1
      <4>3. t \in W /\ q = t /\ t <= u - 1
        BY <1>0, <2>0, <2>1, <3>2, <3>3, <3>5, <4>2
      <4>4. ASSUME NEW w \in W, w <= u - 1 PROVE w <= t
        <5>1. w = t \/ (w \in V /\ w > t)
          BY <2>0
        <5>2. w \in Nat
          BY <1>0, <2>0, <5>1
        <5>3. w \in V => w <= p
          BY <4>1, <4>4
        <5>4. QED
          BY <1>0, <3>3, <3>5, <5>1, <5>2, <5>3
      <4>5. QED
        BY <4>3, <4>4 DEF Newest
    <3>6. ASSUME p # NoTopo, p > t PROVE Newest(W, u - 1, q)
      <4>1. p \in V /\ p <= u - 1 /\ \A v \in V : v <= u - 1 => v <= p
        BY <3>1, <3>6 DEF Newest
      <4>2. q = p /\ p \in W
        BY <1>0, <2>0, <3>2, <3>3, <3>6, <4>1
      <4>3. ASSUME NEW w \in W, w <= u - 1 PROVE w <= p
        <5>1. w = t \/ w \in V
          BY <2>0
        <5>2. t <= p
          BY <1>0, <3>3, <3>6
        <5>3. QED
          BY <4>1, <4>3, <5>1, <5>2
      <4>4. QED
        BY <4>1, <4>2, <4>3 DEF Newest
    <3>7. Newest(W, u - 1, q)
      BY <1>0, <3>3, <3>4, <3>5, <3>6
    <3>8. x.ver[<<u, k>>] \in [value : Values, prev : Topo \cup {NoTopo}]
      BY <1>5, <2>1 DEF V
    <3>9. QED
      BY <3>7, <3>8 DEF W, q
  <2>2. CASE u = t /\ Old(k)
    <3>1. k \in DOMAIN tree.last
      BY <1>2, <2>2 DEF K
    <3>2. PICK r : Newest(V, t, r)
      BY <3>1, BumpedFinds
    <3>a. /\ x.ver[<<t, k>>] = [value |-> tree.ver[<<r, k>>].value, prev |-> NoTopo]
          /\ x.ver[<<t, k>>] \in [value : Values, prev : Topo \cup {NoTopo}]
      <4> HIDE DEF Old
      <4>1. QED
        BY <1>6, <2>2, <3>2
    <3>3. x.ver[<<t, k>>].prev = NoTopo
          /\ x.ver[<<t, k>>] \in [value : Values, prev : Topo \cup {NoTopo}]
      BY <3>a
    <3>4. \A w \in W : w > t - 1
      BY <1>0, <2>0
    <3> HIDE DEF W
    <3>5. Newest(W, t - 1, NoTopo)
      BY <3>4 DEF Newest
    <3>6. QED
      BY <2>2, <3>3, <3>5 DEF W
  <2>3. QED
    BY <2>0, <2>1, <2>2
<1>8. DOMAIN x.last = DOMAIN tree.last /\ DOMAIN x.last \subseteq Account
  BY DEF PrunedFields, GoodTree
<1>9. ASSUME NEW k \in Account
      PROVE  /\ k \in DOMAIN x.last <=> Versions(x, k) # {}
             /\ k \in DOMAIN x.last => /\ x.last[k] \in Versions(x, k)
                                       /\ \A u \in Versions(x, k) : u <= x.last[k]
  <2> DEFINE V == Versions(tree, k)
             W == Versions(x, k)
             l == tree.last[k]
  <2>0. /\ V \in SUBSET Nat /\ W = {v \in V : v > t} \cup (IF Old(k) THEN {t} ELSE {})
        /\ (k \in DOMAIN x.last <=> V # {})
        /\ (k \in DOMAIN x.last => l \in V /\ \A v \in V : v <= l)
        /\ (k \in DOMAIN x.last => x.last[k] = IF l <= t THEN t ELSE l)
    BY <1>1, <1>4, <1>8 DEF GoodTree, PrunedFields
  <2>o. Old(k) <=> \E v \in V : v <= t
    OBVIOUS
  <2> HIDE DEF V, W, l, Old
  <2>1. V # {} <=> W # {}
    <3>1. \A v \in V : v > t \/ v <= t
      BY <1>0, <2>0
    <3>2. QED
      BY <2>0, <2>o, <3>1
  <2>2. ASSUME k \in DOMAIN x.last PROVE x.last[k] \in W /\ \A u \in W : u <= x.last[k]
    <3>1. l \in V /\ l \in Nat /\ \A v \in V : v \in Nat /\ v <= l
      BY <2>0, <2>2
    <3>2. CASE l <= t
      <4>1. t \in W /\ x.last[k] = t
        BY <2>0, <2>2, <2>o, <3>1, <3>2
      <4>2. \A u \in W : u <= t
        BY <1>0, <2>0, <3>1, <3>2
      <4>3. QED
        BY <4>1, <4>2
    <3>3. CASE l > t
      <4>1. l \in W /\ x.last[k] = l
        BY <1>0, <2>0, <2>2, <3>1, <3>3
      <4>2. \A u \in W : u <= l
        BY <1>0, <2>0, <3>1, <3>3
      <4>3. QED
        BY <4>1, <4>2
    <3>4. QED
      BY <1>0, <3>1, <3>2, <3>3
  <2>3. QED
    BY <2>0, <2>1, <2>2 DEF W
<1>10. DOMAIN x.ver \subseteq (t..high) \X Account
  <2>1. ASSUME NEW p \in DOMAIN tree.ver, p[1] >= t PROVE p \in (t..high) \X Account
    <3>1. p \in (low..high) \X Account
      BY DEF GoodTree
    <3>2. p = <<p[1], p[2]>> /\ p[1] \in low..high /\ p[2] \in Account
      BY <3>1
    <3>3. p[1] \in t..high
      BY <1>0, <2>1, <3>2
    <3>4. QED
      BY <3>2, <3>3
  <2>2. {t} \X K \subseteq (t..high) \X Account
    <3>1. K \subseteq Account /\ t \in t..high
      BY <1>0 DEF K, GoodTree
    <3>2. QED
      BY <3>1
  <2>3. QED
    BY <1>3, <2>1, <2>2
<1>11. GoodTree(x, t, high, Values)
  BY <1>7, <1>8, <1>9, <1>10 DEF GoodTree
<1>12. ASSUME NEW k \in Account, NEW m \in Int, NEW default, m >= t
       PROVE  Value(x, k, m, default) = Value(tree, k, m, default)
  <2> DEFINE V == Versions(tree, k)
             W == Versions(x, k)
             r == AtMaximum(tree, k, m)
             s == AtMaximum(x, k, m)
  <2>1. /\ V \in SUBSET Nat /\ W = {v \in V : v > t} \cup (IF Old(k) THEN {t} ELSE {})
        /\ Newest(V, m, r) /\ W \in SUBSET Nat /\ Newest(W, m, s)
    BY <1>0, <1>1, <1>4, <1>11, AtMaximumFinds, VersionsAre
  <2>2. r \in Int /\ (Old(k) <=> \E v \in V : v <= t)
    BY <2>1, NewestIs
  <2>3. ASSUME NEW u, Newest(W, m, u) PROVE s = u
    BY <2>1, <2>3, NewestUnique
  <2> HIDE DEF V, W, r, s, Old
  <2>4. CASE r = NoTopo
    <3>1. \A v \in V : v > m /\ v \in Nat
      BY <2>1, <2>4, NoTopoIs DEF Newest
    <3>2. \A v \in V : v > t /\ ~(v <= t)
      BY <1>0, <1>12, <3>1
    <3>3. W = V
      BY <2>1, <2>2, <3>2
    <3>4. Newest(W, m, r)
      BY <2>1, <3>3
    <3>5. s = NoTopo
      BY <2>3, <2>4, <3>4
    <3>6. QED
      BY <2>4, <3>5 DEF Value, r, s
  <2>5. CASE r # NoTopo /\ r > t
    <3>1. r \in V /\ r <= m /\ \A v \in V : v <= m => v <= r
      BY <2>1, <2>5 DEF Newest
    <3>2. r \in W
      BY <2>1, <2>5, <3>1
    <3>3. \A w \in W : w <= m => w <= r
      <4>1. t <= r
        BY <1>0, <2>2, <2>5
      <4>2. QED
        BY <2>1, <3>1, <4>1
    <3>4. Newest(W, m, r)
      BY <3>1, <3>2, <3>3 DEF Newest
    <3>5. s = r
      BY <2>3, <3>4
    <3>6. x.ver[<<r, k>>].value = tree.ver[<<r, k>>].value
      BY <1>5, <2>5, <3>1 DEF V
    <3>7. QED
      BY <3>5, <3>6 DEF Value, r, s
  <2>6. CASE r # NoTopo /\ r <= t
    <3>1. r \in V /\ r <= m /\ \A v \in V : v <= m => v <= r
      BY <2>1, <2>6 DEF Newest
    <3>2. Old(k)
      BY <2>2, <2>6, <3>1
    <3>3. Newest(V, t, r)
      <4>1. \A v \in V : v <= t => v <= m
        BY <1>0, <1>12, <2>1
      <4>2. QED
        BY <2>6, <3>1, <4>1 DEF Newest
    <3>4. Newest(W, m, t)
      <4>1. t \in W /\ t <= m
        BY <1>0, <1>12, <2>1, <3>2
      <4>2. ASSUME NEW w \in W, w <= m PROVE w <= t
        <5>1. w = t \/ (w \in V /\ w > t /\ w <= r)
          BY <2>1, <3>1, <4>2
        <5>2. w \in Nat
          BY <2>1
        <5>3. QED
          BY <1>0, <2>2, <2>6, <5>1, <5>2
      <4>3. QED
        BY <4>1, <4>2 DEF Newest
    <3>5. s = t
      BY <2>3, <3>4
    <3>6. x.ver[<<t, k>>] = [value |-> tree.ver[<<r, k>>].value, prev |-> NoTopo]
      BY <1>6, <3>2, <3>3 DEF V
    <3>7. x.ver[<<t, k>>].value = tree.ver[<<r, k>>].value
      BY <3>6
    <3>8. t # NoTopo
      BY <1>0, NoTopoIs
    <3>9. QED
      BY <2>6, <3>5, <3>7, <3>8 DEF Value, r, s
  <2>7. QED
    BY <1>0, <2>2, <2>4, <2>5, <2>6
<1>13. QED
  BY <1>4, <1>8, <1>11, <1>12 DEF LinkedFrom

\* The fields of the trees after pruning.
PrunedDb(x, d, t) ==
    /\ DOMAIN x = DbFields
    /\ x.balances = DeleteVersionsBelow(Snapshot(d.balances, t), t)
    /\ x.nonces = DeleteVersionsBelow(Snapshot(d.nonces, t), t)
    /\ x.accounts_count = d.accounts_count
    /\ DOMAIN x.registrations = DOMAIN d.registrations
    /\ \A k \in DOMAIN x.registrations :
          x.registrations[k] = IF d.registrations[k] <= t THEN t ELSE d.registrations[k]
    /\ x.registrations_prefixed = {<<x.registrations[k], k>> : k \in DOMAIN x.registrations}

LEMMA PruneDbIs ==
    ASSUME NEW d, NEW low \in Nat, NEW high \in Int, GoodDb(d, low, high), NEW t \in Topo
    PROVE  PrunedDb(PruneDb(d, t), d, t)
<1> DEFINE B == DeleteVersionsBelow(Snapshot(d.balances, t), t)
           N == DeleteVersionsBelow(Snapshot(d.nonces, t), t)
           z == [d EXCEPT !.balances = B, !.nonces = N]
           old == {k \in DOMAIN z.registrations : z.registrations[k] <= t}
           r1 == Insert(z.registrations, [k \in old |-> t])
           p1 == (z.registrations_prefixed \ {<<z.registrations[k], k>> : k \in old}) \cup {t} \X old
           y == [z EXCEPT !.registrations = r1, !.registrations_prefixed = p1]
           gone == {k \in DOMAIN y.registrations : y.registrations[k] < t}
           r2 == Restrict(y.registrations, DOMAIN y.registrations \ gone)
           p2 == y.registrations_prefixed \ {<<y.registrations[k], k>> : k \in gone}
           x == [y EXCEPT !.registrations = r2, !.registrations_prefixed = p2]
           R == d.registrations
<1>0. t \in Int /\ \A k \in DOMAIN R : R[k] \in Int
  BY VersionsAre DEF Topo, GoodDb
<1>1. PruneDb(d, t) = x
  BY Zenon DEF PruneDb, DeleteRegistrationsBelow, SnapshotRegistrations
<1> HIDE DEF B, N
<1>2. /\ DOMAIN z = DbFields /\ z.balances = B /\ z.nonces = N
      /\ z.accounts_count = d.accounts_count /\ z.registrations = R
      /\ z.registrations_prefixed = {<<R[k], k>> : k \in DOMAIN R}
  BY DEF GoodDb, DbFields
<1> HIDE DEF z, r1, p1
<1>3. /\ DOMAIN y = DbFields /\ y.balances = B /\ y.nonces = N
      /\ y.accounts_count = d.accounts_count /\ y.registrations = r1
      /\ y.registrations_prefixed = p1
  BY <1>2 DEF DbFields
<1> HIDE DEF y, r2, p2
<1>4. /\ DOMAIN x = DbFields /\ x.balances = B /\ x.nonces = N
      /\ x.accounts_count = d.accounts_count /\ x.registrations = r2
      /\ x.registrations_prefixed = p2
  BY <1>3 DEF DbFields
<1> HIDE DEF x, R
<1>5. old = {k \in DOMAIN R : R[k] <= t}
  BY <1>2
<1> HIDE DEF old
<1>6. /\ DOMAIN r1 = DOMAIN R
      /\ \A k \in DOMAIN R : r1[k] = IF R[k] <= t THEN t ELSE R[k]
  BY <1>2, <1>5 DEF r1, Insert
<1>7. gone = {}
  <2>1. \A k \in DOMAIN R : ~(r1[k] < t)
    BY <1>0, <1>6
  <2>2. QED
    BY <1>3, <1>6, <2>1
<1>8. p1 = {<<r1[k], k>> : k \in DOMAIN R}
  <2>1. p1 = {<<R[k], k>> : k \in DOMAIN R \ old} \cup {t} \X old
    BY <1>2, <1>5 DEF p1
  <2>2. {<<R[k], k>> : k \in DOMAIN R \ old} = {<<r1[k], k>> : k \in DOMAIN R \ old}
    BY <1>5, <1>6
  <2>3. {t} \X old = {<<r1[k], k>> : k \in old}
    BY <1>5, <1>6
  <2>4. DOMAIN R = (DOMAIN R \ old) \cup old
    BY <1>5
  <2>5. QED
    BY <2>1, <2>2, <2>3, <2>4
<1> HIDE DEF gone
<1>9. DOMAIN r2 = DOMAIN R /\ \A k \in DOMAIN R : r2[k] = r1[k]
  BY <1>3, <1>6, <1>7 DEF r2, Restrict
<1>10. p2 = {<<r2[k], k>> : k \in DOMAIN R}
  <2>1. p2 = p1
    BY <1>3, <1>7 DEF p2
  <2>2. {<<r1[k], k>> : k \in DOMAIN R} = {<<r2[k], k>> : k \in DOMAIN R}
    BY <1>9
  <2>3. QED
    BY <1>8, <2>1, <2>2
<1>11. \A k \in DOMAIN R : r2[k] = IF R[k] <= t THEN t ELSE R[k]
  BY <1>6, <1>9
<1>12. PrunedDb(x, d, t)
  BY <1>4, <1>9, <1>10, <1>11 DEF PrunedDb, B, N, R
<1>13. QED
  BY <1>1, <1>12

\* Pruning leaves the trees good, and what is read from t on as it was.
LEMMA PruneDbGood ==
    ASSUME NEW d, NEW low \in Nat, NEW high \in Int, high <= MaxTopo, GoodDb(d, low, high),
           NEW t \in Topo, t <= high, NEW x, PrunedDb(x, d, t)
    PROVE  /\ GoodDb(x, t, high)
           /\ \A m \in Int : m >= t => Read(x, m) = Read(d, m)
<1>0. t \in Int
  BY DEF Topo
<1>1. LinkedFrom(x.balances, d.balances, t, high, SUBSET Block)
  <2>1. PICK V : V = SUBSET Block
    OBVIOUS
  <2>2. PICK tree : tree = d.balances
    OBVIOUS
  <2>3. PICK y : y = x.balances
    OBVIOUS
  <2>4. GoodTree(tree, low, high, V)
    BY <2>1, <2>2 DEF GoodDb
  <2>5. PrunedFields(y, tree, t)
    BY <2>2, <2>3, <2>4, PruneTreeIs DEF PrunedDb
  <2>6. LinkedFrom(y, tree, t, high, V)
    BY <2>4, <2>5, PruneTreeGood
  <2>7. QED
    BY <2>1, <2>2, <2>3, <2>6
<1>2. LinkedFrom(x.nonces, d.nonces, t, high, Nat)
  <2>2. PICK tree : tree = d.nonces
    OBVIOUS
  <2>3. PICK y : y = x.nonces
    OBVIOUS
  <2>4. GoodTree(tree, low, high, Nat)
    BY <2>2 DEF GoodDb
  <2>5. PrunedFields(y, tree, t)
    BY <2>2, <2>3, <2>4, PruneTreeIs DEF PrunedDb
  <2>6. LinkedFrom(y, tree, t, high, Nat)
    BY <2>4, <2>5, PruneTreeGood
  <2>7. QED
    BY <2>2, <2>3, <2>6
<1>3. /\ GoodTree(x.balances, t, high, SUBSET Block) /\ GoodTree(x.nonces, t, high, Nat)
      /\ DOMAIN x.balances.last = DOMAIN d.balances.last
      /\ DOMAIN x.nonces.last = DOMAIN d.nonces.last
      /\ \A k \in Account :
            /\ Versions(x.balances, k) = {u \in Versions(d.balances, k) : u > t}
                 \cup (IF \E u \in Versions(d.balances, k) : u <= t THEN {t} ELSE {})
            /\ Versions(x.nonces, k) = {u \in Versions(d.nonces, k) : u > t}
                 \cup (IF \E u \in Versions(d.nonces, k) : u <= t THEN {t} ELSE {})
  BY <1>1, <1>2 DEF LinkedFrom
<1>4. /\ \A k \in Account, n \in Int :
            (\E u \in Versions(d.balances, k) : u <= n) <=> (\E u \in Versions(d.nonces, k) : u <= n)
      /\ \A k \in Account : Versions(d.balances, k) \in SUBSET Nat /\ Versions(d.nonces, k) \in SUBSET Nat
  BY VersionsAre DEF GoodDb
<1>5. ASSUME NEW V \in SUBSET Nat, NEW n \in Int, NEW W,
             W = {u \in V : u > t} \cup (IF \E u \in V : u <= t THEN {t} ELSE {})
      PROVE  (\E w \in W : w <= n) <=> n >= t /\ (\E u \in V : u <= n)
  <2>1. ASSUME NEW w \in W, w <= n PROVE n >= t /\ \E u \in V : u <= n
    <3>1. CASE w \in V /\ w > t
      BY <1>0, <2>1, <3>1
    <3>2. CASE w = t /\ \E u \in V : u <= t
      BY <1>0, <2>1, <3>2
    <3>3. QED
      BY <1>5, <3>1, <3>2
  <2>2. ASSUME n >= t, NEW u \in V, u <= n PROVE \E w \in W : w <= n
    <3>1. CASE u > t
      BY <1>5, <2>2, <3>1
    <3>2. CASE u <= t
      <4>1. t \in W /\ t <= n
        BY <1>0, <1>5, <2>2, <3>2
      <4>2. QED
        BY <4>1
    <3>3. QED
      BY <1>0, <3>1, <3>2
  <2>3. QED
    BY <2>1, <2>2
<1>6. ASSUME NEW k \in Account, NEW n \in Int
      PROVE  (\E u \in Versions(x.balances, k) : u <= n) <=> (\E u \in Versions(x.nonces, k) : u <= n)
  <2>1. (\E u \in Versions(x.balances, k) : u <= n)
          <=> n >= t /\ (\E u \in Versions(d.balances, k) : u <= n)
    BY <1>3, <1>4, <1>5
  <2>2. (\E u \in Versions(x.nonces, k) : u <= n)
          <=> n >= t /\ (\E u \in Versions(d.nonces, k) : u <= n)
    BY <1>3, <1>4, <1>5
  <2>3. QED
    BY <1>4, <2>1, <2>2
<1>7. /\ DOMAIN x.registrations = DOMAIN x.balances.last
      /\ DOMAIN x.registrations = DOMAIN d.registrations /\ DOMAIN d.registrations \subseteq Account
  BY <1>3 DEF PrunedDb, GoodDb, GoodTree
<1>8. ASSUME NEW k \in DOMAIN x.registrations
      PROVE  /\ x.registrations[k] \in Versions(x.balances, k)
             /\ \A u \in Versions(x.balances, k) : x.registrations[k] <= u
  <2> DEFINE V == Versions(d.balances, k)
             W == Versions(x.balances, k)
             r == d.registrations[k]
             s == x.registrations[k]
  <2>1. /\ k \in Account /\ V \in SUBSET Nat /\ r \in V /\ (\A u \in V : r <= u)
        /\ s = IF r <= t THEN t ELSE r
    BY <1>4, <1>7 DEF PrunedDb, GoodDb
  <2>2. W = {u \in V : u > t} \cup (IF \E u \in V : u <= t THEN {t} ELSE {})
    BY <1>3, <2>1
  <2> HIDE DEF V, W, r, s
  <2>3. CASE r <= t
    <3>1. s = t /\ t \in W
      BY <2>1, <2>2, <2>3
    <3>2. \A u \in W : t <= u
      BY <1>0, <2>1, <2>2
    <3>3. QED
      BY <3>1, <3>2 DEF W, s
  <2>4. CASE r > t
    <3>1. r \in Nat /\ s = r
      BY <1>0, <2>1, <2>4
    <3>2. \A u \in V : u > t /\ ~(u <= t)
      BY <1>0, <2>1, <2>4, <3>1
    <3>3. W = V
      BY <2>2, <3>2
    <3>4. QED
      BY <2>1, <3>1, <3>3 DEF W, s
  <2>5. QED
    BY <1>0, <2>1, <2>3, <2>4
<1>9. GoodDb(x, t, high)
  <2>1. /\ DOMAIN x = DbFields /\ x.accounts_count = Cardinality(DOMAIN x.nonces.last)
        /\ x.registrations_prefixed = {<<x.registrations[k], k>> : k \in DOMAIN x.registrations}
    BY <1>3 DEF PrunedDb, GoodDb
  <2>2. QED
    BY <1>3, <1>6, <1>7, <1>8, <2>1 DEF GoodDb
<1>10. ASSUME NEW m \in Int, m >= t PROVE Read(x, m) = Read(d, m)
  <2>1. \A k \in Account : \A default :
           /\ Value(x.balances, k, m, default) = Value(d.balances, k, m, default)
           /\ Value(x.nonces, k, m, default) = Value(d.nonces, k, m, default)
    BY <1>1, <1>2, <1>10 DEF LinkedFrom
  <2>2. QED
    BY <2>1 DEF Read
<1>11. QED
  BY <1>9, <1>10

-----------------------------------------------------------------------------
(* The invariant, and what it says of the trees.                           *)

\* The trees hold the versions of the topoheights that are not pruned.
StorageInv ==
    /\ top \in Topo /\ pruned \in 0..top
    /\ DOMAIN hash_at_topo = {0} \cup LastPruned..top
    /\ \A t \in DOMAIN hash_at_topo : hash_at_topo[t] \in Block
    /\ GoodDb(db, pruned, top)

\* The highest and the lowest member of a set of topoheights.
LEMMA MaxIs ==
    ASSUME NEW S \in SUBSET Int, NEW x \in S, \A y \in S : y <= x
    PROVE  Max(S) = x
<1>1. \A y \in S : x >= y
  OBVIOUS
<1>2. \A z \in S : (\A y \in S : z >= y) => z = x
  OBVIOUS
<1>3. QED
  BY <1>1, <1>2 DEF Max

LEMMA MinIs ==
    ASSUME NEW S \in SUBSET Int, NEW x \in S, \A y \in S : x <= y
    PROVE  Min(S) = x
<1>1. \A z \in S : (\A y \in S : z <= y) => z = x
  OBVIOUS
<1>2. QED
  BY <1>1 DEF Min

\* The pointer is the highest version and every link the next lower one.
LEMMA GoodIsLinked ==
    ASSUME NEW tree, NEW Values, top \in Topo, pruned \in 0..top,
           GoodTree(tree, pruned, top, Values)
    PROVE  LinkedTree(tree) /\ IsTree(tree, Values)
<1>0. top \in Int /\ pruned \in Nat /\ pruned..top \subseteq Topo
  BY StorageAssumption DEF Topo
<1>1. \A k \in Account : Versions(tree, k) \in SUBSET Int /\ Versions(tree, k) \in SUBSET Nat
  BY VersionsAre
<1>2. ASSUME NEW k \in DOMAIN tree.last PROVE tree.last[k] = Max(Versions(tree, k))
  <2>1. k \in Account /\ tree.last[k] \in Versions(tree, k)
        /\ \A u \in Versions(tree, k) : u <= tree.last[k]
    BY DEF GoodTree
  <2>2. QED
    BY <1>1, <2>1, MaxIs
<1>3. ASSUME NEW k \in Account, NEW t \in Versions(tree, k)
      PROVE  /\ t \in pruned..top
             /\ tree.ver[<<t, k>>].prev =
                   LET below == {u \in Versions(tree, k) : u < t}
                   IN  IF below = {} THEN NoTopo ELSE Max(below)
  <2> DEFINE V == Versions(tree, k)
             r == tree.ver[<<t, k>>].prev
             below == {u \in V : u < t}
  <2>1. t \in pruned..top
    <3>1. <<t, k>> \in (pruned..top) \X Account
      BY VersionsAre DEF GoodTree
    <3>2. QED
      BY <3>1
  <2>2. Newest(V, t - 1, r) /\ V \in SUBSET Nat /\ t \in Nat
    BY <1>1 DEF GoodTree
  <2> HIDE DEF V, r
  <2>3. CASE r = NoTopo
    <3>1. \A u \in V : u > t - 1 /\ u \in Nat
      BY <2>2, <2>3, NoTopoIs DEF Newest
    <3>a. \A u \in V : ~(u < t)
      BY <2>2, <3>1
    <3>2. below = {}
      BY <3>a
    <3>3. QED
      BY <2>1, <2>3, <3>2 DEF V, r
  <2>4. CASE r # NoTopo
    <3>1. r \in V /\ r <= t - 1 /\ \A u \in V : u <= t - 1 => u <= r
      BY <2>2, <2>4 DEF Newest
    <3>a. r < t /\ \A u \in V : u \in Int /\ (u < t => u <= t - 1)
      BY <2>2, <3>1
    <3>2. r \in below /\ below \in SUBSET Int /\ \A u \in below : u <= r
      BY <3>1, <3>a
    <3> HIDE DEF below
    <3>3. Max(below) = r /\ below # {}
      BY <3>2, MaxIs
    <3>4. QED
      BY <2>1, <3>3 DEF below, V, r
  <2>5. QED
    BY <2>3, <2>4
<1>4. LinkedTree(tree)
  BY <1>2, <1>3 DEF LinkedTree, GoodTree
<1>5. IsTree(tree, Values)
  <2>1. DOMAIN tree.last \subseteq Account /\ DOMAIN tree.ver \subseteq Topo \X Account
    <3>1. DOMAIN tree.ver \subseteq (pruned..top) \X Account
      BY DEF GoodTree
    <3>2. QED
      BY <1>0, <3>1 DEF GoodTree
  <2>2. \A k \in DOMAIN tree.last : tree.last[k] \in Topo
    <3>1. \A k \in DOMAIN tree.last : tree.last[k] \in Versions(tree, k)
      BY DEF GoodTree
    <3>2. QED
      BY <3>1, VersionsAre
  <2>3. ASSUME NEW p \in DOMAIN tree.ver
        PROVE  tree.ver[p].value \in Values /\ tree.ver[p].prev \in Topo \cup {NoTopo}
    <3>1. PICK t \in Topo, k \in Account : p = <<t, k>>
      BY <2>1
    <3>2. t \in Versions(tree, k)
      BY <3>1, VersionsAre
    <3>3. tree.ver[<<t, k>>] \in [value : Values, prev : Topo \cup {NoTopo}]
      BY <3>2 DEF GoodTree
    <3>4. QED
      BY <3>1, <3>3
  <2>4. QED
    BY <2>1, <2>2, <2>3 DEF IsTree
<1>6. QED
  BY <1>4, <1>5

\* has_key_updated_in_range finds a key exactly when it has a version in the range.
LEMMA FoundInRange ==
    ASSUME NEW tree, NEW low \in Nat, NEW high \in Int, NEW Values,
           GoodTree(tree, low, high, Values), NEW k \in DOMAIN tree.last,
           NEW from \in Topo, NEW to \in Topo
    PROVE  FoundFrom(tree, k, tree.last[k], from, to) <=> Versions(tree, k) \cap from..to # {}
<1> DEFINE V == Versions(tree, k)
           r == Bumped(tree, k, to)
<1>0. from \in Nat /\ to \in Nat /\ V \in SUBSET Nat
  BY VersionsAre DEF Topo
<1>1. Newest(V, to, r)
  BY BumpedFinds
<1>2. r \in Int
  BY <1>0, <1>1, NewestIs
<1>3. FoundFrom(tree, k, tree.last[k], from, to) <=> r # NoTopo /\ r >= from
  BY DEF FoundFrom, Bumped
<1> HIDE DEF V, r
<1>4. ASSUME r # NoTopo, r >= from PROVE V \cap from..to # {}
  <2>1. r \in V /\ r <= to
    BY <1>1, <1>4 DEF Newest
  <2>2. QED
    BY <1>0, <1>2, <1>4, <2>1
<1>5. ASSUME NEW u \in V, u \in from..to PROVE r # NoTopo /\ r >= from
  <2>1. u <= to /\ ~(u > to) /\ from <= u /\ u \in Nat
    BY <1>0, <1>5
  <2>2. r \in V /\ u <= r
    BY <1>1, <2>1 DEF Newest
  <2>3. r \in Nat
    BY <1>0, <2>2
  <2>4. QED
    BY <1>0, <2>1, <2>2, <2>3, NoTopoIs
<1>6. QED
  BY <1>3, <1>4, <1>5 DEF V

LEMMA InvIsSound == StorageInv => StorageSound
<1>1. SUFFICES ASSUME StorageInv PROVE StorageSound
  OBVIOUS
<1>2. PICK B : B = db.balances
  OBVIOUS
<1>3. PICK N : N = db.nonces
  OBVIOUS
<1>4. top \in Topo /\ pruned \in 0..top /\ GoodDb(db, pruned, top)
  BY <1>1 DEF StorageInv
<1>5. top \in Int /\ pruned \in Nat /\ top <= MaxTopo
  BY <1>4, StorageAssumption DEF Topo
<1>6. GoodTree(B, pruned, top, SUBSET Block) /\ GoodTree(N, pruned, top, Nat)
  BY <1>2, <1>3, <1>4 DEF GoodDb
<1>7. /\ LinkedTree(B) /\ LinkedTree(N) /\ IsTree(B, SUBSET Block) /\ IsTree(N, Nat)
  <2>1. LinkedTree(N) /\ IsTree(N, Nat)
    BY <1>4, <1>6, GoodIsLinked
  <2>2. PICK V : V = SUBSET Block
    OBVIOUS
  <2>3. GoodTree(B, pruned, top, V)
    BY <1>6, <2>2
  <2>4. LinkedTree(B) /\ IsTree(B, V)
    BY <1>4, <2>3, GoodIsLinked
  <2>5. QED
    BY <2>1, <2>2, <2>4
<1>8. /\ DOMAIN B.last \subseteq Account /\ DOMAIN N.last \subseteq Account
      /\ \A k \in Account : k \in DOMAIN B.last <=> Versions(B, k) # {}
      /\ \A k \in Account : k \in DOMAIN N.last <=> Versions(N, k) # {}
  BY <1>6 DEF GoodTree
<1>9. DOMAIN N.last = DOMAIN B.last
  <2>1. ASSUME NEW k \in Account PROVE Versions(B, k) # {} <=> Versions(N, k) # {}
    <3>1. \A u \in Topo : u <= MaxTopo
      BY StorageAssumption DEF Topo
    <3>2. (\E u \in Versions(B, k) : u <= MaxTopo) <=> (\E u \in Versions(N, k) : u <= MaxTopo)
      BY <1>2, <1>3, <1>4, StorageAssumption DEF GoodDb
    <3>3. QED
      BY <3>1, <3>2, VersionsAre
  <2>2. QED
    BY <1>8, <2>1
<1>10. /\ db.accounts_count = Cardinality(DOMAIN N.last)
       /\ DOMAIN db.registrations = DOMAIN B.last
       /\ \A k \in DOMAIN db.registrations :
             /\ db.registrations[k] \in Versions(B, k)
             /\ \A u \in Versions(B, k) : db.registrations[k] <= u
       /\ db.registrations_prefixed = {<<db.registrations[k], k>> : k \in DOMAIN db.registrations}
  BY <1>2, <1>3, <1>4 DEF GoodDb
<1>11. Linked
  BY <1>2, <1>3, <1>7, <1>9, <1>10 DEF Linked
<1>12. Registered
  <2>1. ASSUME NEW k \in DOMAIN db.registrations PROVE db.registrations[k] = Min(Versions(B, k))
    <3>1. Versions(B, k) \in SUBSET Int
      BY VersionsAre
    <3>2. QED
      BY <1>10, <3>1, MinIs
  <2>2. QED
    BY <1>2, <1>10, <2>1 DEF Registered
<1>13. StorageTypeOK
  <2>1. db.accounts_count \in Nat
    <3>1. IsFiniteSet(DOMAIN N.last)
      BY <1>8, StorageAssumption, FS_Subset
    <3>2. QED
      BY <1>10, <3>1, FS_CardinalityType
  <2>2. DOMAIN db.registrations \subseteq Account
    BY <1>8, <1>10
  <2>3. db.registrations_prefixed \subseteq Topo \X Account
    <3>1. \A k \in DOMAIN db.registrations : db.registrations[k] \in Topo
      BY <1>10, VersionsAre
    <3>2. QED
      BY <1>10, <2>2, <3>1
  <2>4. /\ DOMAIN hash_at_topo = {0} \cup (IF pruned = 0 THEN 1 ELSE pruned)..top
        /\ \A t \in DOMAIN hash_at_topo : hash_at_topo[t] \in Block
    BY <1>1 DEF StorageInv, LastPruned
  <2>5. QED
    BY <1>2, <1>3, <1>4, <1>7, <2>1, <2>2, <2>3, <2>4 DEF StorageTypeOK
<1>14. RangeComplete
  <2>1. ASSUME NEW k \in Account, NEW low \in Topo, NEW high \in Topo
        PROVE  UpdatedInRange(k, low, high) <=> (Versions(B, k) \cup Versions(N, k)) \cap low..high # {}
    <3>1. CASE k \in DOMAIN N.last
      <4>1. k \in DOMAIN B.last
        BY <1>9, <3>1
      <4>2. FoundFrom(N, k, N.last[k], low, high) <=> Versions(N, k) \cap low..high # {}
        BY <1>5, <1>6, <3>1, FoundInRange
      <4>3. FoundFrom(B, k, B.last[k], low, high) <=> Versions(B, k) \cap low..high # {}
        <5>1. PICK V : V = SUBSET Block
          OBVIOUS
        <5>2. GoodTree(B, pruned, top, V)
          BY <1>6, <5>1
        <5>3. QED
          BY <1>5, <4>1, <5>2, FoundInRange
      <4>4. QED
        BY <1>2, <1>3, <3>1, <4>2, <4>3 DEF UpdatedInRange
    <3>2. CASE k \notin DOMAIN N.last
      <4>1. Versions(N, k) = {} /\ Versions(B, k) = {}
        BY <1>8, <1>9, <3>2
      <4>2. ~UpdatedInRange(k, low, high)
        BY <1>3, <3>2 DEF UpdatedInRange
      <4>3. QED
        BY <4>1, <4>2
    <3>3. QED
      BY <3>1, <3>2
  <2>2. QED
    BY <1>2, <1>3, <2>1 DEF RangeComplete
<1>15. QED
  BY <1>11, <1>12, <1>13, <1>14 DEF StorageSound

-----------------------------------------------------------------------------
(* Every action keeps the invariant and is a step of the history.          *)

\* The ledger of the refinement is what is read at each topoheight.
LEMMA LedgerIs ==
    /\ ReadLedger = [t \in pruned..top |-> Read(db, t)]
    /\ ReadLedger' = [t \in pruned'..top' |-> Read(db', t)]
BY DEF ReadLedger, Read

\* The history starts at the pruned topoheight and ends at the top.
LEMMA HistoryBounds ==
    ASSUME top \in Int, pruned \in Int, pruned <= top
    PROVE  DOMAIN ReadLedger = pruned..top /\ Promised!Low = pruned /\ Promised!High = top
<1>1. DOMAIN ReadLedger = pruned..top
  BY LedgerIs
<1>2. /\ pruned \in pruned..top /\ top \in pruned..top
      /\ \A t \in pruned..top : pruned <= t /\ top >= t
      /\ \A t \in pruned..top : (\A u \in pruned..top : t <= u) => t = pruned
      /\ \A t \in pruned..top : (\A u \in pruned..top : t >= u) => t = top
  OBVIOUS
<1>3. Promised!Low = pruned
  BY <1>1, <1>2 DEF Promised!Low
<1>4. Promised!High = top
  BY <1>1, <1>2 DEF Promised!High
<1>5. QED
  BY <1>1, <1>3, <1>4

\* Below the first version that is kept nothing is read.
LEMMA ReadBelow ==
    ASSUME NEW d, NEW low \in Nat, NEW high \in Int, high <= MaxTopo, GoodDb(d, low, high),
           NEW m \in Int, m < low
    PROVE  Read(d, m) = Promised!Untouched
<1>1. ASSUME NEW tree, NEW Values, GoodTree(tree, low, high, Values), NEW k \in Account, NEW default
      PROVE  Value(tree, k, m, default) = default
  <2>1. Newest(Versions(tree, k), m, AtMaximum(tree, k, m))
    BY <1>1, AtMaximumFinds
  <2>2. ASSUME NEW u \in Versions(tree, k) PROVE ~(u <= m)
    <3>1. <<u, k>> \in (low..high) \X Account
      BY <1>1, VersionsAre DEF GoodTree
    <3>2. QED
      BY <3>1
  <2>3. AtMaximum(tree, k, m) = NoTopo
    BY <2>1, <2>2 DEF Newest
  <2>4. QED
    BY <2>3 DEF Value
<1>2. GoodTree(d.balances, low, high, SUBSET Block) /\ GoodTree(d.nonces, low, high, Nat)
  BY DEF GoodDb
<1>3. \A k \in Account : Value(d.balances, k, m, {}) = {}
  BY <1>1, <1>2
<1>4. \A k \in Account : Value(d.nonces, k, m, -1) = -1
  BY <1>1, <1>2
<1>5. QED
  BY <1>3, <1>4 DEF Read, Promised!Untouched

LEMMA InitGood == InitStorage => StorageInv /\ Promised!Init
<1>1. SUFFICES ASSUME InitStorage PROVE StorageInv /\ Promised!Init
  OBVIOUS
<1>2. 0 \in Topo /\ Genesis \in Block /\ DOMAIN EmptyDb = DbFields
  BY StorageAssumption DEF Topo, EmptyDb, DbFields
<1>3. GoodDb(EmptyDb, 0, 0 - 1) /\ Read(EmptyDb, 0 - 1) = Promised!Untouched
  BY EmptyGood
<1>4. PICK x : x = Execute(EmptyDb, 0, Genesis)
  OBVIOUS
<1>5. ExecutedAt(x, EmptyDb, 0, Genesis)
  BY <1>2, <1>4, ExecuteIs
<1>6. ExecutedWell(x, EmptyDb, 0, Genesis, 0)
  BY <1>2, <1>3, <1>5, ExecuteReads
<1>7. GoodDb(x, 0, 0) /\ Read(x, 0) = Promised!After(Promised!Untouched, Genesis)
  BY <1>3, <1>6 DEF ExecutedWell
<1>8. db = x /\ top = 0 /\ pruned = 0 /\ hash_at_topo = [t \in {0} |-> Genesis]
  BY <1>1, <1>4 DEF InitStorage
<1>9. StorageInv
  BY <1>2, <1>7, <1>8 DEF StorageInv, LastPruned
<1>10. ReadLedger = [t \in {0} |-> Promised!After(Promised!Untouched, Genesis)]
  <2>1. 0..0 = {0}
    OBVIOUS
  <2>2. ReadLedger = [t \in {0} |-> Read(x, t)]
    BY <1>8, <2>1, LedgerIs
  <2>3. QED
    BY <1>7, <2>2
<1>11. Promised!Init
  BY <1>2, <1>10 DEF Promised!Init
<1>12. QED
  BY <1>9, <1>11

\* An order is a sequence of blocks.
LEMMA OrdersAre ==
    ASSUME NEW keep, NEW blocks \in Orders(keep)
    PROVE  blocks \in Seq(Block) /\ Len(blocks) \in Nat /\ Len(blocks) > 0
<1> DEFINE free == Block \ {hash_at_topo[t] : t \in {u \in DOMAIN hash_at_topo : u <= keep}}
<1>1. blocks \in SeqOf(free, ReorgDepth + 1) /\ blocks # <<>>
  BY Zenon DEF Orders
<1>2. free \subseteq Block
  OBVIOUS
<1> HIDE DEF free
<1>3. PICK m \in 0..(ReorgDepth + 1) : blocks \in [1..m -> free]
  BY <1>1 DEF SeqOf
<1>4. m \in Nat /\ blocks \in [1..m -> Block]
  BY <1>2, <1>3, StorageAssumption
<1>5. blocks \in Seq(Block) /\ Len(blocks) = m
  BY <1>4
<1>6. m # 0
  <2>1. ASSUME m = 0 PROVE blocks = <<>>
    BY <1>5, <2>1
  <2>2. QED
    BY <1>1, <2>1
<1>7. QED
  BY <1>4, <1>5, <1>6

LEMMA AddBlockGood ==
    ASSUME StorageInv, NEW keep \in pruned..top, NEW blocks \in Orders(keep), AddBlock(keep, blocks)
    PROVE  StorageInv' /\ Promised!Extend
<1> DEFINE L == Len(blocks)
<1>1. top \in Topo /\ pruned \in 0..top /\ GoodDb(db, pruned, top)
  BY DEF StorageInv
<1>2. /\ top \in Int /\ top <= MaxTopo /\ pruned \in Nat /\ keep \in Nat
      /\ pruned <= keep /\ keep <= top /\ keep <= MaxTopo
  BY <1>1, StorageAssumption DEF Topo
<1>3. blocks \in Seq(Block) /\ L \in Nat /\ L > 0
  BY OrdersAre
<1>4. /\ keep + L \in Topo /\ top' = keep + L /\ pruned' = pruned
      /\ db' = Executed(Undone(db, keep, top - keep), keep, blocks)
  BY DEF AddBlock
<1> HIDE DEF L
<1>5. PICK u : u = Undone(db, keep, top - keep)
  OBVIOUS
<1>6. CutDb(u, db, keep)
  BY <1>1, <1>2, <1>5, UndoneDbCuts
<1>7. GoodDb(u, pruned, keep) /\ \A m \in Int : m <= keep => Read(u, m) = Read(db, m)
  BY <1>1, <1>2, <1>6, CutDbGood
<1>8. PICK x : x = db'
  OBVIOUS
<1>9. ExecutedUpTo(x, u, keep, blocks, L, pruned)
  BY <1>2, <1>3, <1>4, <1>5, <1>7, <1>8, ExecutedGood DEF L
<1>10. /\ GoodDb(x, pruned, keep + L)
       /\ \A m \in Int : m <= keep => Read(x, m) = Read(db, m)
       /\ \A i \in 1..L : Read(x, keep + i) = Promised!After(Read(x, (keep + i) - 1), blocks[i])
  BY <1>7, <1>9 DEF ExecutedUpTo
<1>11. /\ DOMAIN hash_at_topo' = {0} \cup LastPruned'..top'
       /\ \A t \in DOMAIN hash_at_topo' : hash_at_topo'[t] \in Block
  <2> DEFINE D == (DOMAIN hash_at_topo \ (keep + 1)..top) \cup (keep + 1)..(keep + L)
  <2>1. /\ DOMAIN hash_at_topo' = D
        /\ \A t \in D : hash_at_topo'[t] = IF t <= keep THEN hash_at_topo[t] ELSE blocks[t - keep]
    BY DEF AddBlock, L
  <2>2. /\ DOMAIN hash_at_topo = {0} \cup LastPruned..top
        /\ \A t \in DOMAIN hash_at_topo : hash_at_topo[t] \in Block
    BY DEF StorageInv
  <2>3. LastPruned' = LastPruned /\ LastPruned \in Nat /\ LastPruned <= keep + 1
    BY <1>2, <1>4 DEF LastPruned
  <2>4. D = {0} \cup LastPruned..(keep + L)
    BY <1>2, <1>3, <2>2, <2>3
  <2>5. ASSUME NEW t \in D PROVE hash_at_topo'[t] \in Block
    <3>1. CASE t <= keep
      <4>1. t \in DOMAIN hash_at_topo
        BY <1>2, <3>1
      <4>2. QED
        BY <2>1, <2>2, <3>1, <4>1
    <3>2. CASE ~(t <= keep)
      <4>1. t - keep \in 1..L
        BY <1>2, <1>3, <2>3, <2>4, <3>2
      <4>2. blocks[t - keep] \in Block
        BY <1>3, <4>1 DEF L
      <4>3. QED
        BY <2>1, <3>2, <4>2
    <3>3. QED
      BY <3>1, <3>2
  <2>6. QED
    BY <1>4, <2>1, <2>3, <2>4, <2>5
<1>12. StorageInv'
  <2>1. top' \in Topo /\ pruned' \in 0..top'
    BY <1>2, <1>3, <1>4
  <2>2. GoodDb(db', pruned', top')
    BY <1>4, <1>8, <1>10
  <2>3. QED
    BY <1>11, <2>1, <2>2 DEF StorageInv
<1>13. Promised!Extend
  <2>1. ReadLedger = [t \in pruned..top |-> Read(db, t)] /\ Promised!Low = pruned
    BY <1>2, LedgerIs, HistoryBounds
  <2>2. ReadLedger' = [t \in pruned..(keep + L) |-> Read(x, t)]
    BY <1>4, <1>8, LedgerIs
  <2>3. /\ keep \in DOMAIN ReadLedger /\ keep + 1 \in DOMAIN ReadLedger'
        /\ Promised!Low \in DOMAIN ReadLedger'
    BY <1>2, <1>3, <2>1, <2>2
  <2>4. ASSUME NEW t \in DOMAIN ReadLedger'
        PROVE  \/ t \in Promised!Low..keep /\ ReadLedger'[t] = ReadLedger[t]
               \/ /\ t > keep /\ t - 1 \in DOMAIN ReadLedger'
                  /\ \E b \in Block : ReadLedger'[t] = Promised!After(ReadLedger'[t - 1], b)
    <3>0. t \in pruned..(keep + L) /\ t \in Int /\ ReadLedger'[t] = Read(x, t)
      BY <2>2
    <3>1. CASE t <= keep
      <4>1. t \in pruned..keep /\ t \in pruned..top
        BY <1>2, <3>0, <3>1
      <4>2. ReadLedger[t] = Read(db, t)
        BY <2>1, <4>1
      <4>3. QED
        BY <1>10, <2>1, <3>0, <3>1, <4>1, <4>2
    <3>2. CASE t > keep
      <4>1. PICK i : i = t - keep
        OBVIOUS
      <4>2. i \in 1..L /\ t = keep + i /\ t - 1 \in pruned..(keep + L)
        BY <1>2, <1>3, <3>0, <3>2, <4>1
      <4>3. Read(x, t) = Promised!After(Read(x, t - 1), blocks[i])
        BY <1>10, <4>2
      <4>4. ReadLedger'[t - 1] = Read(x, t - 1)
        BY <2>2, <4>2
      <4>5. blocks[i] \in Block
        BY <1>3, <4>2 DEF L
      <4>6. QED
        BY <2>2, <3>0, <3>2, <4>2, <4>3, <4>4, <4>5
    <3>3. QED
      BY <1>2, <3>0, <3>1, <3>2
  <2>5. QED
    BY <2>3, <2>4 DEF Promised!Extend
<1>14. QED
  BY <1>12, <1>13

LEMMA PopBlocksGood ==
    ASSUME StorageInv, NEW count \in 1..MaxTopo, NEW stable \in 0..top, PopBlocks(count, stable)
    PROVE  StorageInv' /\ (Promised!Rewind \/ Promised!StartOver)
<1> DEFINE lowest == LowestTopo(count, stable)
           low == IF lowest >= stable THEN lowest ELSE stable
           over == pruned # 0 /\ low < pruned
           n == IF over THEN 0 ELSE IF low >= top THEN top ELSE low
<1>1. top \in Topo /\ pruned \in 0..top /\ GoodDb(db, pruned, top)
  BY DEF StorageInv
<1>2. /\ top \in Nat /\ top <= MaxTopo /\ pruned \in Nat /\ pruned <= top
      /\ count \in Nat /\ stable \in Nat /\ stable <= top
  BY <1>1, StorageAssumption DEF Topo
<1>3. /\ top >= count /\ top' = n /\ pruned' = IF over THEN 0 ELSE pruned
      /\ hash_at_topo' = Restrict(hash_at_topo, {t \in DOMAIN hash_at_topo : t <= n})
      /\ db' = RewindDb(db, n)
  BY Zenon DEF PopBlocks
<1>4. low \in Nat
  <2>1. lowest \in Int
    BY <1>2, StorageAssumption DEF LowestTopo
  <2> HIDE DEF lowest
  <2>2. QED
    BY <1>2, <2>1
<1> HIDE DEF low
<1>5. /\ n \in Nat /\ n <= top /\ n \in Topo
      /\ pruned' \in Nat /\ pruned' <= n /\ pruned' <= pruned
      /\ over => n = 0 /\ pruned' = 0 /\ pruned > 0
      /\ ~over => pruned' = pruned
  <2>1. PICK q : q = pruned'
    OBVIOUS
  <2>2. q = IF over THEN 0 ELSE pruned
    BY <1>3, <2>1
  <2>3. n \in Nat /\ n <= top
    BY <1>2, <1>4
  <2>4. n \in Topo
    BY <1>2, <2>3, StorageAssumption DEF Topo
  <2>5. over => n = 0 /\ q = 0 /\ pruned > 0
    BY <1>2, <2>2
  <2>6. ~over => q = pruned /\ pruned <= n
    BY <1>2, <1>4, <2>2
  <2> HIDE DEF n, over
  <2>7. q \in Nat /\ q <= n /\ q <= pruned
    BY <1>2, <2>3, <2>5, <2>6
  <2>8. QED
    BY <2>1, <2>3, <2>4, <2>5, <2>6, <2>7
<1> HIDE DEF n, over
<1>6. PICK x : x = db'
  OBVIOUS
<1>7. CutDb(x, db, n)
  BY <1>1, <1>2, <1>3, <1>5, <1>6, RewindDbCuts
<1>8. GoodDb(x, pruned', n) /\ \A m \in Int : m <= n => Read(x, m) = Read(db, m)
  <2>1. PICK low2 : low2 = pruned'
    OBVIOUS
  <2>2. low2 \in Nat /\ low2 <= pruned /\ n \in Int /\ n <= MaxTopo
    BY <1>2, <1>5, <2>1, StorageAssumption
  <2>3. GoodDb(x, low2, n) /\ \A m \in Int : m <= n => Read(x, m) = Read(db, m)
    BY <1>1, <1>2, <1>7, <2>2, CutDbGood
  <2>4. QED
    BY <2>1, <2>3
<1>9. /\ DOMAIN hash_at_topo' = {0} \cup LastPruned'..top'
      /\ \A t \in DOMAIN hash_at_topo' : hash_at_topo'[t] \in Block
  <2>1. /\ DOMAIN hash_at_topo = {0} \cup LastPruned..top
        /\ \A t \in DOMAIN hash_at_topo : hash_at_topo[t] \in Block
    BY DEF StorageInv
  <2>2. /\ DOMAIN hash_at_topo' = {t \in DOMAIN hash_at_topo : t <= n}
        /\ \A t \in DOMAIN hash_at_topo' : hash_at_topo'[t] = hash_at_topo[t]
    BY <1>3 DEF Restrict
  <2>3. {t \in {0} \cup LastPruned..top : t <= n} = {0} \cup LastPruned'..n
    <3>1. CASE over
      <4>1. LastPruned = pruned /\ LastPruned' = 1 /\ n = 0 /\ pruned > 0
        BY <1>5, <3>1 DEF LastPruned
      <4>2. QED
        BY <1>2, <4>1
    <3>2. CASE ~over
      <4>1. LastPruned' = LastPruned /\ LastPruned \in Nat
        BY <1>2, <1>5, <3>2 DEF LastPruned
      <4>2. QED
        BY <1>2, <1>5, <4>1
    <3>3. QED
      BY <3>1, <3>2
  <2>4. QED
    BY <1>3, <2>1, <2>2, <2>3
<1>10. StorageInv'
  <2>1. top' \in Topo /\ pruned' \in 0..top'
    BY <1>3, <1>5
  <2>2. GoodDb(db', pruned', top')
    BY <1>3, <1>6, <1>8
  <2>3. QED
    BY <1>9, <2>1, <2>2 DEF StorageInv
<1>11. /\ ReadLedger = [t \in pruned..top |-> Read(db, t)] /\ Promised!Low = pruned
       /\ DOMAIN ReadLedger = pruned..top
       /\ ReadLedger' = [t \in pruned'..n |-> Read(x, t)]
  BY <1>2, <1>3, <1>6, LedgerIs, HistoryBounds
<1>12. CASE over
  <2>1. 0..0 = {0} /\ n = 0 /\ pruned' = 0 /\ pruned > 0
    BY <1>5, <1>12
  <2>2. Read(x, 0) = Read(db, 0)
    BY <1>8, <2>1
  <2>3. Read(db, 0) = Promised!Untouched
    BY <1>1, <1>2, <2>1, ReadBelow
  <2>4. ReadLedger' = [t \in {0} |-> Promised!Untouched]
    BY <1>11, <2>1, <2>2, <2>3
  <2>5. Promised!StartOver
    BY <1>11, <2>1, <2>4 DEF Promised!StartOver
  <2>6. QED
    BY <1>10, <2>5
<1>13. CASE ~over
  <2>1. pruned' = pruned /\ n \in pruned..top
    BY <1>2, <1>5, <1>13
  <2>2. \A t \in pruned..n : t \in pruned..top /\ t \in Int /\ t <= n
    BY <1>2, <1>5
  <2>3. \A t \in pruned..n : Read(x, t) = ReadLedger[t]
    BY <1>8, <1>11, <2>2
  <2>4. ReadLedger' = [t \in Promised!Low..n |-> ReadLedger[t]]
    BY <1>11, <2>1, <2>3
  <2>5. Promised!Rewind
    BY <1>11, <2>1, <2>4 DEF Promised!Rewind
  <2>6. QED
    BY <1>10, <2>5
<1>14. QED
  BY <1>12, <1>13

LEMMA PruneUntilGood ==
    ASSUME StorageInv, NEW topoheight \in 1..MaxTopo, NEW located \in 0..topoheight,
           PruneUntil(topoheight, located)
    PROVE  StorageInv' /\ Promised!Prune
<1>1. top \in Topo /\ pruned \in 0..top /\ GoodDb(db, pruned, top)
  BY DEF StorageInv
<1>2. /\ top \in Nat /\ top <= MaxTopo /\ pruned \in Nat /\ pruned <= top
      /\ LastPruned \in Nat /\ LastPruned >= 1 /\ pruned <= LastPruned
  BY <1>1, StorageAssumption DEF Topo, LastPruned
<1>3. /\ topoheight < top /\ located > LastPruned /\ db' = PruneDb(db, located)
      /\ hash_at_topo' = Restrict(hash_at_topo, DOMAIN hash_at_topo \ LastPruned..(located - 1))
      /\ pruned' = located /\ top' = top
  BY DEF PruneUntil
<1>4. located \in Topo /\ located \in Nat /\ located <= top /\ located \in pruned..top
  BY <1>2, <1>3, StorageAssumption DEF Topo
<1>5. PICK x : x = db'
  OBVIOUS
<1>6. PrunedDb(x, db, located)
  BY <1>1, <1>2, <1>3, <1>4, <1>5, PruneDbIs
<1>7. GoodDb(x, located, top) /\ \A m \in Int : m >= located => Read(x, m) = Read(db, m)
  BY <1>1, <1>2, <1>4, <1>6, PruneDbGood
<1>8. /\ DOMAIN hash_at_topo' = {0} \cup LastPruned'..top'
      /\ \A t \in DOMAIN hash_at_topo' : hash_at_topo'[t] \in Block
  <2>1. /\ DOMAIN hash_at_topo = {0} \cup LastPruned..top
        /\ \A t \in DOMAIN hash_at_topo : hash_at_topo[t] \in Block
    BY DEF StorageInv
  <2>2. /\ DOMAIN hash_at_topo' = DOMAIN hash_at_topo \ LastPruned..(located - 1)
        /\ \A t \in DOMAIN hash_at_topo' : hash_at_topo'[t] = hash_at_topo[t]
    BY <1>3 DEF Restrict
  <2>3. LastPruned' = located
    BY <1>2, <1>3, <1>4 DEF LastPruned
  <2>4. ({0} \cup LastPruned..top) \ LastPruned..(located - 1) = {0} \cup located..top
    BY <1>2, <1>3, <1>4
  <2>5. QED
    BY <1>3, <2>1, <2>2, <2>3, <2>4
<1>9. StorageInv'
  <2>1. top' \in Topo /\ pruned' \in 0..top'
    BY <1>1, <1>2, <1>3, <1>4
  <2>2. GoodDb(db', pruned', top')
    BY <1>3, <1>5, <1>7
  <2>3. QED
    BY <1>8, <2>1, <2>2 DEF StorageInv
<1>10. /\ ReadLedger = [t \in pruned..top |-> Read(db, t)] /\ Promised!High = top
       /\ DOMAIN ReadLedger = pruned..top
       /\ ReadLedger' = [t \in located..top |-> Read(x, t)]
  BY <1>2, <1>3, <1>5, LedgerIs, HistoryBounds
<1>11. \A t \in located..top : t \in pruned..top /\ t \in Int /\ t >= located
  BY <1>2, <1>4
<1>12. \A t \in located..top : Read(x, t) = ReadLedger[t]
  BY <1>7, <1>10, <1>11
<1>13. ReadLedger' = [t \in located..Promised!High |-> ReadLedger[t]]
  BY <1>10, <1>12
<1>14. Promised!Prune
  BY <1>4, <1>10, <1>13 DEF Promised!Prune
<1>15. QED
  BY <1>9, <1>14

LEMMA NextStorageGood ==
    StorageInv /\ [NextStorage]_storageVars => StorageInv' /\ [Promised!Next]_ReadLedger
<1>1. SUFFICES ASSUME StorageInv, [NextStorage]_storageVars
               PROVE  StorageInv' /\ [Promised!Next]_ReadLedger
  OBVIOUS
<1>2. ASSUME NEW keep \in pruned..top, NEW blocks \in Orders(keep), AddBlock(keep, blocks)
      PROVE  StorageInv' /\ [Promised!Next]_ReadLedger
  BY <1>1, <1>2, AddBlockGood DEF Promised!Next
<1>3. ASSUME NEW count \in 1..MaxTopo, NEW stable \in 0..top, PopBlocks(count, stable)
      PROVE  StorageInv' /\ [Promised!Next]_ReadLedger
  BY <1>1, <1>3, PopBlocksGood DEF Promised!Next
<1>4. ASSUME NEW topoheight \in 1..MaxTopo, NEW located \in 0..topoheight,
             PruneUntil(topoheight, located)
      PROVE  StorageInv' /\ [Promised!Next]_ReadLedger
  BY <1>1, <1>4, PruneUntilGood DEF Promised!Next
<1>5. ASSUME UNCHANGED storageVars PROVE StorageInv' /\ [Promised!Next]_ReadLedger
  <2>1. UNCHANGED hash_at_topo /\ UNCHANGED top /\ UNCHANGED pruned /\ UNCHANGED db
    BY <1>5 DEF storageVars
  <2>2. ReadLedger' = ReadLedger
    BY <2>1, LedgerIs
  <2>3. StorageInv'
    BY <1>1, <2>1 DEF StorageInv, LastPruned
  <2>4. QED
    BY <2>2, <2>3
<1>6. QED
  BY <1>1, <1>2, <1>3, <1>4, <1>5 DEF NextStorage

\* Storage: for any accounts, blocks and bounds the versions of every account are
\* linked, registrations name the first version kept and no changed key is missed,
\* after any mix of execution, reordering, pop_blocks and pruning.
THEOREM StorageIsSound == StorageSpec => []StorageSound
<1>1. InitStorage => StorageInv
  BY InitGood
<1>2. StorageInv /\ [NextStorage]_storageVars => StorageInv'
  BY NextStorageGood
<1>3. StorageInv => StorageSound
  BY InvIsSound
<1>4. QED
  BY <1>1, <1>2, <1>3, PTL DEF StorageSpec

\* Refinement: what is read through the pointers and links is the history of the
\* executed blocks, extended, cut at its end by a reordering or pop_blocks, or cut
\* at its beginning by pruning.
THEOREM StorageImplements == StorageSpec => Implements
<1>1. InitStorage => StorageInv /\ Promised!Init
  BY InitGood
<1>2. StorageInv /\ [NextStorage]_storageVars => StorageInv' /\ [Promised!Next]_ReadLedger
  BY NextStorageGood
<1>3. QED
  BY <1>1, <1>2, PTL DEF StorageSpec, Implements, Promised!Spec

=============================================================================
