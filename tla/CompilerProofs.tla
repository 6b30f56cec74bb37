--------------------------- MODULE CompilerProofs ---------------------------
(***************************************************************************)
(* Proofs about UnionFind, IrStore and Dominance, for every number of ids,   *)
(* every capacity of the arena and number of insertions, and every tree of   *)
(* regions.                                                                  *)
(*                                                                           *)
(* UnionFind: links never point to a larger id, so the root of a path is     *)
(* its least id; UfInv adds that ids have one root exactly when unions       *)
(* connect them.  Path and Component are least closed sets: a fact about     *)
(* all their members is proved by showing that a closed set has it.          *)
(*                                                                           *)
(* IrStore: StoreInv bounds the generation of a slot by the insertions so    *)
(* far (they do not wrap around), and says of a region's list that its       *)
(* links go to older live nodes of the region and that each live node is     *)
(* the head or has one predecessor.  The operands of live nodes and the      *)
(* ids that clients hold are Meant: their slot has moved on to a later       *)
(* generation, or holds the node they were made for.                         *)
(*                                                                           *)
(* Dominance: a region encloses another exactly when it is reached by as     *)
(* many steps to the parent as it is less deep.  DomInv says that the tree   *)
(* holds the parents of the first regions of the arena and the depth of      *)
(* each; a parent stands before its children, so the first round finds all.  *)
(***************************************************************************)
EXTENDS UnionFind, IrStore, Dominance, IndexArithmetic, SequenceTheorems, FiniteSetTheorems, TLAPS

-----------------------------------------------------------------------------
(* UnionFind: roots of a table of links *)

\* A table whose links never point to a larger id.
Table(p) == p \in [Ids -> Ids] /\ \A y \in Ids : p[y] <= y

\* A set of ids with the link of each.
LinkClosed(p, S) == S \subseteq Ids /\ \A z \in S : p[z] \in S

\* Ids are natural numbers.
LEMMA IdsNat == Ids \subseteq Nat
BY UnionFindAssumption DEF Ids

\* A path is the least closed set.
LEMMA PathLeast ==
  ASSUME NEW p, Table(p), NEW x \in Ids
  PROVE  /\ x \in Path(p, x) /\ LinkClosed(p, Path(p, x))
         /\ \A S : x \in S /\ LinkClosed(p, S) => Path(p, x) \subseteq S
<1>1. x \in Path(p, x) /\ Path(p, x) \subseteq Ids
  BY DEF Path
<1>2. ASSUME NEW z \in Path(p, x) PROVE p[z] \in Path(p, x)
  <2>1. z \in Ids /\ p[z] \in Ids
    BY <1>1, <1>2 DEF Table
  <2> QED BY <1>2, <2>1 DEF Path
<1>3. ASSUME NEW S, x \in S, LinkClosed(p, S) PROVE Path(p, x) \subseteq S
  BY <1>3 DEF Path, LinkClosed
<1> QED BY <1>1, <1>2, <1>3 DEF LinkClosed

\* The path of an id is the id and the path of its link.
LEMMA PathStep ==
  ASSUME NEW p, Table(p), NEW x \in Ids
  PROVE  /\ p[x] \in Ids /\ Path(p, p[x]) \subseteq Path(p, x) /\ Path(p, x) \subseteq {x} \cup Path(p, p[x])
         /\ p[x] = x => Path(p, x) = {x}
<1>1. p[x] \in Ids
  BY DEF Table
<1>2. Path(p, p[x]) \subseteq Path(p, x)
  BY <1>1, PathLeast DEF LinkClosed
<1>3. LinkClosed(p, {x} \cup Path(p, p[x]))
  BY <1>1, PathLeast DEF LinkClosed
<1>4. Path(p, x) \subseteq {x} \cup Path(p, p[x])
  BY <1>3, PathLeast
<1>5. p[x] = x => Path(p, x) = {x}
  <2> SUFFICES ASSUME p[x] = x PROVE Path(p, x) = {x}
    OBVIOUS
  <2>1. LinkClosed(p, {x})
    BY DEF LinkClosed
  <2> QED BY <2>1, PathLeast
<1> QED BY <1>1, <1>2, <1>4, <1>5

\* find_ro ends at the one id of the path that is its own link.
LEMMA RootOfPath ==
  ASSUME NEW p, Table(p), NEW x \in Ids
  PROVE  /\ find_ro(p, x) \in Path(p, x) /\ p[find_ro(p, x)] = find_ro(p, x)
         /\ \A w \in Path(p, x) : p[w] = w => w = find_ro(p, x)
<1>1. Path(p, x) \subseteq Nat /\ x \in Path(p, x) /\ LinkClosed(p, Path(p, x))
  BY IdsNat, PathLeast DEF LinkClosed
<1>2. PICK m \in Path(p, x) : \A k \in Path(p, x) : m <= k
  BY <1>1, LeastElement
<1>3. p[m] = m
  <2>1. p[m] \in Path(p, x) /\ m \in Ids
    BY <1>1 DEF LinkClosed
  <2>2. p[m] <= m /\ m <= p[m]
    BY <1>2, <2>1 DEF Table
  <2> QED BY <1>1, <2>1, <2>2
<1>4. find_ro(p, x) \in Path(p, x) /\ p[find_ro(p, x)] = find_ro(p, x)
  BY <1>3 DEF find_ro
<1>5. ASSUME NEW w \in Path(p, x), NEW v \in Path(p, x), p[w] = w, p[v] = v PROVE w = v
  <2> DEFINE T == {y \in Ids : w \in Path(p, y)}
  <2>1. ASSUME NEW y \in T PROVE p[y] \in T
    <3>1. y \in Ids /\ p[y] \in Ids /\ w \in {y} \cup Path(p, p[y])
      BY PathStep
    <3>2. CASE w = y
      BY <1>5, <3>1, <3>2
    <3>3. CASE w \in Path(p, p[y])
      BY <3>1, <3>3
    <3> QED BY <3>1, <3>2, <3>3
  <2>2. x \in T /\ LinkClosed(p, T)
    BY <2>1 DEF LinkClosed
  <2>3. v \in T
    <3> HIDE DEF T
    <3> QED BY <2>2, PathLeast
  <2>4. w \in Path(p, v) /\ v \in Ids
    BY <2>3
  <2> QED BY <1>5, <2>4, PathStep
<1> QED BY <1>4, <1>5

\* r gives each id a root: the roots follow the links.
RootsBy(p, r) ==
  /\ \A y \in Ids : r[p[y]] = r[y]
  /\ \A y \in Ids : p[y] = y => r[y] = y

\* Whatever gives each id a root is find_ro.
LEMMA RootsUnique ==
  ASSUME NEW p, Table(p), NEW r, RootsBy(p, r), NEW x \in Ids
  PROVE  find_ro(p, x) = r[x]
<1> DEFINE T == {y \in Ids : r[y] = r[x]}
<1>1. x \in T /\ LinkClosed(p, T)
  BY DEF LinkClosed, RootsBy, Table
<1>2. Path(p, x) \subseteq T
  <2> HIDE DEF T
  <2> QED BY <1>1, PathLeast
<1>3. find_ro(p, x) \in T /\ p[find_ro(p, x)] = find_ro(p, x)
  BY <1>2, RootOfPath
<1> QED BY <1>3 DEF RootsBy

\* The roots of a table.
Roots(p) == [y \in Ids |-> find_ro(p, y)]

\* What find_ro returns: a smaller id, its own link, the same one for everything on the path.
LEMMA RootFacts ==
  ASSUME NEW p, Table(p)
  PROVE  /\ RootsBy(p, Roots(p)) /\ Roots(p) \in [Ids -> Ids]
         /\ \A x \in Ids : Roots(p)[x] = find_ro(p, x) /\ Roots(p)[x] <= x /\ p[Roots(p)[x]] = Roots(p)[x]
         /\ \A x \in Ids : \A y \in Path(p, x) : Roots(p)[y] = Roots(p)[x]
         /\ \A x \in Ids : Roots(p)[Roots(p)[x]] = Roots(p)[x]
<1>1. \A x \in Ids : Roots(p)[x] = find_ro(p, x)
  BY DEF Roots
<1>2. \A x \in Ids : find_ro(p, x) \in Path(p, x) /\ p[find_ro(p, x)] = find_ro(p, x) /\ find_ro(p, x) \in Ids
  BY RootOfPath, PathLeast DEF LinkClosed
<1>3. Roots(p) \in [Ids -> Ids]
  BY <1>2 DEF Roots
<1>4. ASSUME NEW x \in Ids PROVE find_ro(p, x) <= x
  <2> DEFINE T == {y \in Ids : y <= x}
  <2>1. ASSUME NEW y \in T PROVE p[y] \in T
    <3>1. y \in Nat /\ p[y] \in Nat /\ x \in Nat /\ p[y] \in Ids /\ p[y] <= y
      BY IdsNat DEF Table
    <3> QED BY <3>1
  <2>2. x \in T /\ LinkClosed(p, T)
    BY <2>1, IdsNat DEF LinkClosed
  <2>3. find_ro(p, x) \in T
    <3> HIDE DEF T
    <3> QED BY <1>2, <2>2, PathLeast
  <2> QED BY <2>3
<1>5. ASSUME NEW y \in Ids PROVE find_ro(p, p[y]) = find_ro(p, y)
  <2>1. p[y] \in Ids /\ Path(p, p[y]) \subseteq Path(p, y)
    BY PathStep
  <2>2. find_ro(p, p[y]) \in Path(p, y)
    BY <1>2, <2>1
  <2> QED BY <1>2, <2>1, <2>2, RootOfPath
<1>6. ASSUME NEW y \in Ids, p[y] = y PROVE find_ro(p, y) = y
  BY <1>6, PathLeast, RootOfPath
<1>7. RootsBy(p, Roots(p))
  <2>1. \A y \in Ids : p[y] \in Ids
    BY DEF Table
  <2> QED BY <1>1, <1>5, <1>6, <2>1 DEF RootsBy
<1>8. ASSUME NEW x \in Ids, NEW y \in Path(p, x) PROVE find_ro(p, y) = find_ro(p, x)
  <2> DEFINE T == {z \in Ids : find_ro(p, z) = find_ro(p, x)}
  <2>1. x \in T /\ LinkClosed(p, T)
    BY <1>5 DEF LinkClosed, Table
  <2>2. y \in T
    <3> HIDE DEF T
    <3> QED BY <2>1, PathLeast
  <2> QED BY <2>2
<1>9. \A x \in Ids : \A y \in Path(p, x) : y \in Ids
  BY PathLeast DEF LinkClosed
<1>10. \A x \in Ids : \A y \in Path(p, x) : Roots(p)[y] = Roots(p)[x]
  BY <1>1, <1>8, <1>9
<1>11. \A x \in Ids : Roots(p)[Roots(p)[x]] = Roots(p)[x]
  BY <1>1, <1>2, <1>6
<1>12. \A x \in Ids : Roots(p)[x] <= x /\ p[Roots(p)[x]] = Roots(p)[x]
  BY <1>1, <1>2, <1>4
<1> QED BY <1>1, <1>3, <1>7, <1>10, <1>11, <1>12

\* find's compression keeps every root.
LEMMA CompressedRoots ==
  ASSUME NEW p, Table(p), NEW x \in Ids
  PROVE  /\ Table(Compressed(p, x)) /\ Roots(Compressed(p, x)) = Roots(p)
         /\ \A y \in Ids : Compressed(p, x)[y] = p[y] \/ Compressed(p, x)[y] = Roots(p)[y]
<1> DEFINE q == Compressed(p, x)
           r == Roots(p)
<1>1. /\ RootsBy(p, r) /\ r \in [Ids -> Ids] /\ \A y \in Ids : r[y] = find_ro(p, y)
      /\ \A y \in Ids : r[y] <= y /\ p[r[y]] = r[y] /\ r[r[y]] = r[y]
      /\ \A y \in Path(p, x) : r[y] = r[x]
  BY RootFacts
<1>2. q = [y \in Ids |-> IF y \in Path(p, x) THEN r[x] ELSE p[y]]
  BY <1>1 DEF Compressed
<1>3. p \in [Ids -> Ids] /\ \A y \in Ids : p[y] <= y
  BY DEF Table
<1> HIDE DEF q, r
<1>4. \A y \in Ids : q[y] = IF y \in Path(p, x) THEN r[y] ELSE p[y]
  BY <1>1, <1>2
<1>5. Table(q)
  BY <1>1, <1>2, <1>3, <1>4 DEF Table
<1>6. RootsBy(q, r)
  <2>1. \A y \in Ids : r[q[y]] = r[y]
    BY <1>1, <1>4 DEF RootsBy
  <2>2. \A y \in Ids : q[y] = y => r[y] = y
    BY <1>1, <1>4 DEF RootsBy
  <2> QED BY <2>1, <2>2 DEF RootsBy
<1>7. \A y \in Ids : find_ro(q, y) = r[y]
  BY <1>5, <1>6, RootsUnique
<1>8. Roots(q) = r
  BY <1>1, <1>7 DEF Roots
<1> QED BY <1>4, <1>5, <1>8 DEF q, r

\* The smaller and the larger of two ids.
LEMMA MinMaxOfTwo ==
  ASSUME NEW a \in Nat, NEW b \in Nat
  PROVE  /\ Min({a, b}) \in {a, b} /\ Max({a, b}) \in {a, b}
         /\ Min({a, b}) <= a /\ Min({a, b}) <= b /\ a <= Max({a, b}) /\ b <= Max({a, b})
<1>1. \E m \in {a, b} : \A y \in {a, b} : m <= y
  <2>1. CASE a <= b
    BY <2>1
  <2>2. CASE b <= a
    BY <2>2
  <2> QED BY <2>1, <2>2
<1>2. \E m \in {a, b} : \A y \in {a, b} : m >= y
  <2>1. CASE a <= b
    BY <2>1
  <2>2. CASE b <= a
    BY <2>2
  <2> QED BY <2>1, <2>2
<1>3. Min({a, b}) \in {a, b} /\ \A y \in {a, b} : Min({a, b}) <= y
  BY <1>1 DEF Min
<1>4. Max({a, b}) \in {a, b} /\ \A y \in {a, b} : Max({a, b}) >= y
  BY <1>2 DEF Max
<1> QED BY <1>3, <1>4

\* Linking the larger of two roots under the smaller makes the smaller the root of both classes.
Relinked(p, m, n) == [y \in Ids |-> IF Roots(p)[y] = m THEN n ELSE Roots(p)[y]]

\* q links the roots m and n of a and b.
LinksTo(p, q, a, b, m, n) ==
  /\ n <= m /\ {Roots(p)[a], Roots(p)[b]} = {m, n}
  /\ q[m] = n /\ \A y \in Ids : y # m => q[y] = p[y]
  /\ Table(q) /\ Roots(q) = Relinked(p, m, n)

\* union on a table: the roots after it.
LEMMA LinkedRoots ==
  ASSUME NEW p, Table(p), NEW a \in Ids, NEW b \in Ids
  PROVE  \E m, n \in Ids : LinksTo(p, LinkRoots(p, a, b), a, b, m, n)
<1> DEFINE r == Roots(p)
           m == Max({r[a], r[b]})
           n == Min({r[a], r[b]})
           q == [p EXCEPT ![m] = n]
           s == Relinked(p, m, n)
<1>1. /\ RootsBy(p, r) /\ r \in [Ids -> Ids] /\ \A y \in Ids : r[y] = find_ro(p, y)
      /\ \A y \in Ids : r[y] <= y /\ p[r[y]] = r[y] /\ r[r[y]] = r[y]
  BY RootFacts
<1>2. LinkRoots(p, a, b) = q
  BY <1>1 DEF LinkRoots
<1>3. p \in [Ids -> Ids] /\ \A y \in Ids : p[y] <= y
  BY DEF Table
<1>4. r[a] \in Nat /\ r[b] \in Nat /\ r[a] \in Ids /\ r[b] \in Ids
  BY <1>1, IdsNat
<1>5. m \in {r[a], r[b]} /\ n \in {r[a], r[b]} /\ n <= r[a] /\ n <= r[b] /\ r[a] <= m /\ r[b] <= m
  <2> HIDE DEF r
  <2> QED BY <1>4, MinMaxOfTwo
<1>6. m \in Ids /\ n \in Ids /\ n <= m /\ m \in Nat /\ n \in Nat /\ p[m] = m /\ p[n] = n /\ r[m] = m /\ r[n] = n
  BY <1>1, <1>4, <1>5
<1>7. {r[a], r[b]} = {m, n}
  <2> HIDE DEF m, n, r
  <2> QED BY <1>4, <1>5, <1>6
<1>8. s = [y \in Ids |-> IF r[y] = m THEN n ELSE r[y]]
  BY DEF Relinked
<1> HIDE DEF r, m, n, s
<1>9. q \in [Ids -> Ids] /\ q[m] = n /\ \A y \in Ids : y # m => q[y] = p[y]
  BY <1>3, <1>6
<1> HIDE DEF q
<1>10. Table(q)
  BY <1>3, <1>6, <1>9 DEF Table
<1>11. RootsBy(q, s)
  <2>1. \A y \in Ids : s[y] = IF r[y] = m THEN n ELSE r[y]
    BY <1>8
  <2>2. ASSUME NEW y \in Ids PROVE s[q[y]] = s[y]
    <3>1. CASE y = m
      BY <1>6, <1>9, <2>1, <3>1
    <3>2. CASE y # m
      <4>1. q[y] = p[y] /\ p[y] \in Ids /\ r[p[y]] = r[y]
        BY <1>1, <1>3, <1>9, <3>2 DEF RootsBy
      <4> QED BY <2>1, <4>1
    <3> QED BY <3>1, <3>2
  <2>3. ASSUME NEW y \in Ids, q[y] = y PROVE s[y] = y
    <3>1. CASE y = m
      BY <1>6, <1>9, <2>1, <2>3, <3>1
    <3>2. CASE y # m
      <4>1. r[y] = y
        BY <1>1, <1>9, <2>3, <3>2 DEF RootsBy
      <4> QED BY <2>1, <3>2, <4>1
    <3> QED BY <3>1, <3>2
  <2> QED BY <2>2, <2>3 DEF RootsBy
<1>12. \A y \in Ids : find_ro(q, y) = s[y]
  BY <1>10, <1>11, RootsUnique
<1>13. Roots(q) = s
  BY <1>8, <1>12 DEF Roots
<1>14. LinksTo(p, q, a, b, m, n)
  BY <1>6, <1>7, <1>9, <1>10, <1>13 DEF LinksTo, r, s
<1> QED BY <1>2, <1>6, <1>14

-----------------------------------------------------------------------------
(* Components *)

\* A set of ids with every pair it meets, and the component of an id for given pairs.
PairClosed(J, S) == S \subseteq Ids /\ \A e \in J : e \cap S # {} => e \subseteq S
Connected(J, x) == {y \in Ids : \A S \in SUBSET Ids : x \in S /\ PairClosed(J, S) => y \in S}

\* Component is Connected of the pairs united so far.
LEMMA ComponentIs == \A x : Component(x) = Connected(joined, x)
BY DEF Component, Connected, PairClosed

\* A component is the least closed set, and connection an equivalence.
LEMMA Connection ==
  ASSUME NEW J \in SUBSET (SUBSET Ids)
  PROVE  /\ \A x \in Ids : x \in Connected(J, x) /\ PairClosed(J, Connected(J, x))
         /\ \A x \in Ids : \A S : x \in S /\ PairClosed(J, S) => Connected(J, x) \subseteq S
         /\ \A x, y \in Ids : y \in Connected(J, x) => Connected(J, y) \subseteq Connected(J, x)
         /\ \A x, y \in Ids : y \in Connected(J, x) => x \in Connected(J, y)
<1>1. \A x \in Ids : x \in Connected(J, x) /\ Connected(J, x) \subseteq Ids
  BY DEF Connected
<1>2. ASSUME NEW x \in Ids, NEW e \in J, e \cap Connected(J, x) # {} PROVE e \subseteq Connected(J, x)
  <2>1. PICK z \in e : z \in Connected(J, x)
    BY <1>2
  <2>2. ASSUME NEW y \in e, NEW S \in SUBSET Ids, x \in S, PairClosed(J, S) PROVE y \in S
    <3>1. z \in S
      BY <2>1, <2>2 DEF Connected
    <3> QED BY <2>2, <3>1 DEF PairClosed
  <2>3. e \subseteq Ids
    OBVIOUS
  <2> QED BY <2>2, <2>3 DEF Connected
<1>3. \A x \in Ids : PairClosed(J, Connected(J, x))
  BY <1>1, <1>2 DEF PairClosed
<1>4. ASSUME NEW x \in Ids, NEW S, x \in S, PairClosed(J, S) PROVE Connected(J, x) \subseteq S
  BY <1>4 DEF Connected, PairClosed
<1>5. \A x, y \in Ids : y \in Connected(J, x) => Connected(J, y) \subseteq Connected(J, x)
  BY <1>3, <1>4
<1>6. ASSUME NEW x \in Ids, NEW y \in Ids, y \in Connected(J, x) PROVE x \in Connected(J, y)
  <2> DEFINE T == {z \in Ids : x \in Connected(J, z)}
  <2>1. ASSUME NEW e \in J, e \cap T # {} PROVE e \subseteq T
    <3>1. PICK z \in e : z \in T
      BY <2>1
    <3>2. ASSUME NEW u \in e PROVE u \in T
      <4>1. u \in Ids /\ z \in Ids /\ u \in Connected(J, u)
        BY <1>1, <3>1, <3>2
      <4>2. z \in Connected(J, u)
        BY <1>2, <4>1
      <4> QED BY <1>5, <3>1, <4>1, <4>2
    <3> QED BY <3>2
  <2>2. x \in T /\ PairClosed(J, T)
    BY <1>1, <2>1 DEF PairClosed
  <2>3. y \in T
    <3> HIDE DEF T
    <3> QED BY <1>4, <1>6, <2>2
  <2> QED BY <2>3
<1> QED BY <1>1, <1>3, <1>4, <1>5, <1>6

\* More pairs connect more.
LEMMA ConnectionGrows ==
  ASSUME NEW J, NEW K, J \subseteq K, NEW x \in Ids
  PROVE  Connected(J, x) \subseteq Connected(K, x)
BY DEF Connected, PairClosed

\* The links stay inside of components, and united ids have one root.
Agrees(p, J) ==
  /\ Table(p) /\ J \in SUBSET (SUBSET Ids)
  /\ \A y \in Ids : p[y] \in Connected(J, y)
  /\ \A e \in J : \A a, b \in e : Roots(p)[a] = Roots(p)[b]

UfInv == Agrees(parent, joined)

\* So do the roots.
LEMMA RootConnected ==
  ASSUME NEW p, NEW J, Agrees(p, J), NEW x \in Ids
  PROVE  Roots(p)[x] \in Connected(J, x)
<1>1. Table(p) /\ J \in SUBSET (SUBSET Ids) /\ \A y \in Ids : p[y] \in Connected(J, y)
  BY DEF Agrees
<1>2. Connected(J, x) \subseteq Ids /\ x \in Connected(J, x)
  BY <1>1, Connection DEF PairClosed
<1>3. LinkClosed(p, Connected(J, x))
  BY <1>1, <1>2, Connection DEF LinkClosed
<1>4. Path(p, x) \subseteq Connected(J, x)
  BY <1>1, <1>2, <1>3, PathLeast
<1>5. Roots(p)[x] \in Path(p, x)
  BY <1>1, RootOfPath, RootFacts
<1> QED BY <1>4, <1>5

\* Compression changes nothing that matters.
LEMMA CompressedAgrees ==
  ASSUME NEW p, NEW J, Agrees(p, J), NEW x \in Ids
  PROVE  Agrees(Compressed(p, x), J)
<1> DEFINE q == Compressed(p, x)
<1>1. Table(p) /\ J \in SUBSET (SUBSET Ids) /\ \A y \in Ids : p[y] \in Connected(J, y)
  BY DEF Agrees
<1>2. Table(q) /\ Roots(q) = Roots(p) /\ \A y \in Ids : q[y] = p[y] \/ q[y] = Roots(p)[y]
  BY <1>1, CompressedRoots
<1>3. \A y \in Ids : q[y] \in Connected(J, y)
  BY <1>1, <1>2, RootConnected
<1> HIDE DEF q
<1>4. Agrees(q, J)
  BY <1>1, <1>2, <1>3 DEF Agrees
<1> QED BY <1>4 DEF q

\* A union joins two components and their roots.
LEMMA LinkAgrees ==
  ASSUME NEW p, NEW J, Agrees(p, J), NEW a \in Ids, NEW b \in Ids
  PROVE  Agrees(LinkRoots(p, a, b), J \cup {{a, b}})
<1> DEFINE K == J \cup {{a, b}}
           q == LinkRoots(p, a, b)
           r == Roots(p)
<1>1. /\ Table(p) /\ J \in SUBSET (SUBSET Ids) /\ \A y \in Ids : p[y] \in Connected(J, y)
      /\ \A e \in J : \A c, d \in e : r[c] = r[d]
  BY DEF Agrees
<1>2. K \in SUBSET (SUBSET Ids) /\ J \subseteq K /\ {a, b} \in K
  BY <1>1
<1>3. PICK m \in Ids, n \in Ids : LinksTo(p, q, a, b, m, n)
  BY <1>1, LinkedRoots
<1>4. /\ n <= m /\ {r[a], r[b]} = {m, n} /\ Table(q)
      /\ \A y \in Ids : Roots(q)[y] = IF r[y] = m THEN n ELSE r[y]
  BY <1>3 DEF LinksTo, Relinked
<1>5. q[m] = n /\ \A y \in Ids : y # m => q[y] = p[y]
  BY <1>3 DEF LinksTo
<1> HIDE DEF K, q, r
<1>6. ASSUME NEW e \in K, NEW c \in e, NEW d \in e PROVE Roots(q)[c] = Roots(q)[d]
  <2>1. c \in Ids /\ d \in Ids
    BY <1>2, <1>6
  <2>2. CASE e \in J
    <3>1. r[c] = r[d]
      BY <1>1, <1>6, <2>2
    <3> QED BY <1>4, <2>1, <3>1
  <2>3. CASE e = {a, b}
    <3>1. \A y \in {a, b} : r[y] = m \/ r[y] = n
      BY <1>4
    <3>2. \A y \in {a, b} : Roots(q)[y] = n
      BY <1>4, <3>1
    <3> QED BY <1>6, <2>3, <3>2
  <2> QED BY <1>6, <2>2, <2>3 DEF K
<1>7. n \in Connected(K, m)
  <2>1. \A y \in Ids : r[y] \in Connected(K, y)
    BY <1>2, RootConnected, ConnectionGrows DEF r
  <2>2. b \in Connected(K, a) /\ a \in Connected(K, b)
    <3>1. /\ a \in Connected(K, a) /\ PairClosed(K, Connected(K, a))
          /\ b \in Connected(K, b) /\ PairClosed(K, Connected(K, b))
      BY <1>2, Connection
    <3> QED BY <1>2, <3>1 DEF PairClosed
  <2>3. m \in Connected(K, a) /\ n \in Connected(K, a)
    <3>1. r[a] \in Connected(K, a) /\ r[b] \in Connected(K, a)
      BY <1>2, <2>1, <2>2, Connection
    <3> QED BY <1>4, <3>1
  <2>4. a \in Connected(K, m)
    BY <1>2, <2>3, Connection
  <2> QED BY <1>2, <2>3, <2>4, Connection
<1>8. \A y \in Ids : q[y] \in Connected(K, y)
  <2>1. \A y \in Ids : p[y] \in Connected(K, y)
    BY <1>1, <1>2, ConnectionGrows
  <2> QED BY <1>5, <1>7, <2>1
<1>9. Agrees(q, K)
  BY <1>2, <1>4, <1>6, <1>8 DEF Agrees
<1> QED BY <1>9 DEF K, q

\* new: every id is its own component.
LEMMA UfInit == UnionFindInit => UfInv
<1> SUFFICES ASSUME UnionFindInit PROVE Agrees(parent, {})
  BY DEF UnionFindInit, UfInv
<1>1. parent \in [Ids -> Ids] /\ \A y \in Ids : parent[y] = y
  BY DEF UnionFindInit
<1>2. Table(parent)
  BY <1>1, IdsNat DEF Table
<1>3. \A y \in Ids : parent[y] \in Connected({}, y)
  BY <1>1, Connection
<1> QED BY <1>2, <1>3 DEF Agrees

\* find and union keep the invariant.
LEMMA UfNext == UfInv /\ [UnionFindNext]_uf_vars => UfInv'
<1> SUFFICES ASSUME Agrees(parent, joined), [UnionFindNext]_uf_vars PROVE Agrees(parent', joined')
  BY DEF UfInv
<1>1. ASSUME NEW x, find(x) PROVE Agrees(parent', joined')
  BY <1>1, CompressedAgrees DEF find
<1>2. ASSUME NEW a, NEW b, union(a, b) PROVE Agrees(parent', joined')
  <2>1. CASE a \notin Ids /\ UNCHANGED uf_vars
    BY <2>1 DEF uf_vars
  <2>2. CASE a \in Ids /\ b \notin Ids /\ parent' = Compressed(parent, a) /\ UNCHANGED joined
    BY <2>2, CompressedAgrees
  <2>3. CASE /\ a \in Ids /\ b \in Ids
             /\ parent' = LinkRoots(Compressed(Compressed(parent, a), b), a, b)
             /\ joined' = joined \cup {{a, b}}
    <3>1. Agrees(Compressed(parent, a), joined)
      BY <2>3, CompressedAgrees
    <3>2. Agrees(Compressed(Compressed(parent, a), b), joined)
      BY <2>3, <3>1, CompressedAgrees
    <3> QED BY <2>3, <3>2, LinkAgrees
  <2> QED BY <1>2, <2>1, <2>2, <2>3 DEF union
<1>3. CASE UNCHANGED uf_vars
  BY <1>3 DEF uf_vars
<1> QED BY <1>1, <1>2, <1>3 DEF UnionFindNext

\* Everything connected with x has its root, and none is smaller.
LEMMA AgreesLeast ==
  ASSUME NEW p, NEW J, Agrees(p, J), NEW x \in Ids
  PROVE  find_ro(p, x) = Min(Connected(J, x))
<1> DEFINE r == Roots(p)
           C == Connected(J, x)
           T == {y \in Ids : r[y] = r[x]}
<1>1. /\ Table(p) /\ J \in SUBSET (SUBSET Ids) /\ \A e \in J : \A c, d \in e : r[c] = r[d]
      /\ r[x] \in C /\ C \subseteq Ids /\ r[x] = find_ro(p, x)
  BY RootConnected, RootFacts DEF Agrees, Connected
<1>2. \A y \in Ids : r[y] <= y
  BY <1>1, RootFacts
<1>3. PairClosed(J, T)
  <2>1. ASSUME NEW e \in J, e \cap T # {} PROVE e \subseteq T
    <3>1. PICK z \in e : z \in T
      BY <2>1
    <3>2. \A y \in e : y \in Ids /\ r[y] = r[z]
      BY <1>1, <2>1
    <3> QED BY <3>1, <3>2
  <2> QED BY <2>1 DEF PairClosed
<1>4. C \subseteq T
  <2>1. x \in T
    OBVIOUS
  <2> HIDE DEF T
  <2> QED BY <1>1, <1>3, <2>1, Connection
<1>5. \A y \in C : r[x] <= y
  BY <1>1, <1>2, <1>4
<1> HIDE DEF r, C
<1>6. \A m \in C : (\A y \in C : m <= y) => m = r[x]
  <2>1. \A y \in C : y \in Nat
    BY <1>1, IdsNat
  <2> QED BY <1>1, <1>5, <2>1
<1>7. Min(C) = r[x]
  BY <1>1, <1>5, <1>6 DEF Min
<1> QED BY <1>1, <1>7 DEF C

\* The table and the pairs united agree, after any calls: links stay inside of a component and never
\* point to a larger id, and united ids have one root.
THEOREM UfInvHolds == UnionFindSpec => []UfInv
BY UfInit, UfNext, PTL DEF UnionFindSpec

\* The representative of an id is the least id connected with it, whatever the size of the table and
\* the number and order of the calls of union and of the compressing finds between them.
THEOREM LeastRepresentatives == UnionFindSpec => []RootIsLeast
<1>1. UfInv => RootIsLeast
  <2> SUFFICES ASSUME UfInv PROVE RootIsLeast
    OBVIOUS
  <2>1. \A x \in Ids : find_ro(parent, x) = Min(Component(x))
    BY AgreesLeast, ComponentIs DEF UfInv
  <2>2. CASE joined = {}
    <3>1. parent \in [Ids -> Ids] /\ \A y \in Ids : parent[y] \in Connected({}, y)
      BY <2>2 DEF UfInv, Agrees, Table
    <3>2. \A y \in Ids : Connected({}, y) \subseteq {y}
      BY DEF Connected, PairClosed
    <3>3. parent = [i \in Ids |-> i]
      BY <3>1, <3>2
    <3> QED BY <2>2, <3>3 DEF RootIsLeast
  <2> QED BY <2>1, <2>2 DEF RootIsLeast
<1> QED BY <1>1, UfInvHolds, PTL

-----------------------------------------------------------------------------
(* IrStore: an arena's slots, generations and lists *)

IdRec == [idx : Nat, gen : Nat]
OperandRec == [id : IdRec, serial : Nat]
NodeRec == [op : {"old", "new"}, ins : Seq(OperandRec), region : Nat, next : IdRec, serial : Nat]
ArenaRec == [nodes : Seq(NodeRec), gen : Seq(Nat), free : Seq(Nat), first : Seq(IdRec)]

NodeSlots(a) == 0..(Len(a.nodes) - 1)
GenAt(a, i) == a.gen[i + 1]

\* The slots: free ones are listed once, and n insertions bound the generations and the serials.
SlotsOK(a, n) ==
  /\ a \in ArenaRec /\ Len(a.gen) = Len(a.nodes) /\ Len(a.nodes) <= NodeCapacity
  /\ \A k \in DOMAIN a.free : a.free[k] \in NodeSlots(a)
  /\ \A k, m \in DOMAIN a.free : a.free[k] = a.free[m] => k = m
  /\ \A i \in NodeSlots(a) : GenAt(a, i) <= 2 * n - 1
  /\ \A i \in Live(a) : GenAt(a, i) <= 2 * n - 2
  /\ \A i \in Live(a) : At(a, i).serial < n /\ At(a, i).region \in DOMAIN a.first
  /\ \A i, j \in Live(a) : At(a, i).serial = At(a, j).serial => i = j

\* An operand, or an id a client holds: its slot has moved on, or holds the node it was made for.
Meant(a, o) ==
  /\ o \in OperandRec /\ o.id.idx \in NodeSlots(a) /\ o.id.gen <= GenAt(a, o.id.idx)
  /\ o.id.gen = GenAt(a, o.id.idx) => o.id.idx \in Live(a) /\ At(a, o.id.idx).serial = o.serial

\* What a link of the list of region r is: the end, or a live node of the region.
LinkOK(a, id, r) == id = None \/ \E j \in Live(a) : id = IdAt(a, j) /\ At(a, j).region = r

\* The lists: links go to older nodes, and every live node is the head or has one predecessor.
ListsOK(a) ==
  /\ \A r \in DOMAIN a.first : LinkOK(a, a.first[r], r)
  /\ \A i \in Live(a) : LinkOK(a, At(a, i).next, At(a, i).region)
  /\ \A i, j \in Live(a) : At(a, i).next = IdAt(a, j) => At(a, j).serial < At(a, i).serial
  /\ \A i \in Live(a) : a.first[At(a, i).region] = IdAt(a, i) \/ \E j \in Live(a) : At(a, j).next = IdAt(a, i)
  /\ \A i, j \in Live(a) : At(a, i).next = At(a, j).next /\ At(a, i).next # None => i = j
  /\ \A i \in Live(a), r \in DOMAIN a.first : At(a, i).next = a.first[r] => a.first[r] = None

\* Everything about an arena, with n insertions so far and the operands in H.
ArenaOK(a, n, H) ==
  /\ SlotsOK(a, n) /\ ListsOK(a)
  /\ \A i \in Live(a) : \A k \in DOMAIN At(a, i).ins : Meant(a, At(a, i).ins[k])
  /\ \A h \in H : Meant(a, h)

\* Ids, slots and nodes.
LEMMA IdFacts ==
  ASSUME NEW a, NEW n, SlotsOK(a, n)
  PROVE  /\ Live(a) \subseteq NodeSlots(a) /\ NodeSlots(a) \subseteq Nat
         /\ \A i \in NodeSlots(a) : /\ At(a, i) \in NodeRec /\ GenAt(a, i) \in Nat
                                    /\ IdAt(a, i) \in IdRec /\ IdAt(a, i).idx = i /\ IdAt(a, i).gen = GenAt(a, i)
                                    /\ IdAt(a, i) # None
         /\ \A i, j \in NodeSlots(a) : IdAt(a, i) = IdAt(a, j) => i = j
<1>1. /\ a.nodes \in Seq(NodeRec) /\ a.gen \in Seq(Nat) /\ Len(a.gen) = Len(a.nodes)
      /\ Len(a.nodes) <= NodeCapacity /\ Len(a.nodes) \in Nat
  BY DEF SlotsOK, ArenaRec
<1>2. Live(a) \subseteq NodeSlots(a) /\ NodeSlots(a) \subseteq Nat
  BY <1>1 DEF Live, NodeSlots
<1>3. ASSUME NEW i \in NodeSlots(a)
      PROVE  /\ At(a, i) \in NodeRec /\ GenAt(a, i) \in Nat
             /\ IdAt(a, i) \in IdRec /\ IdAt(a, i).idx = i /\ IdAt(a, i).gen = GenAt(a, i)
             /\ IdAt(a, i) # None
  <2>1. i \in Nat /\ i + 1 \in 1..Len(a.nodes) /\ i < NodeCapacity
    BY <1>1, IrStoreAssumption DEF NodeSlots
  <2>2. At(a, i) \in NodeRec /\ GenAt(a, i) \in Nat
    BY <1>1, <2>1 DEF At, GenAt
  <2>3. IdAt(a, i) = [idx |-> i, gen |-> GenAt(a, i)]
    BY DEF IdAt, Pack, GenAt
  <2>4. IdAt(a, i) \in IdRec /\ IdAt(a, i).idx = i /\ IdAt(a, i).gen = GenAt(a, i)
    BY <2>1, <2>2, <2>3 DEF IdRec
  <2>5. None.idx = NodeCapacity /\ NodeCapacity \in Nat
    BY IrStoreAssumption DEF None
  <2> QED BY <2>1, <2>2, <2>4, <2>5
<1>4. \A i, j \in NodeSlots(a) : IdAt(a, i) = IdAt(a, j) => i = j
  BY <1>3
<1> QED BY <1>2, <1>3, <1>4

\* The nodes of a region.
Members(a, r) == {i \in Live(a) : At(a, i).region = r}

\* An id is known exactly when it resolves, and NONE is not.
LEMMA KnownFacts ==
  ASSUME NEW a, NEW n, SlotsOK(a, n)
  PROVE  /\ KnownIds(a) = {IdAt(a, i) : i \in NodeSlots(a)} /\ None \notin KnownIds(a)
         /\ \A id \in KnownIds(a) : id.idx \in NodeSlots(a) /\ id = IdAt(a, id.idx)
         /\ \A i \in Live(a) : IdAt(a, i) \in KnownIds(a)
<1>1. KnownIds(a) = {IdAt(a, i) : i \in NodeSlots(a)}
  BY DEF KnownIds, NodeSlots
<1> QED BY <1>1, IdFacts

\* The walk of a list meets the nodes of its region and no others.
LEMMA ListIsMembers ==
  ASSUME NEW a, NEW n \in Nat, SlotsOK(a, n), ListsOK(a), NEW r \in DOMAIN a.first
  PROVE  RegionList(a, r) = {IdAt(a, i) : i \in Members(a, r)}
<1> DEFINE M == {IdAt(a, i) : i \in Members(a, r)}
<1>1. M \in SUBSET KnownIds(a)
  BY KnownFacts DEF Members
<1>2. \A id \in KnownIds(a) : LinkOK(a, id, r) => id \in M
  BY KnownFacts DEF LinkOK, Members
<1>3. Follows(a, r, M)
  <2>1. a.first[r] \in KnownIds(a) => a.first[r] \in M
    BY <1>2 DEF ListsOK
  <2>2. ASSUME NEW p \in M, At(a, p.idx).next \in KnownIds(a) PROVE At(a, p.idx).next \in M
    <3>1. PICK i \in Members(a, r) : p = IdAt(a, i)
      BY <2>2
    <3>2. i \in Live(a) /\ p.idx = i /\ At(a, i).region = r
      BY <3>1, IdFacts DEF Members
    <3>3. LinkOK(a, At(a, i).next, r)
      BY <3>2 DEF ListsOK
    <3> HIDE DEF M
    <3> QED BY <1>2, <2>2, <3>2, <3>3
  <2> QED BY <2>1, <2>2 DEF Follows
<1>4. RegionList(a, r) \subseteq M
  <2> HIDE DEF M
  <2> QED BY <1>1, <1>3 DEF RegionList
<1>5. ASSUME NEW S \in SUBSET KnownIds(a), Follows(a, r, S) PROVE M \subseteq S
  <2> DEFINE Age(i) == n - At(a, i).serial
             Out == {Age(i) : i \in {j \in Members(a, r) : IdAt(a, j) \notin S}}
  <2>1. \A i \in Members(a, r) : /\ i \in Live(a) /\ i \in NodeSlots(a) /\ At(a, i).serial \in Nat
                                 /\ At(a, i).serial < n /\ At(a, i).region = r
    BY IdFacts DEF Members, SlotsOK, NodeRec
  <2>2. \A i \in Members(a, r) : Age(i) \in Nat
    BY <2>1
  <2>3. SUFFICES ASSUME Out # {} PROVE FALSE
    <3> HIDE DEF Age
    <3> QED OBVIOUS
  <2>4. Out \subseteq Nat
    BY <2>2
  <2>5. PICK m \in Out : \A k \in Out : m <= k
    <3> HIDE DEF Out
    <3> QED BY <2>3, <2>4, LeastElement
  <2>6. PICK i \in Members(a, r) : IdAt(a, i) \notin S /\ m = Age(i)
    BY <2>5
  <2>7. IdAt(a, i) \in KnownIds(a)
    BY <2>1, KnownFacts
  <2>8. CASE a.first[r] = IdAt(a, i)
    BY <1>5, <2>6, <2>7, <2>8 DEF Follows
  <2>9. CASE \E j \in Live(a) : At(a, j).next = IdAt(a, i)
    <3>1. PICK j \in Live(a) : At(a, j).next = IdAt(a, i)
      BY <2>9
    <3>2. At(a, i).serial < At(a, j).serial
      BY <2>1, <3>1 DEF ListsOK
    <3>3. j \in Members(a, r)
      <4>1. LinkOK(a, IdAt(a, i), At(a, j).region)
        BY <3>1 DEF ListsOK
      <4>2. PICK k \in Live(a) : IdAt(a, i) = IdAt(a, k) /\ At(a, k).region = At(a, j).region
        BY <2>1, <4>1, IdFacts DEF LinkOK
      <4>3. k = i
        BY <2>1, <4>2, IdFacts
      <4> QED BY <2>1, <4>2, <4>3 DEF Members
    <3>4. IdAt(a, j) \in S
      <4> SUFFICES ASSUME IdAt(a, j) \notin S PROVE FALSE
        OBVIOUS
      <4>1. Age(j) \in Out
        BY <3>3
      <4>2. Age(i) <= Age(j)
        BY <2>5, <2>6, <4>1
      <4> QED BY <2>1, <3>2, <3>3, <4>2
    <3>5. IdAt(a, j).idx = j
      BY <2>1, <3>3, IdFacts
    <3> QED BY <1>5, <2>6, <2>7, <3>1, <3>4, <3>5 DEF Follows
  <2> QED BY <2>1, <2>6, <2>8, <2>9 DEF ListsOK
<1>6. M \subseteq RegionList(a, r)
  <2> HIDE DEF M
  <2> QED BY <1>1, <1>5 DEF RegionList
<1> QED BY <1>4, <1>6

\* A list that is not empty comes to its end, the oldest of its nodes.
LEMMA ListEnds ==
  ASSUME NEW a, NEW n \in Nat, SlotsOK(a, n), ListsOK(a), NEW r \in DOMAIN a.first, Members(a, r) # {}
  PROVE  \E i \in Members(a, r) : At(a, i).next = None
<1> DEFINE Serials == {At(a, i).serial : i \in Members(a, r)}
<1>1. \A i \in Members(a, r) : i \in Live(a) /\ i \in NodeSlots(a) /\ At(a, i).serial \in Nat /\ At(a, i).region = r
  BY IdFacts DEF Members, NodeRec
<1>2. Serials \subseteq Nat /\ Serials # {}
  BY <1>1
<1>3. PICK m \in Serials : \A k \in Serials : m <= k
  <2> HIDE DEF Serials
  <2> QED BY <1>2, LeastElement
<1>4. PICK i \in Members(a, r) : m = At(a, i).serial
  BY <1>3
<1>5. LinkOK(a, At(a, i).next, r)
  BY <1>1 DEF ListsOK
<1>6. ASSUME NEW j \in Live(a), At(a, i).next = IdAt(a, j), At(a, j).region = r PROVE FALSE
  <2>1. j \in Members(a, r) /\ At(a, j).serial < At(a, i).serial
    BY <1>1, <1>6 DEF Members, ListsOK
  <2>2. m <= At(a, j).serial
    BY <1>3, <2>1
  <2> QED BY <1>1, <1>4, <2>1, <2>2
<1> QED BY <1>5, <1>6 DEF LinkOK

-----------------------------------------------------------------------------
(* Removal *)

\* A link past the node in slot x.
Skip(a, x, id) == IF id = IdAt(a, x) THEN At(a, x).next ELSE id

\* b is a without the node in slot x.
Removed(a, b, x) ==
  /\ b \in ArenaRec /\ Len(b.nodes) = Len(a.nodes) /\ Len(b.gen) = Len(a.gen)
  /\ GenAt(b, x) = GenAt(a, x) + 1 /\ \A i \in NodeSlots(a) : i # x => GenAt(b, i) = GenAt(a, i)
  /\ b.free = Append(a.free, x)
  /\ DOMAIN b.first = DOMAIN a.first /\ \A r \in DOMAIN a.first : b.first[r] = Skip(a, x, a.first[r])
  /\ \A i \in Live(a) : i # x =>
       /\ At(b, i).next = Skip(a, x, At(a, i).next) /\ At(b, i).ins = At(a, i).ins
       /\ At(b, i).region = At(a, i).region /\ At(b, i).serial = At(a, i).serial
       /\ At(b, i).op = At(a, i).op

\* The slots after a removal.
LEMMA RemovedSlots ==
  ASSUME NEW a, NEW b, NEW n \in Nat, SlotsOK(a, n), NEW x \in Live(a), Removed(a, b, x)
  PROVE  /\ Live(b) = Live(a) \ {x} /\ NodeSlots(b) = NodeSlots(a) /\ SlotsOK(b, n)
         /\ \A i \in Live(b) : IdAt(b, i) = IdAt(a, i)
<1>1. /\ a \in ArenaRec /\ b \in ArenaRec /\ a.free \in Seq(Nat) /\ x \in Nat /\ x \in NodeSlots(a)
      /\ b.free = Append(a.free, x) /\ NodeSlots(b) = NodeSlots(a)
  BY IdFacts DEF SlotsOK, ArenaRec, Removed, NodeSlots
<1>2. /\ DOMAIN b.free = 1..(Len(a.free) + 1) /\ DOMAIN a.free = 1..Len(a.free) /\ Len(a.free) \in Nat
      /\ b.free[Len(a.free) + 1] = x /\ \A k \in DOMAIN a.free : b.free[k] = a.free[k]
  BY <1>1
<1>3. \A k \in DOMAIN b.free : k \in DOMAIN a.free \/ k = Len(a.free) + 1
  BY <1>2
<1>4. Free(b) = Free(a) \cup {x}
  BY <1>2, <1>3 DEF Free
<1>5. Live(b) = Live(a) \ {x}
  BY <1>1, <1>4 DEF Live, NodeSlots
<1>6. x \notin Free(a)
  BY DEF Live
<1>7. \A k \in DOMAIN b.free : b.free[k] \in NodeSlots(b)
  BY <1>1, <1>2, <1>3 DEF SlotsOK
<1>8. ASSUME NEW k \in DOMAIN b.free, NEW m \in DOMAIN b.free, b.free[k] = b.free[m] PROVE k = m
  <2>1. \A j \in DOMAIN a.free : b.free[j] # x
    BY <1>2, <1>6 DEF Free
  <2>2. CASE k \in DOMAIN a.free /\ m \in DOMAIN a.free
    BY <1>2, <1>8, <2>2 DEF SlotsOK
  <2>3. CASE k = Len(a.free) + 1
    BY <1>2, <1>3, <1>8, <2>1, <2>3
  <2>4. CASE m = Len(a.free) + 1
    BY <1>2, <1>3, <1>8, <2>1, <2>4
  <2> QED BY <1>3, <2>2, <2>3, <2>4
<1>9. \A i \in NodeSlots(b) : GenAt(b, i) <= 2 * n - 1
  <2>1. GenAt(a, x) \in Nat /\ GenAt(a, x) <= 2 * n - 2 /\ GenAt(b, x) = GenAt(a, x) + 1
    BY IdFacts DEF SlotsOK, Removed
  <2>2. GenAt(b, x) <= 2 * n - 1
    BY <2>1
  <2>3. \A i \in NodeSlots(a) : i # x => GenAt(b, i) <= 2 * n - 1
    BY DEF SlotsOK, Removed
  <2> QED BY <1>1, <2>2, <2>3
<1>10. \A i \in Live(b) : i \in Live(a) /\ i # x /\ i \in NodeSlots(a) /\ GenAt(b, i) = GenAt(a, i)
  BY <1>5, IdFacts DEF Removed
<1>11. \A i \in Live(b) : At(b, i).serial = At(a, i).serial /\ At(b, i).region = At(a, i).region
  BY <1>10 DEF Removed
<1>12. \A i \in Live(b) : GenAt(b, i) <= 2 * n - 2
  BY <1>10 DEF SlotsOK
<1>13. \A i \in Live(b) : At(b, i).serial < n /\ At(b, i).region \in DOMAIN b.first
  BY <1>10, <1>11 DEF SlotsOK, Removed
<1>14. \A i, j \in Live(b) : At(b, i).serial = At(b, j).serial => i = j
  BY <1>10, <1>11 DEF SlotsOK
<1>15. Len(b.gen) = Len(b.nodes) /\ Len(b.nodes) <= NodeCapacity
  BY DEF Removed, SlotsOK
<1>16. SlotsOK(b, n)
  BY <1>1, <1>7, <1>8, <1>9, <1>12, <1>13, <1>14, <1>15 DEF SlotsOK
<1>17. \A i \in Live(b) : IdAt(b, i) = IdAt(a, i)
  BY <1>10 DEF IdAt, GenAt
<1> QED BY <1>1, <1>5, <1>16, <1>17

\* The lists after a removal.
LEMMA RemovedLists ==
  ASSUME NEW a, NEW b, NEW n \in Nat, SlotsOK(a, n), ListsOK(a), NEW x \in Live(a), Removed(a, b, x)
  PROVE  ListsOK(b)
<1> DEFINE id == IdAt(a, x)
           nx == At(a, x).next
<1>1. /\ Live(b) = Live(a) \ {x} /\ \A i \in Live(b) : IdAt(b, i) = IdAt(a, i)
  BY RemovedSlots
<1>2. /\ \A r \in DOMAIN a.first : b.first[r] = IF a.first[r] = id THEN nx ELSE a.first[r]
      /\ \A i \in Live(b) : At(b, i).next = IF At(a, i).next = id THEN nx ELSE At(a, i).next
      /\ DOMAIN b.first = DOMAIN a.first
  BY <1>1 DEF Removed, Skip
<1>3. \A i \in Live(b) : At(b, i).region = At(a, i).region /\ At(b, i).serial = At(a, i).serial
  BY <1>1 DEF Removed
<1>4. /\ \A i, j \in Live(a) : IdAt(a, i) = IdAt(a, j) => i = j
      /\ \A i \in Live(a) : IdAt(a, i) # None /\ At(a, i).serial \in Nat /\ At(a, i).region \in DOMAIN a.first
  BY IdFacts DEF SlotsOK, NodeRec
<1>5. nx # id /\ \A i \in Live(a) : At(a, i).next # IdAt(a, i)
  BY <1>4 DEF ListsOK
<1>6. ASSUME NEW l, NEW r, LinkOK(a, l, r)
      PROVE  l # id => LinkOK(b, l, r)
  <2>1. ASSUME NEW j \in Live(a), l = IdAt(a, j), At(a, j).region = r, l # id PROVE LinkOK(b, l, r)
    <3>1. j \in Live(b)
      BY <1>1, <2>1
    <3> QED BY <1>1, <1>3, <2>1, <3>1 DEF LinkOK
  <2> QED BY <1>6, <2>1 DEF LinkOK
<1>7. ASSUME NEW r, LinkOK(a, id, r) PROVE LinkOK(b, nx, r)
  <2>1. At(a, x).region = r
    BY <1>4, <1>7 DEF LinkOK
  <2>2. LinkOK(a, nx, r)
    BY <2>1 DEF ListsOK
  <2> QED BY <1>5, <1>6, <2>2
<1> HIDE DEF id, nx
<1>8. \A r \in DOMAIN b.first : LinkOK(b, b.first[r], r)
  BY <1>2, <1>6, <1>7 DEF ListsOK
<1>9. \A i \in Live(b) : LinkOK(b, At(b, i).next, At(b, i).region)
  <2> SUFFICES ASSUME NEW i \in Live(b) PROVE LinkOK(b, At(b, i).next, At(a, i).region)
    BY <1>3
  <2>1. LinkOK(a, At(a, i).next, At(a, i).region)
    BY <1>1 DEF ListsOK
  <2> QED BY <1>2, <1>6, <1>7, <2>1
<1>10. ASSUME NEW i \in Live(b), NEW j \in Live(b), At(b, i).next = IdAt(b, j) PROVE At(b, j).serial < At(b, i).serial
  <2>1. i \in Live(a) /\ j \in Live(a) /\ x \in Live(a) /\ At(b, i).next = IdAt(a, j)
    BY <1>1, <1>10
  <2>2. CASE At(a, i).next = id
    <3>1. nx = IdAt(a, j)
      BY <1>2, <2>1, <2>2
    <3>2. At(a, x).serial < At(a, i).serial /\ At(a, j).serial < At(a, x).serial
      BY <2>1, <2>2, <3>1 DEF ListsOK, id, nx
    <3> QED BY <1>3, <1>4, <2>1, <3>2
  <2>3. CASE At(a, i).next # id
    <3>1. At(a, i).next = IdAt(a, j)
      BY <1>2, <2>1, <2>3
    <3> QED BY <1>3, <2>1, <3>1 DEF ListsOK
  <2> QED BY <2>2, <2>3
<1>11. ASSUME NEW i \in Live(b)
       PROVE  b.first[At(b, i).region] = IdAt(b, i) \/ \E j \in Live(b) : At(b, j).next = IdAt(b, i)
  <2> DEFINE r == At(a, i).region
  <2>1. /\ i \in Live(a) /\ IdAt(b, i) = IdAt(a, i) /\ IdAt(a, i) # id /\ At(b, i).region = r
        /\ r \in DOMAIN a.first
    BY <1>1, <1>3, <1>4 DEF id
  <2>2. CASE a.first[r] = IdAt(a, i)
    BY <1>2, <2>1, <2>2
  <2>3. ASSUME NEW j \in Live(a), At(a, j).next = IdAt(a, i), j # x
        PROVE  \E k \in Live(b) : At(b, k).next = IdAt(b, i)
    <3>1. j \in Live(b)
      BY <1>1, <2>3
    <3> QED BY <1>2, <2>1, <2>3, <3>1
  <2>4. CASE nx = IdAt(a, i)
    <3>1. At(a, x).region = r
      <4>1. LinkOK(a, IdAt(a, i), At(a, x).region)
        BY <2>4 DEF ListsOK, nx
      <4> QED BY <1>4, <2>1, <4>1 DEF LinkOK
    <3>2. CASE a.first[r] = id
      BY <1>2, <2>1, <2>4, <3>2
    <3>3. ASSUME NEW p \in Live(a), At(a, p).next = id PROVE \E k \in Live(b) : At(b, k).next = IdAt(b, i)
      <4>1. p \in Live(b)
        BY <1>1, <1>5, <3>3 DEF id
      <4> QED BY <1>2, <2>1, <2>4, <3>3, <4>1
    <3> QED BY <2>1, <3>1, <3>2, <3>3 DEF ListsOK, id
  <2>5. a.first[r] = IdAt(a, i) \/ \E j \in Live(a) : At(a, j).next = IdAt(a, i)
    BY <2>1 DEF ListsOK
  <2> HIDE DEF r
  <2>6. ASSUME NEW j \in Live(a), At(a, j).next = IdAt(a, i) PROVE j # x \/ nx = IdAt(a, i)
    BY <2>6 DEF nx
  <2> QED BY <2>1, <2>2, <2>3, <2>4, <2>5, <2>6
<1>12. ASSUME NEW i \in Live(b), NEW j \in Live(b), At(b, i).next = At(b, j).next, At(b, i).next # None PROVE i = j
  <2>1. /\ \A k, m \in Live(a) : At(a, k).next = At(a, m).next /\ At(a, k).next # None => k = m
        /\ i \in Live(a) /\ j \in Live(a) /\ i # x /\ j # x
    BY <1>1 DEF ListsOK
  <2>2. id # None
    BY <1>4 DEF id
  <2>3. CASE At(a, i).next = id /\ At(a, j).next = id
    BY <2>1, <2>2, <2>3
  <2>4. CASE At(a, i).next # id /\ At(a, j).next # id
    BY <1>2, <1>12, <2>1, <2>4
  <2>5. CASE At(a, i).next = id /\ At(a, j).next # id
    <3>1. At(a, j).next = At(a, x).next /\ At(a, j).next # None
      BY <1>2, <1>12, <2>5 DEF nx
    <3> QED BY <2>1, <3>1
  <2>6. CASE At(a, i).next # id /\ At(a, j).next = id
    <3>1. At(a, i).next = At(a, x).next /\ At(a, i).next # None
      BY <1>2, <1>12, <2>6 DEF nx
    <3> QED BY <2>1, <3>1
  <2> QED BY <2>3, <2>4, <2>5, <2>6
<1>13. ASSUME NEW i \in Live(b), NEW r \in DOMAIN b.first, At(b, i).next = b.first[r] PROVE b.first[r] = None
  <2>1. /\ \A k, m \in Live(a) : At(a, k).next = At(a, m).next /\ At(a, k).next # None => k = m
        /\ \A k \in Live(a) : At(a, k).next = a.first[r] => a.first[r] = None
        /\ i \in Live(a) /\ i # x /\ r \in DOMAIN a.first
    BY <1>1, <1>2 DEF ListsOK
  <2>2. id # None
    BY <1>4 DEF id
  <2>3. CASE At(a, i).next = id /\ a.first[r] = id
    BY <2>1, <2>2, <2>3
  <2>4. CASE At(a, i).next # id /\ a.first[r] # id
    BY <1>2, <1>13, <2>1, <2>4
  <2>5. CASE At(a, i).next = id /\ a.first[r] # id
    <3>1. At(a, x).next = a.first[r] /\ b.first[r] = a.first[r]
      BY <1>2, <1>13, <2>1, <2>5 DEF nx
    <3> QED BY <2>1, <3>1
  <2>6. CASE At(a, i).next # id /\ a.first[r] = id
    <3>1. At(a, i).next = At(a, x).next /\ b.first[r] = At(a, i).next
      BY <1>2, <1>13, <2>1, <2>6 DEF nx
    <3> QED BY <2>1, <3>1
  <2> QED BY <2>3, <2>4, <2>5, <2>6
<1> QED BY <1>8, <1>9, <1>10, <1>11, <1>12, <1>13 DEF ListsOK

\* The operands after a removal.
LEMMA RemovedMeant ==
  ASSUME NEW a, NEW b, NEW n \in Nat, SlotsOK(a, n), NEW x \in Live(a), Removed(a, b, x), NEW o, Meant(a, o)
  PROVE  Meant(b, o)
<1>1. Live(b) = Live(a) \ {x} /\ NodeSlots(b) = NodeSlots(a)
  BY RemovedSlots
<1>2. /\ o \in OperandRec /\ o.id.idx \in NodeSlots(a) /\ o.id.gen <= GenAt(a, o.id.idx)
      /\ o.id.gen = GenAt(a, o.id.idx) => o.id.idx \in Live(a) /\ At(a, o.id.idx).serial = o.serial
  BY DEF Meant
<1>3. o.id.gen \in Nat /\ GenAt(a, o.id.idx) \in Nat
  BY <1>2, IdFacts DEF OperandRec, IdRec
<1>4. CASE o.id.idx = x
  <2>1. GenAt(b, x) = GenAt(a, x) + 1
    BY DEF Removed
  <2>2. o.id.gen < GenAt(b, o.id.idx)
    BY <1>2, <1>3, <1>4, <2>1
  <2> QED BY <1>1, <1>2, <1>3, <1>4, <2>1, <2>2 DEF Meant
<1>5. CASE o.id.idx # x
  <2>1. GenAt(b, o.id.idx) = GenAt(a, o.id.idx)
    BY <1>2, <1>5 DEF Removed
  <2>2. \A i \in Live(b) : At(b, i).serial = At(a, i).serial
    BY <1>1 DEF Removed
  <2> QED BY <1>1, <1>2, <1>5, <2>1, <2>2 DEF Meant
<1> QED BY <1>4, <1>5

\* All of it.
LEMMA RemovedOK ==
  ASSUME NEW a, NEW b, NEW n \in Nat, NEW H, ArenaOK(a, n, H), NEW x \in Live(a), Removed(a, b, x)
  PROVE  ArenaOK(b, n, H)
<1>1. SlotsOK(a, n) /\ ListsOK(a)
  BY DEF ArenaOK
<1>2. SlotsOK(b, n) /\ ListsOK(b) /\ Live(b) = Live(a) \ {x}
  BY <1>1, RemovedSlots, RemovedLists
<1>3. \A i \in Live(b) : i \in Live(a) /\ At(b, i).ins = At(a, i).ins
  BY <1>2 DEF Removed
<1>4. \A o : Meant(a, o) => Meant(b, o)
  BY <1>1, RemovedMeant
<1> QED BY <1>2, <1>3, <1>4 DEF ArenaOK

\* u is a with the node in slot x unlinked.
Unlinked(a, u, x) ==
  /\ u \in ArenaRec /\ u.gen = a.gen /\ u.free = a.free /\ Len(u.nodes) = Len(a.nodes)
  /\ DOMAIN u.first = DOMAIN a.first /\ \A r \in DOMAIN a.first : u.first[r] = Skip(a, x, a.first[r])
  /\ \A i \in Live(a) : i # x =>
       /\ At(u, i).next = Skip(a, x, At(a, i).next) /\ At(u, i).ins = At(a, i).ins
       /\ At(u, i).region = At(a, i).region /\ At(u, i).serial = At(a, i).serial
       /\ At(u, i).op = At(a, i).op

\* Changing one element of a sequence.
LEMMA SeqExcept ==
  ASSUME NEW S, NEW q \in Seq(S), NEW k \in DOMAIN q, NEW v \in S
  PROVE  /\ [q EXCEPT ![k] = v] \in Seq(S) /\ Len([q EXCEPT ![k] = v]) = Len(q)
         /\ DOMAIN [q EXCEPT ![k] = v] = DOMAIN q /\ [q EXCEPT ![k] = v][k] = v
         /\ \A m \in DOMAIN q : m # k => [q EXCEPT ![k] = v][m] = q[m]
OBVIOUS

\* The head's link moves on.
LEMMA UnlinkHeadIs ==
  ASSUME NEW a, NEW n \in Nat, SlotsOK(a, n), ListsOK(a), NEW x \in Live(a),
         a.first[At(a, x).region] = IdAt(a, x)
  PROVE  Unlinked(a, Unlink(a, IdAt(a, x)), x)
<1> DEFINE r0 == At(a, x).region
           f == [a.first EXCEPT ![r0] = At(a, x).next]
           u == [a EXCEPT !.first[r0] = At(a, x).next]
<1>1. a \in ArenaRec /\ x \in NodeSlots(a) /\ At(a, x) \in NodeRec /\ r0 \in DOMAIN a.first /\ IdAt(a, x).idx = x
  BY IdFacts DEF SlotsOK
<1>2. a.first \in Seq(IdRec) /\ At(a, x).next \in IdRec
  BY <1>1 DEF ArenaRec, NodeRec
<1>3. Unlink(a, IdAt(a, x)) = u
  BY <1>1 DEF Unlink
<1>4. u \in ArenaRec /\ u.gen = a.gen /\ u.free = a.free /\ u.nodes = a.nodes /\ u.first = f
  <2>1. u = [a EXCEPT !.first = f]
    OBVIOUS
  <2>2. f \in Seq(IdRec)
    BY <1>1, <1>2, SeqExcept
  <2> HIDE DEF f, u
  <2> QED BY <1>1, <2>1, <2>2 DEF ArenaRec
<1>5. DOMAIN f = DOMAIN a.first /\ f[r0] = At(a, x).next /\ \A r \in DOMAIN a.first : r # r0 => f[r] = a.first[r]
  BY <1>1, <1>2, SeqExcept
<1> HIDE DEF f, u
<1>6. ASSUME NEW r \in DOMAIN a.first PROVE f[r] = Skip(a, x, a.first[r])
  <2>1. CASE r = r0
    BY <1>5, <2>1 DEF Skip
  <2>2. CASE r # r0
    <3>1. a.first[r] # IdAt(a, x)
      <4>1. LinkOK(a, a.first[r], r)
        BY DEF ListsOK
      <4>2. \A j \in Live(a) : IdAt(a, j) = IdAt(a, x) => j = x
        BY IdFacts
      <4>3. IdAt(a, x) # None
        BY <1>1, IdFacts
      <4> QED BY <2>2, <4>1, <4>2, <4>3 DEF LinkOK
    <3> QED BY <1>5, <2>2, <3>1 DEF Skip
  <2> QED BY <2>1, <2>2
<1>7. ASSUME NEW i \in Live(a) PROVE At(a, i).next = Skip(a, x, At(a, i).next)
  <2>1. At(a, i).next # IdAt(a, x)
    <3>1. IdAt(a, x) # None
      BY <1>1, IdFacts
    <3> QED BY <1>1, <3>1 DEF ListsOK
  <2> QED BY <2>1 DEF Skip
<1>8. \A i : At(u, i) = At(a, i)
  BY <1>4 DEF At
<1> QED BY <1>3, <1>4, <1>5, <1>6, <1>7, <1>8 DEF Unlinked

\* u is a with the link of the node in slot y changed to l.
NextChanged(a, u, y, l) ==
  /\ u \in ArenaRec /\ u.gen = a.gen /\ u.free = a.free /\ u.first = a.first
  /\ Len(u.nodes) = Len(a.nodes)
  /\ At(u, y).next = l /\ At(u, y).ins = At(a, y).ins
  /\ At(u, y).region = At(a, y).region /\ At(u, y).serial = At(a, y).serial /\ At(u, y).op = At(a, y).op
  /\ \A i \in NodeSlots(a) : i # y => At(u, i) = At(a, i)

\* Changing the link of one node.
LEMMA NextExcept ==
  ASSUME NEW a \in ArenaRec, NEW y \in NodeSlots(a), NEW l \in IdRec, At(a, y) \in NodeRec, Len(a.nodes) \in Nat
  PROVE  NextChanged(a, [a EXCEPT !.nodes[y + 1].next = l], y, l)
<1> DEFINE u == [a EXCEPT !.nodes[y + 1].next = l]
           m == [At(a, y) EXCEPT !.next = l]
           q == [a.nodes EXCEPT ![y + 1] = m]
<1>1. a.nodes \in Seq(NodeRec) /\ y + 1 \in DOMAIN a.nodes /\ \A i \in NodeSlots(a) : i + 1 \in DOMAIN a.nodes /\ (i # y => i + 1 # y + 1)
  BY DEF ArenaRec, NodeSlots
<1>2. /\ m \in NodeRec /\ m.next = l /\ m.ins = At(a, y).ins
      /\ m.region = At(a, y).region /\ m.serial = At(a, y).serial /\ m.op = At(a, y).op
  BY DEF NodeRec
<1>3. u = [a EXCEPT !.nodes = q]
  BY DEF At
<1> HIDE DEF m
<1>4. /\ q \in Seq(NodeRec) /\ Len(q) = Len(a.nodes) /\ q[y + 1] = m
      /\ \A k \in DOMAIN a.nodes : k # y + 1 => q[k] = a.nodes[k]
  BY <1>1, <1>2, SeqExcept
<1> HIDE DEF q, u
<1>5. u \in ArenaRec /\ u.gen = a.gen /\ u.free = a.free /\ u.first = a.first /\ u.nodes = q
  BY <1>3, <1>4 DEF ArenaRec
<1>6. At(u, y) = m /\ \A i \in NodeSlots(a) : i # y => At(u, i) = At(a, i)
  BY <1>1, <1>4, <1>5 DEF At
<1>7. NextChanged(a, u, y, l)
  BY <1>2, <1>4, <1>5, <1>6 DEF NextChanged
<1> QED BY <1>7 DEF u

\* The predecessor's link moves on.
LEMMA UnlinkInnerIs ==
  ASSUME NEW a, NEW n \in Nat, SlotsOK(a, n), ListsOK(a), NEW x \in Live(a),
         a.first[At(a, x).region] # IdAt(a, x)
  PROVE  Unlinked(a, Unlink(a, IdAt(a, x)), x)
<1> DEFINE id == IdAt(a, x)
           r0 == At(a, x).region
           before == {p \in RegionList(a, r0) : At(a, p.idx).next = id}
           c == CHOOSE p \in before : TRUE
           y == c.idx
           l == At(a, x).next
           u == [a EXCEPT !.nodes[y + 1].next = l]
<1>1. a \in ArenaRec /\ x \in NodeSlots(a) /\ At(a, x) \in NodeRec /\ r0 \in DOMAIN a.first /\ id.idx = x
  BY IdFacts DEF SlotsOK
<1>2. RegionList(a, r0) = {IdAt(a, i) : i \in Members(a, r0)}
  <2> HIDE DEF r0
  <2> QED BY <1>1, ListIsMembers
<1>3. before # {}
  <2>1. PICK j \in Live(a) : At(a, j).next = id
    BY DEF ListsOK
  <2>2. At(a, j).region = r0
    <3>1. LinkOK(a, id, At(a, j).region)
      BY <2>1 DEF ListsOK
    <3>2. id # None /\ \A k \in Live(a) : IdAt(a, k) = id => k = x
      BY <1>1, IdFacts
    <3> QED BY <3>1, <3>2 DEF LinkOK
  <2>3. j \in Members(a, r0) /\ IdAt(a, j).idx = j
    BY <2>2, IdFacts DEF Members
  <2>4. IdAt(a, j) \in before
    BY <1>2, <2>1, <2>3
  <2> QED BY <2>4
<1>4. c \in before
  <2> HIDE DEF before
  <2> QED BY <1>3
<1>5. y \in Live(a) /\ y \in NodeSlots(a) /\ At(a, y).next = id
  <2>1. c \in RegionList(a, r0) /\ At(a, y).next = id
    <3> HIDE DEF c
    <3> QED BY <1>4
  <2> HIDE DEF c
  <2>2. PICK i \in Members(a, r0) : c = IdAt(a, i)
    BY <1>2, <2>1
  <2>3. i \in Live(a) /\ i \in NodeSlots(a) /\ c.idx = i
    BY <2>2, IdFacts DEF Members
  <2> QED BY <2>1, <2>3
<1>6. Unlink(a, id) = u
  BY <1>1, <1>3 DEF Unlink
<1> HIDE DEF c, y
<1>7. /\ u \in ArenaRec /\ u.gen = a.gen /\ u.free = a.free /\ u.first = a.first
      /\ Len(u.nodes) = Len(a.nodes)
      /\ At(u, y).next = l /\ At(u, y).ins = At(a, y).ins
      /\ At(u, y).region = At(a, y).region /\ At(u, y).serial = At(a, y).serial /\ At(u, y).op = At(a, y).op
      /\ \A i \in NodeSlots(a) : i # y => At(u, i) = At(a, i)
  <2>1. l \in IdRec /\ At(a, y) \in NodeRec /\ Len(a.nodes) \in Nat
    BY <1>1, <1>5, IdFacts DEF NodeRec, ArenaRec
  <2> HIDE DEF l
  <2>2. NextChanged(a, u, y, l)
    BY <1>1, <1>5, <2>1, NextExcept
  <2> HIDE DEF u
  <2> QED BY <2>2 DEF NextChanged
<1> HIDE DEF u, l
<1>8. id # None
  BY <1>1, IdFacts
<1>9. ASSUME NEW r \in DOMAIN a.first PROVE u.first[r] = Skip(a, x, a.first[r])
  <2>1. a.first[r] # id
    BY <1>5, <1>8 DEF ListsOK
  <2> QED BY <1>7, <2>1 DEF Skip
<1>10. ASSUME NEW i \in Live(a), i # x
       PROVE  /\ At(u, i).next = Skip(a, x, At(a, i).next) /\ At(u, i).ins = At(a, i).ins
              /\ At(u, i).region = At(a, i).region /\ At(u, i).serial = At(a, i).serial /\ At(u, i).op = At(a, i).op
  <2>1. CASE i = y
    BY <1>5, <1>7, <2>1 DEF Skip, l
  <2>2. CASE i # y
    <3>1. At(a, i).next # id
      BY <1>5, <1>8, <2>2 DEF ListsOK
    <3>2. At(u, i) = At(a, i)
      BY <1>7, <2>2, IdFacts
    <3> QED BY <3>1, <3>2 DEF Skip
  <2> QED BY <2>1, <2>2
<1> QED BY <1>6, <1>7, <1>9, <1>10 DEF Unlinked

\* Generations do not wrap around within the insertions there are.
LEMMA BumpIs ==
  ASSUME NEW g \in Nat, NEW n \in Nat, n <= MaxInserts, g + 1 < 2 * n
  PROVE  Bump(g) = g + 1
<1>1. GenWrap \in Nat \ {0} /\ g + 1 \in Nat /\ g + 1 < GenWrap
  BY IrStoreAssumption
<1> QED BY <1>1, SmallMod DEF Bump

\* remove_node takes the node out.
LEMMA RemoveIs ==
  ASSUME NEW a, NEW n \in Nat, n <= MaxInserts, SlotsOK(a, n), ListsOK(a), NEW x \in Live(a)
  PROVE  Removed(a, remove_node(a, IdAt(a, x)), x)
<1> DEFINE id == IdAt(a, x)
           u == Unlink(a, id)
           g == [a.gen EXCEPT ![x + 1] = GenAt(a, x) + 1]
           b == remove_node(a, id)
<1>1. Unlinked(a, u, x)
  BY UnlinkHeadIs, UnlinkInnerIs
<1>2. a \in ArenaRec /\ x \in NodeSlots(a) /\ id.idx = x /\ x \in Nat /\ GenAt(a, x) \in Nat
  BY IdFacts DEF SlotsOK
<1>3. a.gen \in Seq(Nat) /\ a.free \in Seq(Nat) /\ x + 1 \in DOMAIN a.gen
      /\ \A i \in NodeSlots(a) : i + 1 \in DOMAIN a.gen /\ (i # x => i + 1 # x + 1)
  <2>1. Len(a.gen) = Len(a.nodes) /\ a.gen \in Seq(Nat) /\ a.free \in Seq(Nat)
    BY <1>2 DEF SlotsOK, ArenaRec
  <2>2. Len(a.nodes) \in Nat /\ DOMAIN a.gen = 1..Len(a.nodes)
    BY <1>2, <2>1
  <2>3. \A i \in NodeSlots(a) : i \in Nat /\ i + 1 \in 1..Len(a.nodes)
    BY <2>2 DEF NodeSlots
  <2>4. \A i \in NodeSlots(a) : i + 1 \in DOMAIN a.gen
    BY <2>2, <2>3
  <2>5. \A i \in NodeSlots(a) : i # x => i + 1 # x + 1
    BY <1>2, <2>3
  <2> QED BY <1>2, <2>1, <2>4, <2>5
<1>4. Bump(a.gen[x + 1]) = GenAt(a, x) + 1
  <2>1. GenAt(a, x) + 1 < 2 * n
    BY <1>2 DEF SlotsOK
  <2> QED BY <1>2, <2>1, BumpIs DEF GenAt
<1>5. /\ u \in ArenaRec /\ u.gen = a.gen /\ u.free = a.free
  BY <1>1 DEF Unlinked
<1>6. b = [u EXCEPT !.gen[x + 1] = Bump(@), !.free = Append(@, x)]
  BY <1>2 DEF remove_node
<1> HIDE DEF u, b
<1>7. b = [nodes |-> u.nodes, gen |-> g, free |-> Append(a.free, x), first |-> u.first]
  BY <1>4, <1>5, <1>6 DEF ArenaRec
<1>8. /\ g \in Seq(Nat) /\ Len(g) = Len(a.gen) /\ g[x + 1] = GenAt(a, x) + 1
      /\ \A k \in DOMAIN a.gen : k # x + 1 => g[k] = a.gen[k]
  <2>1. GenAt(a, x) + 1 \in Nat
    BY <1>2
  <2> QED BY <1>3, <2>1, SeqExcept
<1> HIDE DEF g
<1>9. b.nodes = u.nodes /\ b.gen = g /\ b.free = Append(a.free, x) /\ b.first = u.first
  BY <1>7
<1>10. b \in ArenaRec
  <2>1. Append(a.free, x) \in Seq(Nat) /\ u.nodes \in Seq(NodeRec) /\ u.first \in Seq(IdRec)
    BY <1>2, <1>3, <1>5 DEF ArenaRec
  <2> QED BY <1>7, <1>8, <2>1 DEF ArenaRec
<1>11. GenAt(b, x) = GenAt(a, x) + 1 /\ \A i \in NodeSlots(a) : i # x => GenAt(b, i) = GenAt(a, i)
  BY <1>3, <1>8, <1>9 DEF GenAt
<1>12. \A i : At(b, i) = At(u, i)
  BY <1>9 DEF At
<1>13. Len(b.nodes) = Len(a.nodes) /\ Len(b.gen) = Len(a.gen)
  BY <1>1, <1>8, <1>9 DEF Unlinked
<1>14. Removed(a, b, x)
  BY <1>1, <1>9, <1>10, <1>11, <1>12, <1>13 DEF Removed, Unlinked
<1> QED BY <1>14 DEF b

-----------------------------------------------------------------------------
(* Insertion *)

\* b is a with the node m in slot x, at the head of the list of region r.
Inserted(a, b, x, r, m) ==
  /\ b \in ArenaRec /\ Len(b.gen) = Len(b.nodes) /\ Len(b.nodes) <= NodeCapacity
  /\ NodeSlots(b) = NodeSlots(a) \cup {x} /\ Live(b) = Live(a) \cup {x} /\ x \notin Live(a)
  /\ \A k \in DOMAIN b.free : b.free[k] \in NodeSlots(b)
  /\ \A k, l \in DOMAIN b.free : b.free[k] = b.free[l] => k = l
  /\ GenAt(b, x) = IF x \in NodeSlots(a) THEN GenAt(a, x) + 1 ELSE 0
  /\ At(b, x) = m
  /\ \A i \in NodeSlots(a) : i # x => GenAt(b, i) = GenAt(a, i) /\ At(b, i) = At(a, i)
  /\ DOMAIN b.first = DOMAIN a.first /\ b.first[r] = IdAt(b, x)
  /\ \A k \in DOMAIN a.first : k # r => b.first[k] = a.first[k]

\* A node as insert_node links it.
Node(a, ins, r, n) == [op |-> "old", ins |-> ins, region |-> r, next |-> a.first[r], serial |-> n]

\* All of an arena after an insertion.
LEMMA InsertedOK ==
  ASSUME NEW a, NEW b, NEW n \in Nat, NEW H, ArenaOK(a, n, H), NEW x, NEW r \in DOMAIN a.first, NEW ins \in Seq(OperandRec),
         Inserted(a, b, x, r, Node(a, ins, r, n)), \A k \in DOMAIN ins : Meant(a, ins[k])
  PROVE  ArenaOK(b, n + 1, H)
<1> DEFINE m == Node(a, ins, r, n)
<1>1. SlotsOK(a, n) /\ ListsOK(a)
  BY DEF ArenaOK
<1>2. m.ins = ins /\ m.region = r /\ m.next = a.first[r] /\ m.serial = n
  BY DEF Node
<1> HIDE DEF m
<1>3. /\ b \in ArenaRec /\ Len(b.gen) = Len(b.nodes) /\ Len(b.nodes) <= NodeCapacity
      /\ NodeSlots(b) = NodeSlots(a) \cup {x} /\ Live(b) = Live(a) \cup {x} /\ x \notin Live(a)
      /\ \A k \in DOMAIN b.free : b.free[k] \in NodeSlots(b)
      /\ \A k, l \in DOMAIN b.free : b.free[k] = b.free[l] => k = l
      /\ At(b, x) = m
      /\ \A i \in NodeSlots(a) : i # x => GenAt(b, i) = GenAt(a, i) /\ At(b, i) = At(a, i)
      /\ DOMAIN b.first = DOMAIN a.first /\ b.first[r] = IdAt(b, x)
      /\ \A k \in DOMAIN a.first : k # r => b.first[k] = a.first[k]
  BY DEF Inserted, m
<1>4. /\ x \in NodeSlots(a) => GenAt(a, x) \in Nat /\ GenAt(b, x) = GenAt(a, x) + 1
      /\ x \notin NodeSlots(a) => GenAt(b, x) = 0
      /\ GenAt(b, x) \in Nat /\ GenAt(b, x) <= 2 * (n + 1) - 2
  <2>1. GenAt(b, x) = IF x \in NodeSlots(a) THEN GenAt(a, x) + 1 ELSE 0
    BY DEF Inserted
  <2>2. x \in NodeSlots(a) => GenAt(a, x) \in Nat /\ GenAt(a, x) <= 2 * n - 1
    BY <1>1, IdFacts DEF SlotsOK
  <2> QED BY <2>1, <2>2
<1>5. /\ Live(a) \subseteq NodeSlots(a) /\ \A i \in NodeSlots(a) : GenAt(a, i) \in Nat /\ At(a, i) \in NodeRec
      /\ \A i \in Live(a) : At(a, i).serial \in Nat /\ At(a, i).serial < n /\ At(a, i).region \in DOMAIN a.first
  BY <1>1, IdFacts DEF SlotsOK, NodeRec
<1>6. \A i \in Live(a) : i # x /\ At(b, i) = At(a, i) /\ GenAt(b, i) = GenAt(a, i)
  BY <1>3, <1>5
<1>7. SlotsOK(b, n + 1)
  <2>1. \A i \in NodeSlots(b) : GenAt(b, i) <= 2 * (n + 1) - 1
    <3>1. \A i \in NodeSlots(a) : GenAt(a, i) <= 2 * n - 1
      BY <1>1 DEF SlotsOK
    <3>2. \A i \in NodeSlots(a) : i # x => GenAt(b, i) <= 2 * (n + 1) - 1
      BY <1>3, <1>5, <3>1
    <3>3. GenAt(b, x) <= 2 * (n + 1) - 1
      BY <1>4
    <3> QED BY <1>3, <3>2, <3>3
  <2>2. \A i \in Live(b) : GenAt(b, i) <= 2 * (n + 1) - 2
    <3>1. \A i \in Live(a) : GenAt(a, i) <= 2 * n - 2
      BY <1>1 DEF SlotsOK
    <3>2. \A i \in Live(a) : GenAt(b, i) <= 2 * (n + 1) - 2
      BY <1>5, <1>6, <3>1
    <3> QED BY <1>3, <1>4, <3>2
  <2>3. \A i \in Live(b) : At(b, i).serial < n + 1 /\ At(b, i).region \in DOMAIN b.first
    BY <1>2, <1>3, <1>5, <1>6
  <2>4. \A i, j \in Live(b) : At(b, i).serial = At(b, j).serial => i = j
    <3>1. \A i, j \in Live(a) : At(a, i).serial = At(a, j).serial => i = j
      BY <1>1 DEF SlotsOK
    <3>2. \A i \in Live(a) : At(b, i).serial # At(b, x).serial
      BY <1>2, <1>3, <1>5, <1>6
    <3> QED BY <1>3, <1>6, <3>1, <3>2
  <2> QED BY <1>3, <2>1, <2>2, <2>3, <2>4 DEF SlotsOK
<1>8. \A o : Meant(a, o) => Meant(b, o)
  <2> SUFFICES ASSUME NEW o, Meant(a, o) PROVE Meant(b, o)
    OBVIOUS
  <2>1. /\ o \in OperandRec /\ o.id.idx \in NodeSlots(a) /\ o.id.gen <= GenAt(a, o.id.idx)
        /\ o.id.gen = GenAt(a, o.id.idx) => o.id.idx \in Live(a) /\ At(a, o.id.idx).serial = o.serial
        /\ o.id.gen \in Nat
    BY DEF Meant, OperandRec, IdRec
  <2>2. CASE o.id.idx = x
    <3>1. GenAt(a, x) \in Nat /\ GenAt(b, x) = GenAt(a, x) + 1
      BY <1>4, <2>1, <2>2
    <3> QED BY <1>3, <2>1, <2>2, <3>1 DEF Meant
  <2>3. CASE o.id.idx # x
    <3>1. GenAt(b, o.id.idx) = GenAt(a, o.id.idx) /\ At(b, o.id.idx) = At(a, o.id.idx)
      BY <1>3, <2>1, <2>3
    <3> QED BY <1>3, <2>1, <3>1 DEF Meant
  <2> QED BY <2>2, <2>3
<1>9. \A i \in Live(b) : \A k \in DOMAIN At(b, i).ins : Meant(b, At(b, i).ins[k])
  <2>1. \A i \in Live(a) : \A k \in DOMAIN At(b, i).ins : Meant(b, At(b, i).ins[k])
    BY <1>6, <1>8 DEF ArenaOK
  <2>2. \A k \in DOMAIN At(b, x).ins : Meant(b, At(b, x).ins[k])
    BY <1>2, <1>3, <1>8
  <2> QED BY <1>3, <2>1, <2>2
<1>10. /\ \A i \in Live(a) : IdAt(b, i) = IdAt(a, i)
       /\ \A i, j \in Live(b) : IdAt(b, i) = IdAt(b, j) => i = j
       /\ \A i \in Live(b) : IdAt(b, i) # None
  <2>1. \A i \in Live(a) : IdAt(b, i) = IdAt(a, i)
    BY <1>6 DEF IdAt, GenAt
  <2> QED BY <1>7, <2>1, IdFacts
<1>11. ListsOK(b)
  <2> DEFINE new == IdAt(b, x)
             old == a.first[r]
  <2>1. \A l, k : LinkOK(a, l, k) => LinkOK(b, l, k) /\ l # new
    <3> SUFFICES ASSUME NEW l, NEW k, LinkOK(a, l, k) PROVE LinkOK(b, l, k) /\ l # new
      OBVIOUS
    <3>1. CASE l = None
      BY <1>3, <1>10, <3>1 DEF LinkOK
    <3>2. ASSUME NEW j \in Live(a), l = IdAt(a, j), At(a, j).region = k PROVE LinkOK(b, l, k) /\ l # new
      <4>1. l = IdAt(b, j) /\ j \in Live(b) /\ j # x /\ At(b, j).region = k
        BY <1>3, <1>6, <1>10, <3>2
      <4> QED BY <1>3, <1>10, <4>1 DEF LinkOK
    <3> QED BY <3>1, <3>2 DEF LinkOK
  <2>2. LinkOK(a, old, r) /\ old # new
    BY <1>1, <2>1 DEF ListsOK
  <2>3. \A k \in DOMAIN a.first : LinkOK(a, a.first[k], k) /\ a.first[k] # new
    BY <1>1, <2>1 DEF ListsOK
  <2>4. \A i \in Live(a) : LinkOK(a, At(a, i).next, At(a, i).region) /\ At(a, i).next # new
    BY <1>1, <2>1 DEF ListsOK
  <2>5. At(b, x).next = old /\ At(b, x).region = r /\ At(b, x).serial = n /\ b.first[r] = new
    BY <1>2, <1>3
  <2> HIDE DEF new, old
  <2>6. \A k \in DOMAIN b.first : LinkOK(b, b.first[k], k)
    <3>1. LinkOK(b, new, r)
      BY <1>3, <2>5 DEF LinkOK, new
    <3> QED BY <1>3, <2>1, <2>3, <2>5, <3>1
  <2>7. \A i \in Live(b) : LinkOK(b, At(b, i).next, At(b, i).region)
    BY <1>3, <1>6, <2>1, <2>2, <2>4, <2>5
  <2>8. ASSUME NEW i \in Live(b), NEW j \in Live(b), At(b, i).next = IdAt(b, j) PROVE At(b, j).serial < At(b, i).serial
    <3>1. At(b, i).next # new
      BY <1>3, <1>6, <2>2, <2>4, <2>5
    <3>2. j \in Live(a)
      BY <1>3, <2>8, <3>1 DEF new
    <3>3. CASE i = x
      BY <1>3, <1>5, <1>6, <2>5, <3>2, <3>3
    <3>4. CASE i \in Live(a)
      <4>1. At(a, i).next = IdAt(a, j)
        BY <1>6, <1>10, <2>8, <3>2, <3>4
      <4> QED BY <1>1, <1>6, <3>2, <3>4, <4>1 DEF ListsOK
    <3> QED BY <1>3, <3>3, <3>4
  <2>9. ASSUME NEW i \in Live(b)
        PROVE  b.first[At(b, i).region] = IdAt(b, i) \/ \E j \in Live(b) : At(b, j).next = IdAt(b, i)
    <3>1. CASE i = x
      BY <2>5, <3>1 DEF new
    <3>2. CASE i \in Live(a)
      <4>1. At(b, i).region = At(a, i).region /\ IdAt(b, i) = IdAt(a, i) /\ At(a, i).region \in DOMAIN a.first
        BY <1>5, <1>6, <1>10, <3>2
      <4>2. CASE a.first[At(a, i).region] = IdAt(a, i) /\ At(a, i).region # r
        BY <1>3, <4>1, <4>2
      <4>3. CASE a.first[At(a, i).region] = IdAt(a, i) /\ At(a, i).region = r
        <5>1. At(b, x).next = IdAt(b, i) /\ x \in Live(b)
          BY <1>3, <2>5, <4>1, <4>3 DEF old
        <5> QED BY <5>1
      <4>4. ASSUME NEW j \in Live(a), At(a, j).next = IdAt(a, i) PROVE \E l \in Live(b) : At(b, l).next = IdAt(b, i)
        BY <1>3, <1>6, <4>1, <4>4
      <4> QED BY <1>1, <3>2, <4>2, <4>3, <4>4 DEF ListsOK
    <3> QED BY <1>3, <3>1, <3>2
  <2>10. \A i \in Live(a) : At(a, i).next = old => old = None
    BY <1>1 DEF ListsOK, old
  <2>11. ASSUME NEW i \in Live(b), NEW j \in Live(b), At(b, i).next = At(b, j).next, At(b, i).next # None PROVE i = j
    <3>1. CASE i \in Live(a) /\ j \in Live(a)
      BY <1>1, <1>6, <2>11, <3>1 DEF ListsOK
    <3>2. CASE i = x /\ j \in Live(a)
      BY <1>6, <2>5, <2>10, <2>11, <3>2
    <3>3. CASE i \in Live(a) /\ j = x
      BY <1>6, <2>5, <2>10, <2>11, <3>3
    <3> QED BY <1>3, <3>1, <3>2, <3>3
  <2>12. ASSUME NEW i \in Live(b), NEW k \in DOMAIN b.first, At(b, i).next = b.first[k] PROVE b.first[k] = None
    <3>1. At(b, i).next # new
      BY <1>3, <1>6, <2>2, <2>4, <2>5
    <3>2. k # r /\ b.first[k] = a.first[k] /\ k \in DOMAIN a.first
      BY <1>3, <2>5, <2>12, <3>1
    <3>3. CASE i \in Live(a)
      BY <1>1, <1>6, <2>12, <3>2, <3>3 DEF ListsOK
    <3>4. CASE i = x
      <4>1. LinkOK(a, old, r) /\ LinkOK(a, old, k) /\ a.first[k] = old
        BY <2>2, <2>3, <2>5, <2>12, <3>2, <3>4
      <4>2. \A i1, j1 \in Live(a) : IdAt(a, i1) = IdAt(a, j1) => i1 = j1
        BY <1>1, IdFacts
      <4>3. old = None
        BY <3>2, <4>1, <4>2 DEF LinkOK
      <4> QED BY <3>2, <4>1, <4>3
    <3> QED BY <1>3, <3>3, <3>4
  <2> QED BY <2>6, <2>7, <2>8, <2>9, <2>11, <2>12 DEF ListsOK
<1>12. \A h \in H : Meant(b, h)
  BY <1>8 DEF ArenaOK
<1> QED BY <1>7, <1>9, <1>11, <1>12 DEF ArenaOK

\* The end of a sequence.
LEMMA FrontLast ==
  ASSUME NEW S, NEW q \in Seq(S), q # <<>>
  PROVE  /\ Len(q) \in Nat \ {0} /\ Last(q) = q[Len(q)] /\ Last(q) \in S
         /\ Front(q) \in Seq(S) /\ DOMAIN Front(q) = 1..(Len(q) - 1)
         /\ \A k \in 1..(Len(q) - 1) : Front(q)[k] = q[k]
<1>1. Len(q) \in Nat \ {0}
  OBVIOUS
<1>2. Last(q) = q[Len(q)] /\ Last(q) \in S
  BY <1>1 DEF Last
<1> DEFINE l == Len(q) - 1
           p == SubSeq(q, 1, l)
<1>3. Front(q) = p /\ l \in 0..Len(q)
  BY <1>1 DEF Front
<1> HIDE DEF l
<1>4. p \in Seq(S) /\ Len(p) = l
  BY <1>1, <1>3
<1>5. \A k \in 1..l : p[k] = q[k]
  BY <1>1, <1>3
<1> HIDE DEF p
<1>6. DOMAIN p = 1..l
  BY <1>4
<1> QED BY <1>1, <1>2, <1>3, <1>4, <1>5, <1>6 DEF l

\* insert_node of the node that InsertNode makes.
NewNode(ins, r, n) == [op |-> "old", ins |-> ins, region |-> r, next |-> None, serial |-> n]

\* The linked node.
LEMMA NodeIs ==
  ASSUME NEW a \in ArenaRec, NEW n \in Nat, NEW r \in DOMAIN a.first, NEW ins \in Seq(OperandRec)
  PROVE  /\ [NewNode(ins, r, n) EXCEPT !.region = r, !.next = a.first[r]] = Node(a, ins, r, n)
         /\ Node(a, ins, r, n) \in NodeRec
<1>1. a.first \in Seq(IdRec) /\ a.first[r] \in IdRec /\ r \in Nat
  BY DEF ArenaRec
<1>2. Node(a, ins, r, n) \in NodeRec
  BY <1>1 DEF Node, NodeRec
<1>3. [NewNode(ins, r, n) EXCEPT !.region = r] = NewNode(ins, r, n)
  BY DEF NewNode
<1>4. [NewNode(ins, r, n) EXCEPT !.next = a.first[r]] = Node(a, ins, r, n)
  BY DEF NewNode, Node
<1> QED BY <1>2, <1>3, <1>4

\* Writing one node and one head of an arena.
Written(A, k, m, r, l) == [A EXCEPT !.nodes[k] = m, !.first[r] = l]
Grown(A, e, g) == [A EXCEPT !.nodes = e, !.gen = g]

Put(q, k, v) == [q EXCEPT ![k] = v]

\* They are what they should be for an arena that is written out.
LEMMA ArenaExcept ==
  ASSUME NEW N, NEW G, NEW F, NEW S, NEW k, NEW m, NEW r, NEW l
  PROVE  Written([nodes |-> N, gen |-> G, free |-> F, first |-> S], k, m, r, l)
           = [nodes |-> Put(N, k, m), gen |-> G, free |-> F, first |-> Put(S, r, l)]
<1> DEFINE A == [nodes |-> N, gen |-> G, free |-> F, first |-> S]
           B == [nodes |-> Put(N, k, m), gen |-> G, free |-> F, first |-> S]
<1>1. [A EXCEPT !.nodes[k] = m] = B
  BY DEF Put
<1>2. [B EXCEPT !.first[r] = l] = [nodes |-> Put(N, k, m), gen |-> G, free |-> F, first |-> Put(S, r, l)]
  BY DEF Put
<1> QED BY <1>1, <1>2 DEF Written

\* Likewise where a slot is added.
LEMMA ArenaGrown ==
  ASSUME NEW N, NEW G, NEW F, NEW S, NEW e, NEW g
  PROVE  Grown([nodes |-> N, gen |-> G, free |-> F, first |-> S], e, g) = [nodes |-> e, gen |-> g, free |-> F, first |-> S]
<1> DEFINE A == [nodes |-> N, gen |-> G, free |-> F, first |-> S]
           B == [nodes |-> e, gen |-> G, free |-> F, first |-> S]
<1>1. [A EXCEPT !.nodes = e] = B
  OBVIOUS
<1>2. [B EXCEPT !.gen = g] = [nodes |-> e, gen |-> g, free |-> F, first |-> S]
  OBVIOUS
<1> QED BY <1>1, <1>2 DEF Grown

\* A free slot is reused.
LEMMA InsertFreeIs ==
  ASSUME NEW a, NEW n \in Nat, n < MaxInserts, SlotsOK(a, n), NEW r \in DOMAIN a.first, NEW ins \in Seq(OperandRec),
         a.free # <<>>
  PROVE  Inserted(a, insert_node(a, r, NewNode(ins, r, n)), Last(a.free), r, Node(a, ins, r, n))
<1> DEFINE x == Last(a.free)
           m == Node(a, ins, r, n)
           g == [a.gen EXCEPT ![x + 1] = GenAt(a, x) + 1]
           q == [a.nodes EXCEPT ![x + 1] = m]
           id == Pack(x, GenAt(a, x) + 1)
           f == [a.first EXCEPT ![r] = id]
           t == TakeFree(a)
           b == insert_node(a, r, NewNode(ins, r, n))
<1>1. /\ a \in ArenaRec /\ a.free \in Seq(Nat) /\ a.gen \in Seq(Nat) /\ a.nodes \in Seq(NodeRec)
      /\ a.first \in Seq(IdRec) /\ Len(a.gen) = Len(a.nodes) /\ Len(a.nodes) <= NodeCapacity
  BY DEF SlotsOK, ArenaRec
<1>2. /\ Len(a.free) \in Nat \ {0} /\ x = a.free[Len(a.free)] /\ x \in Nat
      /\ Front(a.free) \in Seq(Nat) /\ DOMAIN Front(a.free) = 1..(Len(a.free) - 1)
      /\ \A k \in 1..(Len(a.free) - 1) : Front(a.free)[k] = a.free[k]
  BY <1>1, FrontLast
<1>3. x \in NodeSlots(a) /\ DOMAIN a.free = 1..Len(a.free) /\ Len(a.free) \in DOMAIN a.free
  BY <1>1, <1>2 DEF SlotsOK
<1>4. x \in Free(a) /\ x \notin Live(a)
  BY <1>2, <1>3 DEF Free, Live
<1>5. GenAt(a, x) \in Nat /\ GenAt(a, x) <= 2 * n - 1
  BY <1>3, IdFacts DEF SlotsOK
<1>6. Bump(a.gen[x + 1]) = GenAt(a, x) + 1
  <2>1. n + 1 <= MaxInserts /\ GenAt(a, x) + 1 < 2 * (n + 1) /\ n + 1 \in Nat
    BY <1>5, IrStoreAssumption
  <2> QED BY <1>5, <2>1, BumpIs DEF GenAt
<1> HIDE DEF x
<1>7. /\ x + 1 \in DOMAIN a.gen /\ x + 1 \in DOMAIN a.nodes
      /\ \A i \in NodeSlots(a) : i + 1 \in DOMAIN a.gen /\ i + 1 \in DOMAIN a.nodes /\ (i # x => i + 1 # x + 1)
  <2>1. Len(a.nodes) \in Nat /\ DOMAIN a.gen = 1..Len(a.nodes) /\ DOMAIN a.nodes = 1..Len(a.nodes)
    BY <1>1
  <2>2. \A i \in NodeSlots(a) : i \in Nat /\ i + 1 \in 1..Len(a.nodes)
    BY <2>1 DEF NodeSlots
  <2>3. \A i \in NodeSlots(a) : i + 1 \in DOMAIN a.gen /\ i + 1 \in DOMAIN a.nodes
    BY <2>1, <2>2
  <2>4. \A i \in NodeSlots(a) : i # x => i + 1 # x + 1
    BY <1>2, <2>2
  <2> QED BY <1>3, <2>3, <2>4
<1>8. t.idx = x /\ t.arena = [a EXCEPT !.free = Front(@), !.gen[x + 1] = Bump(@)]
  BY DEF TakeFree, x
<1> HIDE DEF t
<1>9. t.arena = [nodes |-> a.nodes, gen |-> g, free |-> Front(a.free), first |-> a.first]
  BY <1>1, <1>6, <1>8 DEF ArenaRec
<1>10. /\ g \in Seq(Nat) /\ Len(g) = Len(a.gen) /\ g[x + 1] = GenAt(a, x) + 1
       /\ \A k \in DOMAIN a.gen : k # x + 1 => g[k] = a.gen[k]
  <2>1. GenAt(a, x) + 1 \in Nat
    BY <1>5
  <2> QED BY <1>1, <1>7, <2>1, SeqExcept
<1>11. m \in NodeRec /\ [NewNode(ins, r, n) EXCEPT !.region = r, !.next = a.first[r]] = m
  BY <1>1, NodeIs
<1> HIDE DEF g, m
<1>12. id \in IdRec
  BY <1>2, <1>5 DEF Pack, IdRec
<1>13. /\ q \in Seq(NodeRec) /\ Len(q) = Len(a.nodes) /\ q[x + 1] = m
       /\ \A k \in DOMAIN a.nodes : k # x + 1 => q[k] = a.nodes[k]
  BY <1>1, <1>7, <1>11, SeqExcept
<1>14. Pack(t.idx, t.arena.gen[t.idx + 1]) = id
  <2>1. t.arena.gen = g
    BY <1>9
  <2> QED BY <1>8, <1>10, <2>1
<1>15. b = [t.arena EXCEPT !.nodes[x + 1] = m, !.first[r] = id]
  <2>1. TakeSlot(a) = t
    BY DEF TakeSlot, t
  <2>2. b = [t.arena EXCEPT !.nodes[t.idx + 1] = [NewNode(ins, r, n) EXCEPT !.region = r, !.next = a.first[r]],
                            !.first[r] = Pack(t.idx, t.arena.gen[t.idx + 1])]
    BY <2>1 DEF insert_node
  <2> HIDE DEF b, id
  <2> QED BY <1>8, <1>11, <1>14, <2>2
<1> HIDE DEF id, b
<1>16. b = [nodes |-> q, gen |-> g, free |-> Front(a.free), first |-> f]
  <2>1. b = Written(t.arena, x + 1, m, r, id)
    BY <1>15 DEF Written
  <2>2. q = Put(a.nodes, x + 1, m) /\ f = Put(a.first, r, id)
    BY DEF Put
  <2> HIDE DEF q, f
  <2> QED BY <1>9, <2>1, <2>2, ArenaExcept
<1>17. f \in Seq(IdRec) /\ DOMAIN f = DOMAIN a.first /\ f[r] = id /\ \A k \in DOMAIN a.first : k # r => f[k] = a.first[k]
  BY <1>1, <1>12, SeqExcept
<1> HIDE DEF q, f
<1>18. b.nodes = q /\ b.gen = g /\ b.free = Front(a.free) /\ b.first = f
  BY <1>16
<1>19. b \in ArenaRec
  BY <1>2, <1>10, <1>13, <1>16, <1>17 DEF ArenaRec
<1>20. NodeSlots(b) = NodeSlots(a) /\ Len(b.gen) = Len(b.nodes) /\ Len(b.nodes) <= NodeCapacity
  BY <1>1, <1>10, <1>13, <1>18 DEF NodeSlots
<1>21. \A k \in DOMAIN b.free : k \in DOMAIN a.free /\ b.free[k] = a.free[k] /\ k # Len(a.free)
  <2>1. \A k \in 1..(Len(a.free) - 1) : k \in 1..Len(a.free) /\ k # Len(a.free)
    BY <1>2
  <2> QED BY <1>2, <1>3, <1>18, <2>1
<1>22. \A k \in DOMAIN a.free : k # Len(a.free) => k \in DOMAIN b.free
  <2>1. \A k \in 1..Len(a.free) : k # Len(a.free) => k \in 1..(Len(a.free) - 1)
    BY <1>2
  <2> QED BY <1>2, <1>3, <1>18, <2>1
<1>23. /\ \A k \in DOMAIN b.free : b.free[k] \in NodeSlots(b)
       /\ \A k, l \in DOMAIN b.free : b.free[k] = b.free[l] => k = l
  BY <1>20, <1>21 DEF SlotsOK
<1>24. Free(b) = Free(a) \ {x}
  <2>1. \A k \in DOMAIN b.free : b.free[k] \in Free(a) /\ b.free[k] # x
    BY <1>2, <1>3, <1>21 DEF SlotsOK, Free
  <2>2. \A v \in Free(a) : v # x => v \in Free(b)
    BY <1>2, <1>21, <1>22 DEF Free
  <2> QED BY <2>1, <2>2 DEF Free
<1>25. Live(b) = Live(a) \cup {x}
  <2>1. Live(b) = {i \in NodeSlots(b) : i \notin Free(b)} /\ Live(a) = {i \in NodeSlots(a) : i \notin Free(a)}
    BY DEF Live, NodeSlots
  <2> QED BY <1>3, <1>20, <1>24, <2>1
<1>26. GenAt(b, x) = GenAt(a, x) + 1 /\ At(b, x) = m
  BY <1>10, <1>13, <1>18 DEF GenAt, At
<1>27. \A i \in NodeSlots(a) : i # x => GenAt(b, i) = GenAt(a, i) /\ At(b, i) = At(a, i)
  BY <1>7, <1>10, <1>13, <1>18 DEF GenAt, At
<1>28. b.first[r] = IdAt(b, x)
  BY <1>17, <1>18, <1>26 DEF id, IdAt, GenAt
<1>29. Inserted(a, b, x, r, m)
  BY <1>3, <1>4, <1>17, <1>18, <1>19, <1>20, <1>23, <1>25, <1>26, <1>27, <1>28 DEF Inserted
<1> QED BY <1>29 DEF b, x, m

\* A slot is added.
LEMMA InsertFreshIs ==
  ASSUME NEW a, NEW n \in Nat, CanInsert(a), SlotsOK(a, n), NEW r \in DOMAIN a.first, NEW ins \in Seq(OperandRec),
         a.free = <<>>
  PROVE  Inserted(a, insert_node(a, r, NewNode(ins, r, n)), Len(a.nodes), r, Node(a, ins, r, n))
<1> DEFINE x == Len(a.nodes)
           m == Node(a, ins, r, n)
           g == Append(a.gen, 0)
           e == Append(a.nodes, <<>>)
           q == Append(a.nodes, m)
           id == Pack(x, 0)
           f == [a.first EXCEPT ![r] = id]
           b == insert_node(a, r, NewNode(ins, r, n))
<1>1. /\ a \in ArenaRec /\ a.free \in Seq(Nat) /\ a.gen \in Seq(Nat) /\ a.nodes \in Seq(NodeRec)
      /\ a.first \in Seq(IdRec) /\ Len(a.gen) = Len(a.nodes) /\ Len(a.nodes) < NodeCapacity /\ x \in Nat
      /\ NodeCapacity \in Nat
  BY IrStoreAssumption DEF SlotsOK, ArenaRec, CanInsert
<1>2. /\ g \in Seq(Nat) /\ Len(g) = x + 1 /\ g[x + 1] = 0 /\ \A k \in 1..x : g[k] = a.gen[k]
  BY <1>1
<1>3. m \in NodeRec /\ [NewNode(ins, r, n) EXCEPT !.region = r, !.next = a.first[r]] = m
  BY <1>1, NodeIs
<1> HIDE DEF m
<1>4. /\ q \in Seq(NodeRec) /\ Len(q) = x + 1 /\ q[x + 1] = m /\ \A k \in 1..x : q[k] = a.nodes[k]
  BY <1>1, <1>3
<1>5. [e EXCEPT ![x + 1] = m] = q
  <2>1. a.nodes \in Seq(NodeRec \cup {<<>>})
    BY <1>1
  <2>2. e \in Seq(NodeRec \cup {<<>>}) /\ Len(e) = x + 1 /\ \A k \in 1..x : e[k] = a.nodes[k]
    BY <2>1
  <2> HIDE DEF e, q, x
  <2>3. x + 1 \in DOMAIN e /\ DOMAIN e = 1..(x + 1)
    BY <1>1, <2>2
  <2>4. m \in NodeRec \cup {<<>>}
    BY <1>3
  <2>5. /\ [e EXCEPT ![x + 1] = m] \in Seq(NodeRec \cup {<<>>}) /\ Len([e EXCEPT ![x + 1] = m]) = x + 1
        /\ [e EXCEPT ![x + 1] = m][x + 1] = m
        /\ \A k \in 1..x : [e EXCEPT ![x + 1] = m][k] = a.nodes[k]
    BY <1>1, <2>2, <2>3, <2>4, SeqExcept
  <2>6. q \in Seq(NodeRec \cup {<<>>})
    BY <1>4
  <2>7. \A k \in 1..(x + 1) : k \in 1..x \/ k = x + 1
    BY <1>1
  <2>8. \A k \in 1..(x + 1) : [e EXCEPT ![x + 1] = m][k] = q[k]
    BY <1>4, <2>5, <2>7
  <2> QED BY <1>4, <2>5, <2>6, <2>8, SeqEqual
<1>6. TakeSlot(a) = [idx |-> x, arena |-> [a EXCEPT !.nodes = e, !.gen = g]]
  BY DEF TakeSlot
<1> DEFINE t == TakeSlot(a)
<1> HIDE DEF t, e, g
<1>7. t.idx = x /\ t.arena = [nodes |-> e, gen |-> g, free |-> a.free, first |-> a.first]
  <2> DEFINE A == [nodes |-> a.nodes, gen |-> a.gen, free |-> a.free, first |-> a.first]
  <2>1. a = A
    BY <1>1 DEF ArenaRec
  <2>2. Grown(a, e, g) = [nodes |-> e, gen |-> g, free |-> a.free, first |-> a.first]
    <3>1. Grown(A, e, g) = [nodes |-> e, gen |-> g, free |-> a.free, first |-> a.first]
      BY ArenaGrown
    <3> HIDE DEF A
    <3> QED BY <2>1, <3>1
  <2>3. t.idx = x /\ t.arena = Grown(a, e, g)
    BY <1>6 DEF t, Grown
  <2> QED BY <2>2, <2>3
<1>8. Pack(t.idx, t.arena.gen[t.idx + 1]) = id
  <2>1. t.arena.gen = g
    BY <1>7
  <2> QED BY <1>2, <1>7, <2>1
<1>9. b = [t.arena EXCEPT !.nodes[x + 1] = m, !.first[r] = id]
  <2>1. b = [t.arena EXCEPT !.nodes[t.idx + 1] = [NewNode(ins, r, n) EXCEPT !.region = r, !.next = a.first[r]],
                            !.first[r] = Pack(t.idx, t.arena.gen[t.idx + 1])]
    BY DEF insert_node, t
  <2> HIDE DEF b, id
  <2> QED BY <1>3, <1>7, <1>8, <2>1
<1> HIDE DEF id, b
<1>10. b = [nodes |-> q, gen |-> g, free |-> a.free, first |-> f]
  <2>1. b = Written(t.arena, x + 1, m, r, id)
    BY <1>9 DEF Written
  <2> DEFINE A == [nodes |-> e, gen |-> g, free |-> a.free, first |-> a.first]
             z == [e EXCEPT ![x + 1] = m]
  <2>2. Written(A, x + 1, m, r, id) = [nodes |-> z, gen |-> g, free |-> a.free, first |-> f]
    <3>1. z = Put(e, x + 1, m) /\ f = Put(a.first, r, id)
      BY DEF Put
    <3> HIDE DEF z, f
    <3> QED BY <3>1, ArenaExcept
  <2>3. z = q
    BY <1>5
  <2> HIDE DEF q, z, f, A
  <2>4. b = Written(A, x + 1, m, r, id)
    BY <1>7, <2>1 DEF A
  <2> QED BY <2>2, <2>3, <2>4
<1>11. id \in IdRec
  BY <1>1 DEF Pack, IdRec, id
<1>12. f \in Seq(IdRec) /\ DOMAIN f = DOMAIN a.first /\ f[r] = id /\ \A k \in DOMAIN a.first : k # r => f[k] = a.first[k]
  BY <1>1, <1>11, SeqExcept
<1> HIDE DEF q, f
<1>13. b.nodes = q /\ b.gen = g /\ b.free = a.free /\ b.first = f
  BY <1>10
<1>14. b \in ArenaRec
  BY <1>1, <1>2, <1>4, <1>10, <1>12 DEF ArenaRec
<1>15. /\ NodeSlots(b) = NodeSlots(a) \cup {x} /\ Len(b.gen) = Len(b.nodes) /\ Len(b.nodes) <= NodeCapacity
       /\ x \notin NodeSlots(a) /\ x \in NodeSlots(b) /\ \A i \in NodeSlots(a) : i + 1 \in 1..x /\ i # x
  <2>1. NodeSlots(a) = 0..(x - 1) /\ NodeSlots(b) = 0..x /\ x \in Nat
    BY <1>1, <1>4, <1>13 DEF NodeSlots
  <2>2. Len(b.gen) = Len(b.nodes) /\ Len(b.nodes) <= NodeCapacity
    BY <1>1, <1>2, <1>4, <1>13
  <2> HIDE DEF x
  <2>3. 0..x = 0..(x - 1) \cup {x}
    BY <2>1
  <2> QED BY <2>1, <2>2, <2>3
<1>16. Free(b) = {} /\ Free(a) = {} /\ DOMAIN b.free = {}
  BY <1>13 DEF Free
<1>17. Live(b) = Live(a) \cup {x} /\ x \notin Live(a)
  <2>1. Live(b) = {i \in NodeSlots(b) : i \notin Free(b)} /\ Live(a) = {i \in NodeSlots(a) : i \notin Free(a)}
    BY DEF Live, NodeSlots
  <2> QED BY <1>15, <1>16, <2>1
<1>18. GenAt(b, x) = 0 /\ At(b, x) = m
  BY <1>2, <1>4, <1>13 DEF GenAt, At
<1>19. \A i \in NodeSlots(a) : GenAt(b, i) = GenAt(a, i) /\ At(b, i) = At(a, i)
  BY <1>2, <1>4, <1>13, <1>15 DEF GenAt, At
<1>20. b.first[r] = IdAt(b, x)
  BY <1>12, <1>13, <1>18 DEF id, IdAt, GenAt
<1> HIDE DEF x
<1>21. Inserted(a, b, x, r, m)
  BY <1>12, <1>13, <1>14, <1>15, <1>16, <1>17, <1>18, <1>19, <1>20 DEF Inserted
<1> QED BY <1>21 DEF b, x, m

-----------------------------------------------------------------------------
(* Edits that keep slots and lists *)

\* b is a with other operands or operations.
SameSlots(a, b) ==
  /\ b \in ArenaRec /\ b.gen = a.gen /\ b.free = a.free /\ b.first = a.first /\ Len(b.nodes) = Len(a.nodes)
  /\ \A i \in Live(a) : /\ At(b, i).region = At(a, i).region /\ At(b, i).next = At(a, i).next
                        /\ At(b, i).serial = At(a, i).serial

\* Then only the operands are left to look at.
LEMMA SameSlotsOK ==
  ASSUME NEW a, NEW b, NEW n \in Nat, NEW H, ArenaOK(a, n, H), SameSlots(a, b),
         \A i \in Live(a) : \A k \in DOMAIN At(b, i).ins : Meant(a, At(b, i).ins[k])
  PROVE  ArenaOK(b, n, H)
<1>1. /\ NodeSlots(b) = NodeSlots(a) /\ Free(b) = Free(a) /\ Live(b) = Live(a)
      /\ \A i : GenAt(b, i) = GenAt(a, i) /\ IdAt(b, i) = IdAt(a, i)
  BY DEF SameSlots, NodeSlots, Free, Live, GenAt, IdAt
<1>2. \A i \in Live(b) : /\ At(b, i).region = At(a, i).region /\ At(b, i).next = At(a, i).next
                         /\ At(b, i).serial = At(a, i).serial
  BY <1>1 DEF SameSlots
<1>3. SlotsOK(b, n)
  BY <1>1, <1>2 DEF ArenaOK, SlotsOK, SameSlots
<1>4. \A l, r : LinkOK(a, l, r) => LinkOK(b, l, r)
  BY <1>1, <1>2 DEF LinkOK
<1>5. b.first = a.first
  BY DEF SameSlots
<1>6. ListsOK(b)
  BY <1>1, <1>2, <1>4, <1>5 DEF ArenaOK, ListsOK
<1>7. \A o : Meant(a, o) => Meant(b, o)
  BY <1>1, <1>2 DEF Meant
<1> QED BY <1>1, <1>3, <1>6, <1>7 DEF ArenaOK

\* b is a with a new opcode in slot y.
OpSet(a, b, y) ==
  /\ SameSlots(a, b)
  /\ At(b, y).op = "new" /\ \A i \in Live(a) : i # y => At(b, i).op = At(a, i).op

\* SetOp.
LEMMA SetOpOK ==
  ASSUME NEW a, NEW n \in Nat, NEW H, ArenaOK(a, n, H), NEW y \in NodeSlots(a)
  PROVE  /\ ArenaOK([a EXCEPT !.nodes[y + 1].op = "new"], n, H)
         /\ OpSet(a, [a EXCEPT !.nodes[y + 1].op = "new"], y)
<1> DEFINE m == [At(a, y) EXCEPT !.op = "new"]
           q == [a.nodes EXCEPT ![y + 1] = m]
           b == [a EXCEPT !.nodes[y + 1].op = "new"]
<1>1. a \in ArenaRec /\ SlotsOK(a, n) /\ At(a, y) \in NodeRec /\ Live(a) \subseteq NodeSlots(a)
  BY IdFacts DEF ArenaOK, SlotsOK
<1>2. a.nodes \in Seq(NodeRec) /\ Len(a.nodes) \in Nat
  BY <1>1 DEF ArenaRec
<1>3. y + 1 \in DOMAIN a.nodes /\ \A i \in NodeSlots(a) : i + 1 \in DOMAIN a.nodes /\ (i # y => i + 1 # y + 1)
  BY <1>2 DEF NodeSlots
<1>4. /\ m \in NodeRec /\ m.next = At(a, y).next /\ m.ins = At(a, y).ins
      /\ m.region = At(a, y).region /\ m.serial = At(a, y).serial /\ m.op = "new"
  BY <1>1 DEF NodeRec
<1>5. b = [a EXCEPT !.nodes = q]
  BY DEF At
<1> HIDE DEF m
<1>6. /\ q \in Seq(NodeRec) /\ Len(q) = Len(a.nodes) /\ q[y + 1] = m
      /\ \A k \in DOMAIN a.nodes : k # y + 1 => q[k] = a.nodes[k]
  BY <1>2, <1>3, <1>4, SeqExcept
<1> HIDE DEF q, b
<1>7. b \in ArenaRec /\ b.gen = a.gen /\ b.free = a.free /\ b.first = a.first /\ b.nodes = q
  BY <1>1, <1>5, <1>6 DEF ArenaRec
<1>8. At(b, y) = m /\ \A i \in NodeSlots(a) : i # y => At(b, i) = At(a, i)
  BY <1>3, <1>6, <1>7 DEF At
<1>9. \A i \in Live(a) : /\ At(b, i).next = At(a, i).next /\ At(b, i).ins = At(a, i).ins
                         /\ At(b, i).region = At(a, i).region /\ At(b, i).serial = At(a, i).serial
  BY <1>1, <1>4, <1>8
<1>10. SameSlots(a, b)
  BY <1>6, <1>7, <1>9 DEF SameSlots
<1>11. \A i \in Live(a) : \A k \in DOMAIN At(b, i).ins : Meant(a, At(b, i).ins[k])
  BY <1>9 DEF ArenaOK
<1>12. ArenaOK(b, n, H)
  BY <1>10, <1>11, SameSlotsOK
<1>13. OpSet(a, b, y)
  BY <1>1, <1>4, <1>8, <1>10 DEF OpSet
<1> QED BY <1>12, <1>13 DEF b

\* What ReplaceAllUses makes of a node.
ReplaceNode(m, from, to) == [m EXCEPT !.ins = ReplaceIn(m.ins, from, to)]

\* ReplaceAllUses.
LEMMA ReplaceOK ==
  ASSUME NEW a, NEW n \in Nat, NEW H, ArenaOK(a, n, H), NEW from, NEW to \in H
  PROVE  LET b == ReplaceAllUses(a, from, to)
         IN  ArenaOK(b, n, H) /\ SameSlots(a, b) /\ \A i \in Live(a) : At(b, i).op = At(a, i).op
<1> DEFINE q == [s \in DOMAIN a.nodes |-> IF s - 1 \in Free(a) THEN a.nodes[s] ELSE ReplaceNode(a.nodes[s], from, to)]
           b == ReplaceAllUses(a, from, to)
<1>1. a \in ArenaRec /\ SlotsOK(a, n) /\ Live(a) \subseteq NodeSlots(a) /\ NodeSlots(a) \subseteq Nat /\ Meant(a, to)
  BY IdFacts DEF ArenaOK, SlotsOK
<1>2. a.nodes \in Seq(NodeRec) /\ Len(a.nodes) \in Nat /\ to \in OperandRec /\ DOMAIN a.nodes = 1..Len(a.nodes)
  BY <1>1 DEF ArenaRec, Meant
<1>3. b = [a EXCEPT !.nodes = q]
  BY DEF ReplaceAllUses, ReplaceNode
<1>4. ASSUME NEW ins \in Seq(OperandRec)
      PROVE  /\ ReplaceIn(ins, from, to) \in Seq(OperandRec) /\ DOMAIN ReplaceIn(ins, from, to) = DOMAIN ins
             /\ \A k \in DOMAIN ins : ReplaceIn(ins, from, to)[k] \in {ins[k], to}
  <2>1. DOMAIN ins = 1..Len(ins) /\ Len(ins) \in Nat /\ \A k \in DOMAIN ins : ins[k] \in OperandRec
    BY <1>4
  <2>2. ReplaceIn(ins, from, to) \in [1..Len(ins) -> OperandRec]
    BY <1>2, <2>1 DEF ReplaceIn
  <2>3. ReplaceIn(ins, from, to) \in Seq(OperandRec)
    BY <2>1, <2>2
  <2> QED BY <2>3 DEF ReplaceIn
<1>5. ASSUME NEW m \in NodeRec
      PROVE  LET z == ReplaceNode(m, from, to)
             IN  /\ z \in NodeRec /\ z.next = m.next /\ z.region = m.region /\ z.serial = m.serial /\ z.op = m.op
                 /\ z.ins = ReplaceIn(m.ins, from, to)
  <2>1. m.ins \in Seq(OperandRec) /\ ReplaceIn(m.ins, from, to) \in Seq(OperandRec)
    BY <1>4, <1>5 DEF NodeRec
  <2> QED BY <1>5, <2>1 DEF ReplaceNode, NodeRec
<1>6. q \in Seq(NodeRec) /\ Len(q) = Len(a.nodes)
  <2>1. \A s \in 1..Len(a.nodes) : a.nodes[s] \in NodeRec
    BY <1>2
  <2>2. \A s \in 1..Len(a.nodes) : ReplaceNode(a.nodes[s], from, to) \in NodeRec
    BY <1>5, <2>1
  <2>3. q \in [1..Len(a.nodes) -> NodeRec]
    BY <1>2, <2>1, <2>2
  <2> HIDE DEF q
  <2> QED BY <1>2, <2>3
<1>7. \A s \in 1..Len(a.nodes) : s - 1 \notin Free(a) => q[s] = ReplaceNode(a.nodes[s], from, to)
  BY <1>2
<1> HIDE DEF q, b
<1>8. b \in ArenaRec /\ b.gen = a.gen /\ b.free = a.free /\ b.first = a.first /\ b.nodes = q
  BY <1>1, <1>3, <1>6 DEF ArenaRec
<1>9. ASSUME NEW i \in Live(a) PROVE At(b, i) = ReplaceNode(At(a, i), from, to) /\ At(a, i) \in NodeRec
  <2>1. i + 1 \in 1..Len(a.nodes) /\ (i + 1) - 1 = i /\ i \notin Free(a) /\ i \in NodeSlots(a)
    BY <1>1, <1>2 DEF NodeSlots, Live
  <2> QED BY <1>1, <1>7, <1>8, <2>1, IdFacts DEF At
<1>10. \A i \in Live(a) : /\ At(b, i).next = At(a, i).next /\ At(b, i).ins = ReplaceIn(At(a, i).ins, from, to)
                          /\ At(b, i).region = At(a, i).region /\ At(b, i).serial = At(a, i).serial
  BY <1>5, <1>9
<1>11. SameSlots(a, b)
  BY <1>6, <1>8, <1>10 DEF SameSlots
<1>12. ASSUME NEW i \in Live(a), NEW k \in DOMAIN At(b, i).ins PROVE Meant(a, At(b, i).ins[k])
  <2>1. At(a, i).ins \in Seq(OperandRec)
    BY <1>9 DEF NodeRec
  <2>2. k \in DOMAIN At(a, i).ins /\ At(b, i).ins[k] \in {At(a, i).ins[k], to}
    BY <1>4, <1>10, <1>12, <2>1
  <2> QED BY <1>1, <2>2 DEF ArenaOK
<1>13. ArenaOK(b, n, H)
  BY <1>11, <1>12, SameSlotsOK
<1>14. \A i \in Live(a) : At(b, i).op = At(a, i).op
  BY <1>5, <1>9
<1> QED BY <1>11, <1>13, <1>14 DEF b

\* NONE is an id, and new_region adds an empty list.
LEMMA NewRegionOK ==
  ASSUME NEW a, NEW n \in Nat, NEW H, ArenaOK(a, n, H), Len(a.first) < RegionCapacity
  PROVE  ArenaOK(new_region(a), n, H)
<1> DEFINE f == Append(a.first, None)
           b == [a EXCEPT !.first = f]
<1>1. a \in ArenaRec /\ SlotsOK(a, n) /\ ListsOK(a) /\ RegionCapacity \in Nat
  BY IrStoreAssumption DEF ArenaOK, SlotsOK
<1>2. a.first \in Seq(IdRec) /\ Len(a.first) \in Nat /\ None \in IdRec
  BY <1>1, IrStoreAssumption DEF ArenaRec, None, IdRec
<1>3. new_region(a) = b
  BY <1>1, <1>2 DEF new_region
<1>4. /\ f \in Seq(IdRec) /\ DOMAIN a.first \subseteq DOMAIN f
      /\ \A r \in DOMAIN f : (r \in DOMAIN a.first /\ f[r] = a.first[r]) \/ (r \notin DOMAIN a.first /\ f[r] = None)
  BY <1>2
<1> HIDE DEF f
<1>5. b \in ArenaRec /\ b.nodes = a.nodes /\ b.gen = a.gen /\ b.free = a.free /\ b.first = f
  BY <1>1, <1>4 DEF ArenaRec
<1> HIDE DEF b
<1>6. /\ NodeSlots(b) = NodeSlots(a) /\ Free(b) = Free(a) /\ Live(b) = Live(a)
      /\ \A i : GenAt(b, i) = GenAt(a, i) /\ IdAt(b, i) = IdAt(a, i) /\ At(b, i) = At(a, i)
  BY <1>5 DEF NodeSlots, Free, Live, GenAt, IdAt, At
<1>7. SlotsOK(b, n)
  BY <1>1, <1>4, <1>5, <1>6 DEF SlotsOK
<1>8. \A l, r : LinkOK(a, l, r) => LinkOK(b, l, r)
  BY <1>6 DEF LinkOK
<1>9. \A r \in DOMAIN b.first : LinkOK(b, b.first[r], r)
  <2>1. \A r \in DOMAIN a.first : LinkOK(a, a.first[r], r)
    BY <1>1 DEF ListsOK
  <2>2. \A r : LinkOK(b, None, r)
    BY DEF LinkOK
  <2> QED BY <1>4, <1>5, <1>8, <2>1, <2>2
<1>10. \A i \in Live(b) : At(b, i).region \in DOMAIN a.first /\ b.first[At(b, i).region] = a.first[At(a, i).region]
  BY <1>1, <1>4, <1>5, <1>6 DEF SlotsOK
<1>11. \A i \in Live(b), r \in DOMAIN b.first : At(b, i).next = b.first[r] => b.first[r] = None
  BY <1>1, <1>4, <1>5, <1>6 DEF ListsOK
<1>12. ListsOK(b)
  BY <1>1, <1>6, <1>8, <1>9, <1>10, <1>11 DEF ListsOK
<1>13. \A o : Meant(a, o) => Meant(b, o)
  BY <1>6 DEF Meant
<1>14. ArenaOK(b, n, H)
  BY <1>6, <1>7, <1>12, <1>13 DEF ArenaOK
<1> QED BY <1>3, <1>14

\* with_capacity.
LEMMA EmptyOK ==
  ASSUME NEW n \in Nat
  PROVE  ArenaOK(EmptyArena, n, {})
<1> DEFINE a == EmptyArena
<1>1. None \in IdRec /\ NodeCapacity \in Nat
  BY IrStoreAssumption DEF None, IdRec
<1>2. a.nodes = <<>> /\ a.gen = <<>> /\ a.free = <<>> /\ a.first = <<None>>
  BY DEF EmptyArena
<1>3. a \in ArenaRec
  BY <1>1 DEF EmptyArena, ArenaRec
<1>4. NodeSlots(a) = {} /\ Live(a) = {} /\ DOMAIN a.free = {}
  BY <1>2 DEF NodeSlots, Live
<1>5. SlotsOK(a, n)
  BY <1>1, <1>2, <1>3, <1>4 DEF SlotsOK
<1>6. ListsOK(a)
  BY <1>2, <1>4 DEF ListsOK, LinkOK
<1> QED BY <1>4, <1>5, <1>6 DEF ArenaOK

-----------------------------------------------------------------------------
(* The operations of an arena *)

\* insert_node, for a slot of either kind.
LEMMA InsertOK ==
  ASSUME NEW a, NEW n \in Nat, NEW H, ArenaOK(a, n, H), n < MaxInserts, CanInsert(a),
         NEW r \in DOMAIN a.first, NEW ins \in Seq(OperandRec), \A k \in DOMAIN ins : Meant(a, ins[k])
  PROVE  ArenaOK(insert_node(a, r, NewNode(ins, r, n)), n + 1, H)
<1>1. SlotsOK(a, n)
  BY DEF ArenaOK
<1>2. \E x : Inserted(a, insert_node(a, r, NewNode(ins, r, n)), x, r, Node(a, ins, r, n))
  BY <1>1, InsertFreeIs, InsertFreshIs
<1> QED BY <1>2, InsertedOK

\* remove_node, of a live node.
LEMMA RemoveOK ==
  ASSUME NEW a, NEW n \in Nat, NEW H, ArenaOK(a, n, H), n <= MaxInserts, NEW x \in Live(a)
  PROVE  ArenaOK(remove_node(a, IdAt(a, x)), n, H)
<1>1. Removed(a, remove_node(a, IdAt(a, x)), x)
  BY RemoveIs DEF ArenaOK
<1> QED BY <1>1, RemovedOK

\* An operand whose id resolves names the node it was made for.
LEMMA MeantResolves ==
  ASSUME NEW a, NEW o, Meant(a, o), Resolves(a, o.id)
  PROVE  o.id.idx \in Live(a) /\ o.id = IdAt(a, o.id.idx) /\ At(a, o.id.idx).serial = o.serial
<1>1. o.id \in IdRec /\ o.id.gen = GenAt(a, o.id.idx)
  BY DEF Meant, OperandRec, Resolves, GenAt
<1>2. o.id.idx \in Live(a) /\ At(a, o.id.idx).serial = o.serial
  BY <1>1 DEF Meant
<1>3. o.id = [idx |-> o.id.idx, gen |-> o.id.gen]
  BY <1>1 DEF IdRec
<1>4. o.id = IdAt(a, o.id.idx)
  BY <1>1, <1>3 DEF IdAt, Pack, GenAt
<1> QED BY <1>2, <1>4

\* An operand taken from the arena is what it says.
LEMMA LiveMeant ==
  ASSUME NEW a, NEW n \in Nat, SlotsOK(a, n), NEW i \in Live(a)
  PROVE  Meant(a, Operand(a, IdAt(a, i)))
<1>1. /\ i \in NodeSlots(a) /\ At(a, i) \in NodeRec /\ GenAt(a, i) \in Nat /\ IdAt(a, i) \in IdRec
      /\ IdAt(a, i).idx = i /\ IdAt(a, i).gen = GenAt(a, i)
  BY IdFacts
<1>2. At(a, i).serial \in Nat
  BY <1>1 DEF NodeRec
<1> DEFINE o == Operand(a, IdAt(a, i))
<1>3. o.id = IdAt(a, i) /\ o.serial = At(a, i).serial /\ o \in OperandRec
  BY <1>1, <1>2 DEF Operand, OperandRec
<1> HIDE DEF o
<1>4. Meant(a, o)
  BY <1>1, <1>3 DEF Meant
<1> QED BY <1>4 DEF o

\* An arena that is sound for some insertions and operands is so for more insertions and fewer operands.
LEMMA ArenaLater ==
  ASSUME NEW a, NEW n \in Nat, NEW m \in Nat, n <= m, NEW H, NEW K, K \subseteq H, ArenaOK(a, n, H)
  PROVE  ArenaOK(a, m, K)
<1>1. SlotsOK(a, n)
  BY DEF ArenaOK
<1>2. /\ \A i \in NodeSlots(a) : GenAt(a, i) \in Nat /\ GenAt(a, i) <= 2 * n - 1
      /\ \A i \in Live(a) : GenAt(a, i) \in Nat /\ GenAt(a, i) <= 2 * n - 2
      /\ \A i \in Live(a) : At(a, i).serial \in Nat /\ At(a, i).serial < n
  BY <1>1, IdFacts DEF SlotsOK, NodeRec
<1>3. /\ \A i \in NodeSlots(a) : GenAt(a, i) <= 2 * m - 1
      /\ \A i \in Live(a) : GenAt(a, i) <= 2 * m - 2
      /\ \A i \in Live(a) : At(a, i).serial < m
  BY <1>2
<1>4. SlotsOK(a, m)
  BY <1>1, <1>3 DEF SlotsOK
<1> QED BY <1>4 DEF ArenaOK

\* Operands can be added to those an arena is sound for.
LEMMA ArenaMore ==
  ASSUME NEW a, NEW n, NEW H, NEW K, ArenaOK(a, n, H), \A h \in K : Meant(a, h)
  PROVE  ArenaOK(a, n, H \cup K)
BY DEF ArenaOK

-----------------------------------------------------------------------------
(* Edits *)

\* An edit of a node in H, with a replacement in H.
EditOver(e, H) ==
  /\ e.kind \in {"replace", "remove", "setop"} /\ \E h \in H : e.node = h.id
  /\ e.kind = "replace" => e.to \in H

\* One edit fails or leaves the arena sound.
LEMMA EditOK ==
  ASSUME NEW a, NEW n \in Nat, NEW H, ArenaOK(a, n, H), n <= MaxInserts, NEW e, EditOver(e, H)
  PROVE  apply_edit(a, e) = Failed \/ ArenaOK(apply_edit(a, e), n, H)
<1>1. PICK h \in H : e.node = h.id
  BY DEF EditOver
<1>2. Meant(a, h) /\ SlotsOK(a, n)
  BY DEF ArenaOK
<1>3. CASE e.kind = "replace"
  <2>1. apply_edit(a, e) = ReplaceAllUses(a, e.node, e.to)
    BY <1>3 DEF apply_edit
  <2>2. e.to \in H
    BY <1>3 DEF EditOver
  <2> QED BY <2>1, <2>2, ReplaceOK
<1>4. CASE e.kind = "remove"
  <2>1. apply_edit(a, e) = IF Resolves(a, e.node) THEN remove_node(a, e.node) ELSE Failed
    BY <1>4 DEF apply_edit
  <2>2. CASE Resolves(a, e.node)
    <3>1. e.node.idx \in Live(a) /\ e.node = IdAt(a, e.node.idx)
      BY <1>1, <1>2, <2>2, MeantResolves
    <3>2. ArenaOK(remove_node(a, IdAt(a, e.node.idx)), n, H)
      BY <3>1, RemoveOK
    <3>3. ArenaOK(remove_node(a, e.node), n, H)
      BY <3>1, <3>2
    <3> QED BY <2>1, <2>2, <3>3
  <2> QED BY <2>1, <2>2
<1>5. CASE e.kind = "setop"
  <2>1. apply_edit(a, e) = IF Resolves(a, e.node) THEN [a EXCEPT !.nodes[e.node.idx + 1].op = "new"] ELSE Failed
    BY <1>5 DEF apply_edit
  <2>2. e.node.idx \in NodeSlots(a)
    BY <1>1, <1>2 DEF Meant
  <2>3. ArenaOK([a EXCEPT !.nodes[e.node.idx + 1].op = "new"], n, H)
    BY <2>2, SetOpOK
  <2> QED BY <2>1, <2>3
<1> QED BY <1>3, <1>4, <1>5 DEF EditOver

\* The arenas between the edits of a log.
EditStep(x, e) == IF x = Failed THEN Failed ELSE apply_edit(x, e)
Run(f, a, log, n) == f = [k \in 0..n |-> IF k = 0 THEN a ELSE EditStep(f[k - 1], log[k])]

\* They exist for any number of edits.
LEMMA RunExists ==
  ASSUME NEW a, NEW log, NEW n \in Nat
  PROVE  \E f : Run(f, a, log, n)
<1> DEFINE S == {m \in Nat : \E f : Run(f, a, log, m)}
<1>1. 0 \in S
  <2> DEFINE z == [k \in 0..0 |-> a]
  <2>1. \A k \in 0..0 : k = 0
    OBVIOUS
  <2>2. Run(z, a, log, 0)
    BY <2>1 DEF Run
  <2> QED BY <2>2
<1>2. ASSUME NEW m \in Nat, m \in S PROVE m + 1 \in S
  <2>1. PICK f : Run(f, a, log, m)
    BY <1>2
  <2> DEFINE g == [k \in 0..(m + 1) |-> IF k = m + 1 THEN EditStep(f[m], log[m + 1]) ELSE f[k]]
  <2>2. ASSUME NEW k \in 0..(m + 1) PROVE g[k] = IF k = 0 THEN a ELSE EditStep(g[k - 1], log[k])
    <3>1. CASE k = m + 1
      <4>1. k # 0 /\ k - 1 = m /\ m \in 0..(m + 1) /\ m # m + 1
        BY <3>1
      <4>2. g[k] = EditStep(f[m], log[m + 1]) /\ g[m] = f[m]
        BY <3>1, <4>1
      <4> QED BY <3>1, <4>1, <4>2
    <3>2. CASE k # m + 1
      <4>1. k \in 0..m /\ g[k] = f[k]
        BY <3>2
      <4>2. f[k] = IF k = 0 THEN a ELSE EditStep(f[k - 1], log[k])
        BY <2>1, <4>1 DEF Run
      <4>3. k # 0 => g[k - 1] = f[k - 1]
        BY <4>1
      <4> HIDE DEF g
      <4> QED BY <4>1, <4>2, <4>3
    <3> QED BY <3>1, <3>2
  <2>3. g = [k \in 0..(m + 1) |-> g[k]]
    OBVIOUS
  <2> HIDE DEF g
  <2>4. Run(g, a, log, m + 1)
    BY <2>2, <2>3 DEF Run
  <2> QED BY <2>4
<1> HIDE DEF S
<1>3. n \in S
  BY <1>1, <1>2, SetInduction
<1> QED BY <1>3 DEF S

\* apply_edits is the last of them.
LEMMA EditsRun ==
  ASSUME NEW a, NEW log, Len(log) \in Nat
  PROVE  \E f : /\ apply_edits(a, log) = f[Len(log)] /\ f[0] = a
                /\ \A k \in 1..Len(log) : f[k] = EditStep(f[k - 1], log[k])
<1> DEFINE F == CHOOSE f : Run(f, a, log, Len(log))
<1>1. Run(F, a, log, Len(log))
  BY RunExists
<1>2. apply_edits(a, log) = F[Len(log)]
  BY Zenon DEF apply_edits, Run, EditStep
<1> HIDE DEF F
<1>3. \A k \in 0..Len(log) : F[k] = IF k = 0 THEN a ELSE EditStep(F[k - 1], log[k])
  BY <1>1 DEF Run
<1>4. F[0] = a /\ \A k \in 1..Len(log) : F[k] = EditStep(F[k - 1], log[k])
  BY <1>3
<1> QED BY <1>2, <1>4

\* A log of edits fails or leaves the arena sound.
LEMMA EditsOK ==
  ASSUME NEW a, NEW n \in Nat, NEW H, ArenaOK(a, n, H), n <= MaxInserts, NEW log, Len(log) \in Nat,
         \A k \in 1..Len(log) : EditOver(log[k], H)
  PROVE  apply_edits(a, log) = Failed \/ ArenaOK(apply_edits(a, log), n, H)
<1>1. PICK f : /\ apply_edits(a, log) = f[Len(log)] /\ f[0] = a
               /\ \A k \in 1..Len(log) : f[k] = EditStep(f[k - 1], log[k])
  BY EditsRun
<1> DEFINE S == {k \in Nat : k <= Len(log) => f[k] = Failed \/ ArenaOK(f[k], n, H)}
<1>2. 0 \in S
  BY <1>1
<1>3. ASSUME NEW k \in Nat, k \in S PROVE k + 1 \in S
  <2> SUFFICES ASSUME k + 1 <= Len(log) PROVE f[k + 1] = Failed \/ ArenaOK(f[k + 1], n, H)
    OBVIOUS
  <2>1. k + 1 \in 1..Len(log) /\ (k + 1) - 1 = k /\ k <= Len(log)
    OBVIOUS
  <2>2. f[k + 1] = EditStep(f[k], log[k + 1]) /\ EditOver(log[k + 1], H)
    BY <1>1, <2>1
  <2>3. f[k] = Failed \/ ArenaOK(f[k], n, H)
    BY <1>3, <2>1
  <2> QED BY <2>2, <2>3, EditOK DEF EditStep
<1> HIDE DEF S
<1>4. Len(log) \in S
  BY <1>2, <1>3, SetInduction
<1> QED BY <1>1, <1>4 DEF S

\* An id whose slot has moved on, and one whose node has the new opcode.
Gone(a, id) == id.idx \in NodeSlots(a) /\ id.gen \in Nat /\ id.gen < GenAt(a, id.idx)
IsSet(a, id) == id.idx \in Live(a) /\ id = IdAt(a, id.idx) /\ At(a, id.idx).op = "new"

\* What one edit that does not fail does, and what it keeps of the ones before.
Taken(a, b, e) ==
  /\ e.kind = "remove" => Gone(b, e.node)
  /\ e.kind = "setop" => IsSet(b, e.node)
  /\ \A id : Gone(a, id) => Gone(b, id)
  /\ \A id : IsSet(a, id) => IsSet(b, id) \/ (e.kind = "remove" /\ e.node = id)

\* Where the slots stay the same, ids stay gone and live nodes keep their ids.
LEMMA SameSlotsKeep ==
  ASSUME NEW a, NEW b, SameSlots(a, b)
  PROVE  /\ Live(b) = Live(a) /\ \A i : IdAt(b, i) = IdAt(a, i)
         /\ \A id : Gone(a, id) => Gone(b, id)
<1>1. /\ NodeSlots(b) = NodeSlots(a) /\ Free(b) = Free(a) /\ Live(b) = Live(a)
      /\ \A i : GenAt(b, i) = GenAt(a, i) /\ IdAt(b, i) = IdAt(a, i)
  BY DEF SameSlots, NodeSlots, Free, Live, GenAt, IdAt
<1> QED BY <1>1 DEF Gone

\* An edit that does not fail is taken.
LEMMA EditTaken ==
  ASSUME NEW a, NEW n \in Nat, NEW H, ArenaOK(a, n, H), n <= MaxInserts, NEW e, EditOver(e, H),
         apply_edit(a, e) # Failed
  PROVE  Taken(a, apply_edit(a, e), e)
<1> DEFINE b == apply_edit(a, e)
<1>1. PICK h \in H : e.node = h.id
  BY DEF EditOver
<1>2. Meant(a, h) /\ SlotsOK(a, n) /\ ListsOK(a)
  BY DEF ArenaOK
<1>3. CASE e.kind = "replace"
  <2>1. b = ReplaceAllUses(a, e.node, e.to) /\ e.to \in H
    BY <1>3 DEF apply_edit, EditOver
  <2>2. SameSlots(a, b) /\ \A i \in Live(a) : At(b, i).op = At(a, i).op
    BY <2>1, ReplaceOK
  <2> HIDE DEF b
  <2>3. /\ Live(b) = Live(a) /\ \A i : IdAt(b, i) = IdAt(a, i)
        /\ \A id : Gone(a, id) => Gone(b, id)
    BY <2>2, SameSlotsKeep
  <2>4. Taken(a, b, e)
    BY <1>3, <2>2, <2>3 DEF Taken, IsSet
  <2> QED BY <2>4 DEF b
<1>4. CASE e.kind = "remove"
  <2>1. Resolves(a, e.node) /\ b = remove_node(a, e.node)
    BY <1>4 DEF apply_edit
  <2>2. e.node.idx \in Live(a) /\ e.node = IdAt(a, e.node.idx)
    BY <1>1, <1>2, <2>1, MeantResolves
  <2> DEFINE x == e.node.idx
  <2> HIDE DEF b, x
  <2>3. x \in Live(a) /\ e.node = IdAt(a, x) /\ e.node.idx = x
    BY <2>2 DEF x
  <2>4. Removed(a, b, x)
    BY <1>2, <2>1, <2>3, RemoveIs
  <2>5. /\ Live(b) = Live(a) \ {x} /\ NodeSlots(b) = NodeSlots(a)
        /\ \A i \in Live(b) : IdAt(b, i) = IdAt(a, i)
    BY <1>2, <2>3, <2>4, RemovedSlots
  <2>6. /\ GenAt(b, x) = GenAt(a, x) + 1 /\ \A i \in NodeSlots(a) : i # x => GenAt(b, i) = GenAt(a, i)
        /\ \A i \in Live(b) : At(b, i).op = At(a, i).op
    BY <2>4, <2>5 DEF Removed
  <2>7. GenAt(a, x) \in Nat /\ e.node.gen = GenAt(a, x) /\ x \in NodeSlots(a)
    BY <1>2, <2>3, IdFacts
  <2>8. Gone(b, e.node)
    BY <2>3, <2>5, <2>6, <2>7 DEF Gone
  <2>9. ASSUME NEW id, Gone(a, id) PROVE Gone(b, id)
    <3>1. id.idx \in NodeSlots(b) /\ id.gen \in Nat /\ id.gen < GenAt(a, id.idx)
      BY <2>5, <2>9 DEF Gone
    <3>2. CASE id.idx = x
      <4>1. id.gen < GenAt(a, x)
        BY <3>1, <3>2
      <4>2. id.gen < GenAt(b, x)
        BY <2>6, <2>7, <3>1, <4>1
      <4> QED BY <3>1, <3>2, <4>2 DEF Gone
    <3>3. CASE id.idx # x
      <4>1. GenAt(b, id.idx) = GenAt(a, id.idx)
        BY <2>5, <2>6, <3>1, <3>3
      <4> QED BY <3>1, <4>1 DEF Gone
    <3> QED BY <3>2, <3>3
  <2>10. \A id : IsSet(a, id) => IsSet(b, id) \/ e.node = id
    BY <2>3, <2>5, <2>6 DEF IsSet
  <2>11. Taken(a, b, e)
    BY <1>4, <2>8, <2>9, <2>10 DEF Taken
  <2> QED BY <2>11 DEF b
<1>5. CASE e.kind = "setop"
  <2>1. Resolves(a, e.node) /\ b = [a EXCEPT !.nodes[e.node.idx + 1].op = "new"]
    BY <1>5 DEF apply_edit
  <2>2. e.node.idx \in Live(a) /\ e.node = IdAt(a, e.node.idx)
    BY <1>1, <1>2, <2>1, MeantResolves
  <2>3. e.node.idx \in NodeSlots(a)
    BY <1>1, <1>2 DEF Meant
  <2>4. SameSlots(a, b) /\ At(b, e.node.idx).op = "new" /\ \A i \in Live(a) : i # e.node.idx => At(b, i).op = At(a, i).op
    <3>1. OpSet(a, b, e.node.idx)
      BY <2>1, <2>3, SetOpOK
    <3> QED BY <3>1 DEF OpSet
  <2> HIDE DEF b
  <2>5. /\ Live(b) = Live(a) /\ \A i : IdAt(b, i) = IdAt(a, i)
        /\ \A id : Gone(a, id) => Gone(b, id)
    BY <2>4, SameSlotsKeep
  <2>6. IsSet(b, e.node) /\ \A id : IsSet(a, id) => IsSet(b, id)
    BY <2>2, <2>4, <2>5 DEF IsSet
  <2>7. Taken(a, b, e)
    BY <1>5, <2>5, <2>6 DEF Taken
  <2> QED BY <2>7 DEF b
<1> QED BY <1>3, <1>4, <1>5 DEF EditOver

\* The first k edits of a log have been taken.
TakenUpTo(a, log, k) ==
  \A j \in 1..k :
    /\ log[j].kind = "remove" => Gone(a, log[j].node)
    /\ log[j].kind = "setop" =>
         IsSet(a, log[j].node) \/ \E m \in (j + 1)..k : log[m].kind = "remove" /\ log[m].node = log[j].node

\* A log that does not fail is taken as a whole.
LEMMA EditsTaken ==
  ASSUME NEW a, NEW n \in Nat, NEW H, ArenaOK(a, n, H), n <= MaxInserts, NEW log, Len(log) \in Nat,
         \A k \in 1..Len(log) : EditOver(log[k], H), apply_edits(a, log) # Failed
  PROVE  TakenUpTo(apply_edits(a, log), log, Len(log))
<1>1. PICK f : /\ apply_edits(a, log) = f[Len(log)] /\ f[0] = a
               /\ \A k \in 1..Len(log) : f[k] = EditStep(f[k - 1], log[k])
  BY EditsRun
<1> DEFINE Good(k) == f[k] = Failed \/ (ArenaOK(f[k], n, H) /\ TakenUpTo(f[k], log, k))
           S == {k \in Nat : k <= Len(log) => Good(k)}
<1>2. 0 \in S
  <2>1. TakenUpTo(f[0], log, 0)
    BY DEF TakenUpTo
  <2> QED BY <1>1, <2>1
<1>3. ASSUME NEW k \in Nat, k \in S PROVE k + 1 \in S
  <2> SUFFICES ASSUME k + 1 <= Len(log), f[k + 1] # Failed
               PROVE  ArenaOK(f[k + 1], n, H) /\ TakenUpTo(f[k + 1], log, k + 1)
    OBVIOUS
  <2>1. k + 1 \in 1..Len(log) /\ (k + 1) - 1 = k /\ k <= Len(log)
    OBVIOUS
  <2>2. f[k + 1] = EditStep(f[k], log[k + 1]) /\ EditOver(log[k + 1], H)
    BY <1>1, <2>1
  <2>3. f[k] # Failed /\ f[k + 1] = apply_edit(f[k], log[k + 1])
    BY <2>2 DEF EditStep
  <2>4. ArenaOK(f[k], n, H) /\ TakenUpTo(f[k], log, k)
    BY <1>3, <2>1, <2>3
  <2>5. ArenaOK(f[k + 1], n, H)
    BY <2>2, <2>3, <2>4, EditOK
  <2>6. Taken(f[k], f[k + 1], log[k + 1])
    BY <2>2, <2>3, <2>4, EditTaken
  <2>7. ASSUME NEW j \in 1..(k + 1)
        PROVE  /\ log[j].kind = "remove" => Gone(f[k + 1], log[j].node)
               /\ log[j].kind = "setop" =>
                    IsSet(f[k + 1], log[j].node)
                      \/ \E m \in (j + 1)..(k + 1) : log[m].kind = "remove" /\ log[m].node = log[j].node
    <3>1. CASE j = k + 1
      BY <2>6, <3>1 DEF Taken
    <3>2. CASE j # k + 1
      <4>1. j \in 1..k /\ k + 1 \in (j + 1)..(k + 1) /\ \A m \in (j + 1)..k : m \in (j + 1)..(k + 1)
        BY <3>2
      <4>2. log[j].kind = "remove" => Gone(f[k + 1], log[j].node)
        BY <2>4, <2>6, <4>1 DEF Taken, TakenUpTo
      <4>3. ASSUME log[j].kind = "setop", IsSet(f[k], log[j].node)
            PROVE  IsSet(f[k + 1], log[j].node)
                     \/ \E m \in (j + 1)..(k + 1) : log[m].kind = "remove" /\ log[m].node = log[j].node
        BY <2>6, <4>1, <4>3 DEF Taken
      <4>4. log[j].kind = "setop" =>
              IsSet(f[k], log[j].node) \/ \E m \in (j + 1)..k : log[m].kind = "remove" /\ log[m].node = log[j].node
        BY <2>4, <4>1 DEF TakenUpTo
      <4> QED BY <4>1, <4>2, <4>3, <4>4
    <3> QED BY <3>1, <3>2
  <2> QED BY <2>5, <2>7 DEF TakenUpTo
<1> HIDE DEF S
<1>4. Len(log) \in S
  BY <1>2, <1>3, SetInduction
<1> QED BY <1>1, <1>4 DEF S

-----------------------------------------------------------------------------
(* Snapshots *)

\* The published arena and the clone of the running pass are sound, and what clients hold is meant.
StoreInv ==
  /\ serial \in Nat /\ serial <= MaxInserts
  /\ ArenaOK(snap.arena, serial, held) /\ Verified(snap.arena)
  /\ ArenaOK(work, serial, IF pass = "rewriting" THEN held ELSE {})

\* Before the first snapshot.
LEMMA StoreInitInv == StoreInit => StoreInv
<1> SUFFICES ASSUME StoreInit PROVE StoreInv
  OBVIOUS
<1>1. snap.arena = EmptyArena /\ work = EmptyArena /\ pass = "idle" /\ serial = 0 /\ held = {}
  BY DEF StoreInit
<1>2. ArenaOK(EmptyArena, 0, {})
  BY EmptyOK
<1>3. Live(EmptyArena) = {}
  BY DEF Live, EmptyArena
<1>4. Verified(EmptyArena)
  BY <1>3 DEF Verified
<1>5. 0 <= MaxInserts
  BY IrStoreAssumption
<1> QED BY <1>1, <1>2, <1>4, <1>5 DEF StoreInv

\* A sound arena that verifies is published.
LEMMA PublishInv ==
  ASSUME StoreInv, NEW a, ArenaOK(a, serial, held), Verified(a), NEW v, PublishSnapshot(a, v), serial' = serial,
         work' = EmptyArena \/ work' = work, pass' = "idle"
  PROVE  StoreInv'
<1> DEFINE K == {Operand(a, id) : id \in LiveIds(a)}
<1>1. snap'.arena = a /\ held' = held \cup K /\ serial \in Nat /\ serial <= MaxInserts
  BY DEF PublishSnapshot, StoreInv
<1>2. \A h \in K : Meant(a, h)
  <2>1. SlotsOK(a, serial)
    BY DEF ArenaOK
  <2>2. \A i \in Live(a) : Meant(a, Operand(a, IdAt(a, i)))
    BY <1>1, <2>1, LiveMeant
  <2> QED BY <2>2 DEF LiveIds
<1> HIDE DEF K
<1>3. ArenaOK(a, serial, held \cup K)
  BY <1>2, ArenaMore
<1>4. ArenaOK(EmptyArena, serial, {})
  BY <1>1, EmptyOK
<1>5. ArenaOK(work, serial, {})
  <2>1. \E H : ArenaOK(work, serial, H)
    BY DEF StoreInv
  <2> QED BY <1>1, <2>1, ArenaLater
<1>6. ArenaOK(work', serial, {})
  BY <1>4, <1>5
<1> QED BY <1>1, <1>3, <1>6 DEF StoreInv

\* An edit log over what clients hold and the snapshot's live nodes.
LEMMA EditsAreOver ==
  ASSUME NEW e \in Edits
  PROVE  EditOver(e, held \cup {Operand(snap.arena, id) : id \in LiveIds(snap.arena)})
BY DEF Edits, EditOver

\* The arena a commit publishes is sound, and the log is taken.
LEMMA CommitArena ==
  ASSUME StoreInv, NEW e \in Edits, NEW f \in Edits, apply_edits(snap.arena, <<e, f>>) # Failed
  PROVE  LET a == apply_edits(snap.arena, <<e, f>>)
         IN  ArenaOK(a, serial, held) /\ TakenUpTo(a, <<e, f>>, 2)
<1> DEFINE K == {Operand(snap.arena, id) : id \in LiveIds(snap.arena)}
           log == <<e, f>>
           a == apply_edits(snap.arena, log)
<1>1. serial \in Nat /\ serial <= MaxInserts /\ SlotsOK(snap.arena, serial) /\ ArenaOK(snap.arena, serial, held)
  BY DEF StoreInv, ArenaOK
<1>2. \A h \in K : Meant(snap.arena, h)
  <2>1. \A i \in Live(snap.arena) : Meant(snap.arena, Operand(snap.arena, IdAt(snap.arena, i)))
    BY <1>1, LiveMeant
  <2> QED BY <2>1 DEF LiveIds
<1>3. EditOver(e, held \cup K) /\ EditOver(f, held \cup K)
  BY EditsAreOver
<1>4. Len(log) = 2 /\ \A k \in 1..2 : log[k] = e \/ log[k] = f
  OBVIOUS
<1> HIDE DEF K, log
<1>5. ArenaOK(snap.arena, serial, held \cup K)
  BY <1>1, <1>2, ArenaMore
<1>6. Len(log) \in Nat /\ \A k \in 1..Len(log) : EditOver(log[k], held \cup K)
  BY <1>3, <1>4
<1>7. a # Failed
  BY DEF log
<1>8. ArenaOK(a, serial, held \cup K) /\ TakenUpTo(a, log, 2)
  BY <1>1, <1>4, <1>5, <1>6, <1>7, EditsOK, EditsTaken
<1> HIDE DEF a
<1>9. ArenaOK(a, serial, held)
  BY <1>1, <1>8, ArenaLater
<1> QED BY <1>8, <1>9 DEF a, log

\* Every step keeps it.
LEMMA StoreNextInv == StoreInv /\ [StoreNext]_store_vars => StoreInv'
<1> SUFFICES ASSUME StoreInv, [StoreNext]_store_vars PROVE StoreInv'
  OBVIOUS
<1>0. /\ serial \in Nat /\ serial <= MaxInserts /\ MaxInserts \in Nat
      /\ ArenaOK(snap.arena, serial, held) /\ Verified(snap.arena)
      /\ ArenaOK(work, serial, IF pass = "rewriting" THEN held ELSE {})
  BY IrStoreAssumption DEF StoreInv
<1>1. ASSUME BeginRewrite PROVE StoreInv'
  BY <1>0, <1>1 DEF BeginRewrite, StoreInv
<1>2. ASSUME NewRegion PROVE StoreInv'
  <2>1. ArenaOK(work, serial, held)
    BY <1>0, <1>2 DEF NewRegion
  <2>2. ArenaOK(new_region(work), serial, held)
    BY <1>0, <1>2, <2>1, NewRegionOK DEF NewRegion
  <2> QED BY <1>0, <1>2, <2>2 DEF NewRegion, StoreInv
<1>3. ASSUME EndRewrite PROVE StoreInv'
  <2>1. ArenaOK(work, serial, held)
    BY <1>0, <1>3 DEF EndRewrite
  <2>2. CASE Verified(work)
    <3>1. PublishSnapshot(work, 0) /\ serial' = serial /\ work' = EmptyArena /\ pass' = "idle"
      BY <1>3, <2>2 DEF EndRewrite
    <3> QED BY <2>1, <2>2, <3>1, PublishInv
  <2>3. CASE ~Verified(work)
    <3>1. /\ snap' = snap /\ held' = held /\ serial' = serial /\ work' = EmptyArena /\ pass' = "idle"
      BY <1>3, <2>3 DEF EndRewrite
    <3>2. ArenaOK(EmptyArena, serial, {})
      BY <1>0, EmptyOK
    <3> QED BY <1>0, <3>1, <3>2 DEF StoreInv
  <2> QED BY <2>2, <2>3
<1>4. ASSUME NEW r \in DOMAIN work.first, NEW ins \in Seq(OperandRec), \A k \in DOMAIN ins : Meant(work, ins[k]),
             InsertNode(r, ins)
      PROVE  StoreInv'
  <2>1. /\ ArenaOK(work, serial, held) /\ serial < MaxInserts /\ CanInsert(work) /\ serial' = serial + 1
        /\ work' = insert_node(work, r, NewNode(ins, r, serial)) /\ pass = "rewriting"
        /\ snap' = snap /\ held' = held /\ pass' = pass
    BY <1>0, <1>4 DEF InsertNode, NewNode
  <2>2. ArenaOK(work', serial + 1, held)
    BY <1>0, <1>4, <2>1, InsertOK
  <2>3. serial + 1 \in Nat /\ serial + 1 <= MaxInserts /\ serial <= serial + 1
    BY <1>0, <2>1
  <2>4. ArenaOK(snap.arena, serial + 1, held)
    BY <1>0, <2>3, ArenaLater
  <2> QED BY <1>0, <2>1, <2>2, <2>3, <2>4 DEF StoreInv
<1>5. ASSUME NEW id \in LiveIds(work), RemoveNode(id) PROVE StoreInv'
  <2>1. PICK x \in Live(work) : id = IdAt(work, x)
    BY <1>5 DEF LiveIds
  <2>2. /\ ArenaOK(work, serial, held) /\ work' = remove_node(work, IdAt(work, x)) /\ pass = "rewriting"
        /\ snap' = snap /\ held' = held /\ pass' = pass /\ serial' = serial
    BY <1>0, <1>5, <2>1 DEF RemoveNode
  <2>3. ArenaOK(work', serial, held)
    BY <1>0, <2>2, RemoveOK
  <2> QED BY <1>0, <2>2, <2>3 DEF StoreInv
<1>6. ASSUME NEW e \in Edits, NEW f \in Edits, Commit(<<e, f>>) PROVE StoreInv'
  <2> DEFINE a == apply_edits(snap.arena, <<e, f>>)
  <2>1. a # Failed /\ Verified(a) /\ PublishSnapshot(a, snap.version + 1) /\ work' = work /\ pass' = "idle" /\ serial' = serial
    BY <1>6 DEF Commit
  <2>2. ArenaOK(a, serial, held)
    BY <2>1, CommitArena
  <2> HIDE DEF a
  <2> QED BY <2>1, <2>2, PublishInv
<1>7. ASSUME UNCHANGED store_vars PROVE StoreInv'
  BY <1>7 DEF StoreInv, store_vars
<1>8. ASSUME NEW r \in DOMAIN work.first, InsertNode(r, <<>>) PROVE StoreInv'
  <2>1. <<>> \in Seq(OperandRec) /\ \A k \in DOMAIN <<>> : Meant(work, <<>>[k])
    OBVIOUS
  <2> QED BY <1>4, <1>8, <2>1
<1>9. ASSUME NEW r \in DOMAIN work.first, NEW id \in LiveIds(work), InsertNode(r, <<Operand(work, id)>>) PROVE StoreInv'
  <2> DEFINE o == Operand(work, id)
  <2>1. SlotsOK(work, serial)
    BY <1>0 DEF ArenaOK
  <2>2. Meant(work, o)
    BY <1>0, <2>1, LiveMeant DEF LiveIds
  <2>3. o \in OperandRec
    BY <2>2 DEF Meant
  <2> HIDE DEF o
  <2>4. <<o>> \in Seq(OperandRec) /\ \A k \in DOMAIN <<o>> : <<o>>[k] = o
    BY <2>3
  <2>5. InsertNode(r, <<o>>)
    BY <1>9 DEF o
  <2> QED BY <1>4, <2>2, <2>4, <2>5
<1> QED BY <1>1, <1>2, <1>3, <1>5, <1>6, <1>7, <1>8, <1>9 DEF StoreNext

\* Sound arenas have the properties that the passes rely on.
LEMMA StoreInvSound == StoreInv => ArenasSound
<1> SUFFICES ASSUME StoreInv PROVE ArenasSound
  OBVIOUS
<1>0. /\ serial \in Nat /\ ArenaOK(snap.arena, serial, held) /\ Verified(snap.arena)
      /\ \E H : ArenaOK(work, serial, H)
  BY DEF StoreInv
<1>1. StaleIdsNeverResolve
  <2>1. \A h \in held : Meant(snap.arena, h)
    BY <1>0 DEF ArenaOK
  <2> QED BY <2>1, MeantResolves DEF StaleIdsNeverResolve
<1>2. OperandsAreMeant
  <2> SUFFICES ASSUME NEW i \in Live(snap.arena), NEW k \in 1..2, k \in DOMAIN At(snap.arena, i).ins
               PROVE  LET o == At(snap.arena, i).ins[k]
                      IN  /\ Resolves(snap.arena, o.id) /\ o.id.idx \in Live(snap.arena)
                          /\ At(snap.arena, o.id.idx).serial = o.serial
    BY DEF OperandsAreMeant
  <2> DEFINE o == At(snap.arena, i).ins[k]
  <2>1. Resolves(snap.arena, o.id)
    BY <1>0 DEF Verified
  <2>2. Meant(snap.arena, o)
    BY <1>0 DEF ArenaOK
  <2> HIDE DEF o
  <2>3. /\ Resolves(snap.arena, o.id) /\ o.id.idx \in Live(snap.arena)
        /\ At(snap.arena, o.id.idx).serial = o.serial
    BY <2>1, <2>2, MeantResolves
  <2> QED BY <2>3 DEF o
<1>3. RegionListsExact
  <2> SUFFICES ASSUME NEW a \in {snap.arena, work}, NEW region \in DOMAIN a.first
               PROVE  LET list == RegionList(a, region)
                      IN  /\ list = {IdAt(a, i) : i \in {j \in Live(a) : At(a, j).region = region}}
                          /\ list # {} => \E id \in list : At(a, id.idx).next = None
    BY DEF RegionListsExact
  <2>1. SlotsOK(a, serial) /\ ListsOK(a)
    BY <1>0 DEF ArenaOK
  <2>2. RegionList(a, region) = {IdAt(a, i) : i \in Members(a, region)}
    BY <1>0, <2>1, ListIsMembers
  <2>3. ASSUME RegionList(a, region) # {} PROVE \E id \in RegionList(a, region) : At(a, id.idx).next = None
    <3>1. Members(a, region) # {}
      BY <2>2, <2>3
    <3>2. PICK i \in Members(a, region) : At(a, i).next = None
      BY <1>0, <2>1, <3>1, ListEnds
    <3>3. IdAt(a, i) \in RegionList(a, region) /\ IdAt(a, i).idx = i
      BY <2>1, <2>2, IdFacts DEF Members
    <3> QED BY <3>2, <3>3
  <2> QED BY <2>2, <2>3 DEF Members
<1> QED BY <1>1, <1>2, <1>3 DEF ArenasSound

\* Whatever is inserted, removed, reused, committed or dropped, the published arena and the running pass's
\* clone keep the slots, generations and lists of StoreInv (arena.rs, snapshot.rs).
THEOREM StoreInvHolds == StoreSpec => []StoreInv
BY StoreInitInv, StoreNextInv, PTL DEF StoreSpec

\* Ids that clients hold never resolve to another node, operands name the nodes they were written for, and the
\* list of each region holds its live nodes and ends (IrArena::node, insert_node, remove_node, Verified).
THEOREM ArenasStaySound == StoreSpec => []ArenasSound
BY StoreInvHolds, StoreInvSound, PTL

\* A step that publishes a commit has taken its log.
LEMMA StepTakesWholeLog ==
  ASSUME StoreInv, [StoreNext]_store_vars, committed' # committed
  PROVE  /\ snap'.version = snap.version + 1
         /\ \A k \in DOMAIN committed' :
              LET e == committed'[k]
              IN  /\ e.kind = "remove" => ~Resolves(snap'.arena, e.node)
                  /\ e.kind = "setop" =>
                       \/ \E m \in (k + 1)..Len(committed') :
                            committed'[m].kind = "remove" /\ committed'[m].node = e.node
                       \/ Resolves(snap'.arena, e.node)
                          /\ At(snap'.arena, e.node.idx).op = "new"
<1>1. PICK e \in Edits, f \in Edits : Commit(<<e, f>>)
  BY DEF StoreNext, store_vars, BeginRewrite, NewRegion, EndRewrite, InsertNode, RemoveNode
<1> DEFINE a == apply_edits(snap.arena, <<e, f>>)
           log == <<e, f>>
<1>2. /\ a # Failed /\ snap' = [arena |-> a, version |-> snap.version + 1] /\ committed' = log
  BY <1>1 DEF Commit, PublishSnapshot
<1>3. ArenaOK(a, serial, held) /\ TakenUpTo(a, log, 2)
  BY <1>2, CommitArena
<1>4. Len(log) = 2 /\ DOMAIN log = 1..2
  OBVIOUS
<1> HIDE DEF a, log
<1>5. snap'.version = snap.version + 1 /\ snap'.arena = a
  BY <1>2
<1>6. SlotsOK(a, serial) /\ Len(a.nodes) \in Nat
  BY <1>3 DEF ArenaOK, SlotsOK, ArenaRec
<1>7. ASSUME NEW id, Gone(a, id) PROVE ~Resolves(a, id)
  <2>1. GenAt(a, id.idx) \in Nat /\ id.gen < GenAt(a, id.idx)
    BY <1>6, <1>7, IdFacts DEF Gone
  <2>2. id.gen # GenAt(a, id.idx)
    BY <2>1
  <2> QED BY <2>2 DEF Resolves, GenAt
<1>8. ASSUME NEW id, IsSet(a, id) PROVE Resolves(a, id) /\ At(a, id.idx).op = "new"
  <2>1. /\ id.idx \in NodeSlots(a) /\ id.gen = GenAt(a, id.idx) /\ At(a, id.idx).op = "new"
    BY <1>6, <1>8, IdFacts DEF IsSet
  <2>2. id.idx < Len(a.nodes)
    BY <1>6, <2>1 DEF NodeSlots
  <2> QED BY <2>1, <2>2 DEF Resolves, GenAt
<1>9. ASSUME NEW k \in 1..2
      PROVE  /\ log[k].kind = "remove" => ~Resolves(a, log[k].node)
             /\ log[k].kind = "setop" =>
                  \/ \E m \in (k + 1)..2 : log[m].kind = "remove" /\ log[m].node = log[k].node
                  \/ Resolves(a, log[k].node) /\ At(a, log[k].node.idx).op = "new"
  BY <1>3, <1>7, <1>8 DEF TakenUpTo
<1> QED BY <1>2, <1>4, <1>5, <1>9

\* A commit that is published took every edit of its log, in the next version: what it removes stays gone
\* through the later edits, and what it sets is set unless it is removed later (IrSnapshot::commit).
THEOREM CommitsTakeWholeLogs == StoreSpec => CommitTakesWholeLog
<1>1. StoreInv /\ [StoreNext]_store_vars =>
        [committed' # committed =>
           /\ snap'.version = snap.version + 1
           /\ \A k \in DOMAIN committed' :
                LET e == committed'[k]
                IN  /\ e.kind = "remove" => ~Resolves(snap'.arena, e.node)
                    /\ e.kind = "setop" =>
                         \/ \E m \in (k + 1)..Len(committed') :
                              committed'[m].kind = "remove" /\ committed'[m].node = e.node
                         \/ Resolves(snap'.arena, e.node)
                            /\ At(snap'.arena, e.node.idx).op = "new"]_store_vars
  BY StepTakesWholeLog
<1> QED BY <1>1, StoreInvHolds, PTL DEF StoreSpec, CommitTakesWholeLog

-----------------------------------------------------------------------------
(* Dominance: the regions around a region *)

\* The parents of regions: a parent stands before its children.
Parents(q) == q \in Seq(Nat) /\ \A s \in DOMAIN q : q[s] < s

\* A set of regions with the parents of each.
RegionClosed(q, S) == S \subseteq DOMAIN q /\ \A z \in S : q[z] # NoRegion => q[z] \in S

\* Enclosing, for any parents, and the number of regions around a region.
Encl(q, r) ==
  {s \in DOMAIN q : \A S \in SUBSET DOMAIN q :
     r \in S /\ (\A z \in S : q[z] # NoRegion => q[z] \in S) => s \in S}
Deep(q, r) == Cardinality(Encl(q, r)) - 1

\* Regions are numbers from 1, and so are parents.
LEMMA ParentFacts ==
  ASSUME NEW q, Parents(q)
  PROVE  /\ DOMAIN q = 1..Len(q) /\ Len(q) \in Nat /\ DOMAIN q \subseteq Nat /\ NoRegion \notin DOMAIN q
         /\ \A s \in DOMAIN q : q[s] \in Nat /\ q[s] < s /\ (q[s] # NoRegion => q[s] \in DOMAIN q)
         /\ \A s \in DOMAIN q : \A r \in Nat : 1 <= r /\ r <= s => r \in DOMAIN q
BY DEF Parents, NoRegion

\* The enclosing regions are the least closed set.
LEMMA EnclLeast ==
  ASSUME NEW q, Parents(q), NEW r \in DOMAIN q
  PROVE  /\ r \in Encl(q, r) /\ RegionClosed(q, Encl(q, r))
         /\ \A S : r \in S /\ RegionClosed(q, S) => Encl(q, r) \subseteq S
<1>1. r \in Encl(q, r) /\ Encl(q, r) \subseteq DOMAIN q
  BY DEF Encl
<1>2. ASSUME NEW z \in Encl(q, r), q[z] # NoRegion PROVE q[z] \in Encl(q, r)
  <2>1. z \in DOMAIN q /\ q[z] \in DOMAIN q
    BY <1>1, <1>2, ParentFacts
  <2> QED BY <1>2, <2>1 DEF Encl
<1>3. ASSUME NEW S, r \in S, RegionClosed(q, S) PROVE Encl(q, r) \subseteq S
  BY <1>3 DEF Encl, RegionClosed
<1> QED BY <1>1, <1>2, <1>3 DEF RegionClosed

\* They are not later regions.
LEMMA EnclBelow ==
  ASSUME NEW q, Parents(q), NEW r \in DOMAIN q
  PROVE  Encl(q, r) \subseteq 1..r
<1> DEFINE S == {s \in DOMAIN q : s <= r}
<1>1. r \in S /\ S \subseteq 1..r
  BY ParentFacts
<1>2. RegionClosed(q, S)
  <2>1. ASSUME NEW z \in S, q[z] # NoRegion PROVE q[z] \in S
    <3>1. z \in Nat /\ r \in Nat /\ q[z] \in Nat /\ q[z] < z /\ z <= r /\ q[z] \in DOMAIN q
      BY <2>1, ParentFacts
    <3> QED BY <3>1
  <2> QED BY <2>1 DEF RegionClosed
<1> HIDE DEF S
<1> QED BY <1>1, <1>2, EnclLeast

\* Around a region are itself and what is around its parent.
LEMMA EnclStep ==
  ASSUME NEW q, Parents(q), NEW r \in DOMAIN q
  PROVE  /\ q[r] = NoRegion => Encl(q, r) = {r}
         /\ q[r] # NoRegion => Encl(q, r) = Encl(q, q[r]) \cup {r} /\ r \notin Encl(q, q[r])
<1>1. r \in Encl(q, r) /\ RegionClosed(q, Encl(q, r)) /\ (\A S : r \in S /\ RegionClosed(q, S) => Encl(q, r) \subseteq S)
  BY EnclLeast
<1>2. CASE q[r] = NoRegion
  <2>1. RegionClosed(q, {r})
    BY <1>2 DEF RegionClosed
  <2> QED BY <1>1, <1>2, <2>1
<1>3. CASE q[r] # NoRegion
  <2> DEFINE p == q[r]
  <2>1. p \in DOMAIN q /\ p \in Nat /\ r \in Nat /\ p < r
    BY <1>3, ParentFacts
  <2> HIDE DEF p
  <2>2. p \in Encl(q, p) /\ RegionClosed(q, Encl(q, p)) /\ \A S : p \in S /\ RegionClosed(q, S) => Encl(q, p) \subseteq S
    BY <2>1, EnclLeast
  <2>3. r \in Encl(q, p) \cup {r} /\ RegionClosed(q, Encl(q, p) \cup {r})
    BY <2>2 DEF RegionClosed, p
  <2>4. p \in Encl(q, r)
    BY <1>1, <1>3 DEF RegionClosed, p
  <2>5. Encl(q, r) = Encl(q, p) \cup {r}
    BY <1>1, <2>2, <2>3, <2>4
  <2>6. r \notin Encl(q, p)
    <3>1. Encl(q, p) \subseteq 1..p
      BY <2>1, EnclBelow
    <3> QED BY <2>1, <3>1
  <2> QED BY <1>3, <2>5, <2>6 DEF p
<1> QED BY <1>2, <1>3

\* A region is one deeper than its parent, and less deep than its number.
LEMMA DeepStep ==
  ASSUME NEW q, Parents(q), NEW r \in DOMAIN q
  PROVE  /\ Deep(q, r) \in Nat /\ Deep(q, r) < r /\ Cardinality(Encl(q, r)) = Deep(q, r) + 1
         /\ q[r] = NoRegion => Deep(q, r) = 0
         /\ q[r] # NoRegion => Deep(q, r) = Deep(q, q[r]) + 1
<1>1. \A x \in DOMAIN q : /\ IsFiniteSet(Encl(q, x)) /\ Cardinality(Encl(q, x)) \in Nat /\ Cardinality(Encl(q, x)) <= x
                          /\ Cardinality(Encl(q, x)) # 0 /\ x \in Nat
  <2> TAKE x \in DOMAIN q
  <2>1. x \in Nat /\ Encl(q, x) \subseteq 1..x /\ x \in Encl(q, x)
    BY ParentFacts, EnclBelow, EnclLeast
  <2>2. IsFiniteSet(1..x) /\ Cardinality(1..x) = x
    BY <2>1, FS_Interval
  <2>3. IsFiniteSet(Encl(q, x)) /\ Cardinality(Encl(q, x)) <= Cardinality(1..x)
    BY <2>1, <2>2, FS_Subset
  <2>4. Cardinality(Encl(q, x)) \in Nat /\ Cardinality(Encl(q, x)) # 0
    BY <2>1, <2>3, FS_CardinalityType, FS_EmptySet
  <2> QED BY <2>1, <2>2, <2>3, <2>4
<1>2. \A x \in DOMAIN q : Deep(q, x) \in Nat /\ Deep(q, x) < x /\ Cardinality(Encl(q, x)) = Deep(q, x) + 1
  BY <1>1 DEF Deep
<1>3. ASSUME q[r] = NoRegion PROVE Deep(q, r) = 0
  <2>1. Encl(q, r) = {r}
    BY <1>3, EnclStep
  <2>2. Cardinality({r}) = 1
    BY FS_Singleton
  <2>3. Cardinality(Encl(q, r)) = 1
    BY <2>1, <2>2
  <2> QED BY <2>3 DEF Deep
<1>4. ASSUME q[r] # NoRegion PROVE Deep(q, r) = Deep(q, q[r]) + 1
  <2>1. q[r] \in DOMAIN q /\ Encl(q, r) = Encl(q, q[r]) \cup {r} /\ r \notin Encl(q, q[r])
    BY <1>4, EnclStep, ParentFacts
  <2>2. Cardinality(Encl(q, r)) = Cardinality(Encl(q, q[r])) + 1
    BY <1>1, <2>1, FS_AddElement
  <2> QED BY <1>2, <2>1, <2>2
<1> QED BY <1>2, <1>3, <1>4

\* Regions that are added later are around none of the earlier ones.
LEMMA EnclPrefix ==
  ASSUME NEW q, NEW t, Parents(q), Parents(t), DOMAIN q \subseteq DOMAIN t, \A s \in DOMAIN q : t[s] = q[s],
         NEW r \in DOMAIN q
  PROVE  Encl(t, r) = Encl(q, r)
<1>1. r \in DOMAIN t
  OBVIOUS
<1>2. r \in Encl(q, r) /\ RegionClosed(q, Encl(q, r)) /\ r \in Encl(t, r) /\ RegionClosed(t, Encl(t, r))
  BY <1>1, EnclLeast
<1>3. Encl(t, r) \subseteq DOMAIN q
  <2>1. Encl(t, r) \subseteq 1..r
    BY <1>1, EnclBelow
  <2>2. 1..r \subseteq DOMAIN q
    BY ParentFacts
  <2> QED BY <2>1, <2>2
<1>4. RegionClosed(t, Encl(q, r)) /\ RegionClosed(q, Encl(t, r))
  BY <1>2, <1>3 DEF RegionClosed
<1>5. Encl(t, r) \subseteq Encl(q, r)
  BY <1>1, <1>2, <1>4, EnclLeast
<1>6. Encl(q, r) \subseteq Encl(t, r)
  BY <1>2, <1>4, EnclLeast
<1> QED BY <1>5, <1>6

\* What encloses an enclosing region encloses.
LEMMA EnclTransitive ==
  ASSUME NEW q, Parents(q), NEW a \in DOMAIN q, NEW b \in DOMAIN q, NEW c \in DOMAIN q, a \in Encl(q, b), b \in Encl(q, c)
  PROVE  a \in Encl(q, c)
<1>1. RegionClosed(q, Encl(q, c))
  BY EnclLeast
<1> QED BY <1>1, EnclLeast

-----------------------------------------------------------------------------
(* Steps to the parent *)

UpStep(q, x) == IF x = NoRegion THEN NoRegion ELSE q[x]
Climbs(f, q, b, n) == f = [i \in 0..n |-> IF i = 0 THEN b ELSE UpStep(q, f[i - 1])]

\* Any number of steps can be taken.
LEMMA ClimbsExist ==
  ASSUME NEW q, NEW b, NEW n \in Nat
  PROVE  \E f : Climbs(f, q, b, n)
<1> DEFINE S == {m \in Nat : \E f : Climbs(f, q, b, m)}
<1>1. 0 \in S
  <2> DEFINE z == [k \in 0..0 |-> b]
  <2>1. \A k \in 0..0 : k = 0
    OBVIOUS
  <2>2. Climbs(z, q, b, 0)
    BY <2>1 DEF Climbs
  <2> QED BY <2>2
<1>2. ASSUME NEW m \in Nat, m \in S PROVE m + 1 \in S
  <2>1. PICK f : Climbs(f, q, b, m)
    BY <1>2
  <2> DEFINE g == [k \in 0..(m + 1) |-> IF k = m + 1 THEN UpStep(q, f[m]) ELSE f[k]]
  <2>2. ASSUME NEW k \in 0..(m + 1) PROVE g[k] = IF k = 0 THEN b ELSE UpStep(q, g[k - 1])
    <3>1. CASE k = m + 1
      <4>1. k # 0 /\ k - 1 = m /\ m \in 0..(m + 1) /\ m # m + 1
        BY <3>1
      <4>2. g[k] = UpStep(q, f[m]) /\ g[m] = f[m]
        BY <3>1, <4>1
      <4> QED BY <3>1, <4>1, <4>2
    <3>2. CASE k # m + 1
      <4>1. k \in 0..m /\ g[k] = f[k]
        BY <3>2
      <4>2. f[k] = IF k = 0 THEN b ELSE UpStep(q, f[k - 1])
        BY <2>1, <4>1 DEF Climbs
      <4>3. k # 0 => g[k - 1] = f[k - 1]
        BY <4>1
      <4> HIDE DEF g
      <4> QED BY <4>1, <4>2, <4>3
    <3> QED BY <3>1, <3>2
  <2>3. g = [k \in 0..(m + 1) |-> g[k]]
    OBVIOUS
  <2> HIDE DEF g
  <2>4. Climbs(g, q, b, m + 1)
    BY <2>2, <2>3 DEF Climbs
  <2> QED BY <2>4
<1> HIDE DEF S
<1>3. n \in S
  BY <1>1, <1>2, SetInduction
<1> QED BY <1>3 DEF S

\* Up is the last of the steps, for every number of them.
LEMMA UpIs ==
  ASSUME NEW q, NEW b
  PROVE  Up(q, b, 0) = b /\ \A n \in Nat : Up(q, b, n + 1) = UpStep(q, Up(q, b, n))
<1> DEFINE F(n) == CHOOSE f : Climbs(f, q, b, n)
<1>1. \A n \in Nat : Climbs(F(n), q, b, n)
  BY ClimbsExist
<1>2. \A n : Up(q, b, n) = F(n)[n]
  BY Zenon DEF Up, Climbs, UpStep
<1> HIDE DEF F
<1>3. ASSUME NEW n \in Nat PROVE \A k \in 0..n : F(n)[k] = IF k = 0 THEN b ELSE UpStep(q, F(n)[k - 1])
  <2>1. Climbs(F(n), q, b, n)
    BY <1>1
  <2> DEFINE g == F(n)
  <2> HIDE DEF g
  <2>2. g = [i \in 0..n |-> IF i = 0 THEN b ELSE UpStep(q, g[i - 1])]
    BY <2>1 DEF g, Climbs
  <2>3. \A k \in 0..n : g[k] = IF k = 0 THEN b ELSE UpStep(q, g[k - 1])
    BY <2>2
  <2> QED BY <2>3 DEF g
<1>4. \A n, m \in Nat : n <= m => F(m)[n] = F(n)[n]
  <2> SUFFICES ASSUME NEW n \in Nat, NEW m \in Nat, n <= m PROVE F(m)[n] = F(n)[n]
    OBVIOUS
  <2> DEFINE S == {k \in Nat : k <= n => F(m)[k] = F(n)[k]}
  <2>1. 0 \in S
    BY <1>3
  <2>2. ASSUME NEW k \in Nat, k \in S PROVE k + 1 \in S
    <3> SUFFICES ASSUME k + 1 <= n PROVE F(m)[k + 1] = F(n)[k + 1]
      OBVIOUS
    <3>1. k <= n /\ k + 1 \in 0..n /\ k + 1 \in 0..m /\ (k + 1) - 1 = k /\ k + 1 # 0
      OBVIOUS
    <3>2. F(m)[k + 1] = UpStep(q, F(m)[k]) /\ F(n)[k + 1] = UpStep(q, F(n)[k])
      BY <1>3, <3>1
    <3> QED BY <2>2, <3>1, <3>2
  <2> HIDE DEF S
  <2>3. n \in S
    BY <2>1, <2>2, SetInduction
  <2> QED BY <2>3 DEF S
<1>5. ASSUME NEW n \in Nat PROVE Up(q, b, n + 1) = UpStep(q, Up(q, b, n))
  <2>1. n + 1 \in Nat /\ n + 1 \in 0..(n + 1) /\ (n + 1) - 1 = n /\ n + 1 # 0 /\ n <= n + 1
    OBVIOUS
  <2>2. F(n + 1)[n + 1] = UpStep(q, F(n + 1)[n])
    BY <1>3, <2>1
  <2>3. F(n + 1)[n] = F(n)[n]
    BY <1>4, <2>1
  <2> QED BY <1>2, <2>2, <2>3
<1>6. Up(q, b, 0) = b
  <2>1. F(0)[0] = b
    BY <1>3
  <2> QED BY <1>2, <2>1
<1> QED BY <1>5, <1>6

\* Each step goes to an enclosing region, one less deep, as long as there is one.
LEMMA UpEncloses ==
  ASSUME NEW q, Parents(q), NEW b \in DOMAIN q, NEW k \in Nat
  PROVE  /\ Up(q, b, k) = NoRegion \/ Up(q, b, k) \in Encl(q, b)
         /\ k <= Deep(q, b) => Up(q, b, k) \in Encl(q, b) /\ Deep(q, Up(q, b, k)) = Deep(q, b) - k
<1> DEFINE S == {m \in Nat :
                   /\ Up(q, b, m) = NoRegion \/ Up(q, b, m) \in Encl(q, b)
                   /\ m <= Deep(q, b) => Up(q, b, m) \in Encl(q, b) /\ Deep(q, Up(q, b, m)) = Deep(q, b) - m}
<1>0. Deep(q, b) \in Nat /\ b \in Encl(q, b) /\ RegionClosed(q, Encl(q, b))
  BY DeepStep, EnclLeast
<1>1. 0 \in S
  <2>1. Up(q, b, 0) = b
    BY UpIs
  <2> QED BY <1>0, <2>1
<1>2. ASSUME NEW m \in Nat, m \in S PROVE m + 1 \in S
  <2> DEFINE x == Up(q, b, m)
             y == Up(q, b, m + 1)
  <2>1. y = UpStep(q, x)
    BY UpIs
  <2>2. /\ x = NoRegion \/ x \in Encl(q, b)
        /\ m <= Deep(q, b) => x \in Encl(q, b) /\ Deep(q, x) = Deep(q, b) - m
    BY <1>2
  <2> HIDE DEF x, y
  <2>3. y = NoRegion \/ y \in Encl(q, b)
    BY <1>0, <2>1, <2>2 DEF RegionClosed, UpStep
  <2>4. ASSUME m + 1 <= Deep(q, b) PROVE y \in Encl(q, b) /\ Deep(q, y) = Deep(q, b) - (m + 1)
    <3>1. m <= Deep(q, b)
      BY <1>0, <2>4
    <3>2. x \in Encl(q, b) /\ Deep(q, x) = Deep(q, b) - m /\ x \in DOMAIN q /\ x # NoRegion
      BY <1>0, <2>2, <3>1, ParentFacts DEF RegionClosed
    <3>3. Deep(q, x) # 0
      BY <1>0, <2>4, <3>2
    <3>4. q[x] # NoRegion /\ Deep(q, x) = Deep(q, q[x]) + 1 /\ q[x] \in DOMAIN q
      BY <3>2, <3>3, DeepStep, ParentFacts
    <3>5. y = q[x] /\ y \in Encl(q, b) /\ Deep(q, y) \in Nat
      BY <1>0, <2>1, <3>2, <3>4, DeepStep DEF RegionClosed, UpStep
    <3>6. Deep(q, y) + 1 = Deep(q, b) - m
      BY <3>2, <3>4, <3>5
    <3> QED BY <1>0, <3>5, <3>6
  <2> QED BY <2>3, <2>4 DEF y
<1> HIDE DEF S
<1>3. k \in S
  BY <1>1, <1>2, SetInduction
<1> QED BY <1>3 DEF S

\* A region encloses another exactly when it is as many steps up as it is less deep.
LEMMA EnclIsUp ==
  ASSUME NEW q, Parents(q), NEW a \in DOMAIN q, NEW b \in DOMAIN q
  PROVE  a \in Encl(q, b) <=> Deep(q, a) <= Deep(q, b) /\ Up(q, b, Deep(q, b) - Deep(q, a)) = a
<1>0. Deep(q, a) \in Nat /\ Deep(q, b) \in Nat /\ a # NoRegion
  BY DeepStep, ParentFacts
<1>1. ASSUME Deep(q, a) <= Deep(q, b), Up(q, b, Deep(q, b) - Deep(q, a)) = a PROVE a \in Encl(q, b)
  <2>1. Deep(q, b) - Deep(q, a) \in Nat
    BY <1>0, <1>1
  <2> QED BY <1>0, <1>1, <2>1, UpEncloses
<1>2. ASSUME a \in Encl(q, b) PROVE Deep(q, a) <= Deep(q, b) /\ Up(q, b, Deep(q, b) - Deep(q, a)) = a
  <2> DEFINE S == {Up(q, b, k) : k \in 0..Deep(q, b)}
  <2>1. b \in S
    <3>1. 0 \in 0..Deep(q, b) /\ Up(q, b, 0) = b
      BY <1>0, UpIs
    <3> QED BY <3>1
  <2>2. \A k \in 0..Deep(q, b) :
          /\ k \in Nat /\ k <= Deep(q, b)
          /\ Up(q, b, k) \in Encl(q, b) /\ Up(q, b, k) \in DOMAIN q /\ Deep(q, Up(q, b, k)) = Deep(q, b) - k
    <3> TAKE k \in 0..Deep(q, b)
    <3>1. k \in Nat /\ k <= Deep(q, b)
      BY <1>0
    <3>2. Up(q, b, k) \in Encl(q, b) /\ Deep(q, Up(q, b, k)) = Deep(q, b) - k
      BY <3>1, UpEncloses
    <3>3. RegionClosed(q, Encl(q, b))
      BY EnclLeast
    <3> QED BY <3>1, <3>2, <3>3 DEF RegionClosed
  <2>3. ASSUME NEW z \in S, q[z] # NoRegion PROVE q[z] \in S
    <3>1. PICK k \in 0..Deep(q, b) : z = Up(q, b, k)
      BY <2>3
    <3>2. z \in DOMAIN q /\ k \in Nat /\ Deep(q, z) = Deep(q, b) - k
      BY <2>2, <3>1
    <3>3. Deep(q, z) = Deep(q, q[z]) + 1 /\ q[z] \in DOMAIN q /\ Deep(q, q[z]) \in Nat
      BY <2>3, <3>2, DeepStep, ParentFacts
    <3>4. k + 1 \in 0..Deep(q, b)
      BY <1>0, <3>2, <3>3
    <3>5. Up(q, b, k + 1) = q[z]
      <4>1. z # NoRegion
        BY <3>2, ParentFacts
      <4>2. Up(q, b, k + 1) = UpStep(q, Up(q, b, k))
        BY <3>2, UpIs
      <4> QED BY <3>1, <4>1, <4>2 DEF UpStep
    <3> QED BY <3>4, <3>5
  <2>4. RegionClosed(q, S)
    BY <2>2, <2>3 DEF RegionClosed
  <2>5. a \in S
    <3> HIDE DEF S
    <3> QED BY <1>2, <2>1, <2>4, EnclLeast
  <2>6. PICK k \in 0..Deep(q, b) : a = Up(q, b, k)
    BY <2>5
  <2>7. k \in Nat /\ k <= Deep(q, b) /\ Deep(q, a) = Deep(q, b) - k
    BY <2>2, <2>6
  <2>8. Deep(q, a) <= Deep(q, b) /\ Deep(q, b) - Deep(q, a) = k
    BY <1>0, <2>7
  <2> QED BY <2>6, <2>8
<1> QED BY <1>1, <1>2

-----------------------------------------------------------------------------
(* The tree that build makes *)

\* The depth it finds: the number of regions around, as far as that is a depth.
Found(q, s) == IF Deep(q, s) < Unvisited THEN Deep(q, s) ELSE Unvisited

\* A tree of which the first m slots have their depth, and the others have it or none.
TreeSeen(t, m) ==
  /\ t \in [depths : [DOMAIN parent_of -> Nat], parents : {parent_of}]
  /\ \A s \in DOMAIN parent_of : /\ t.depths[s] \in {Unvisited, Found(parent_of, s)}
                                 /\ s <= m => t.depths[s] = Found(parent_of, s)

\* A visit finds the depth of its slot.
LEMMA VisitSeen ==
  ASSUME Parents(parent_of), NEW t, NEW m \in Nat, m + 1 \in DOMAIN parent_of, TreeSeen(t, m)
  PROVE  TreeSeen(Visit(t, m + 1), m + 1)
<1> DEFINE x == m + 1
           p == parent_of[x]
           Deepened(v) == [t EXCEPT !.depths[x] = v]
<1>1. Unvisited \in Nat /\ x \in Nat /\ x \in DOMAIN parent_of
  BY DominanceAssumption
<1>2. /\ t \in [depths : [DOMAIN parent_of -> Nat], parents : {parent_of}]
      /\ \A s \in DOMAIN parent_of : /\ t.depths[s] \in {Unvisited, Found(parent_of, s)}
                                     /\ s <= m => t.depths[s] = Found(parent_of, s)
  BY DEF TreeSeen
<1>3. \A s \in DOMAIN parent_of : s \in Nat /\ (s <= x => s <= m \/ s = x)
  BY <1>1, ParentFacts
<1>4. /\ Deep(parent_of, x) \in Nat /\ p \in Nat /\ p < x
      /\ p = NoRegion => Deep(parent_of, x) = 0
      /\ p # NoRegion => p \in DOMAIN parent_of /\ Deep(parent_of, p) \in Nat /\ Deep(parent_of, x) = Deep(parent_of, p) + 1
  BY <1>1, ParentFacts, DeepStep
<1>5. p # NoRegion => t.depths[p] = Found(parent_of, p)
  <2>1. p <= m
    BY <1>4
  <2> QED BY <1>2, <1>4, <2>1
<1>6. Visit(t, x) =
        IF t.depths[x] # Unvisited THEN t
        ELSE IF p = NoRegion THEN Deepened(0)
        ELSE IF t.depths[p] # Unvisited THEN Deepened(SaturatingSucc(t.depths[p]))
        ELSE t
  BY DEF Visit
<1> HIDE DEF x, p
<1>7. ASSUME t.depths[x] = Found(parent_of, x) PROVE TreeSeen(t, x)
  BY <1>2, <1>3, <1>7 DEF TreeSeen
<1>8. ASSUME NEW v \in Nat, v = Found(parent_of, x) PROVE TreeSeen(Deepened(v), x)
  <2> DEFINE u == Deepened(v)
             d == [t.depths EXCEPT ![x] = v]
  <2>1. u = [depths |-> d, parents |-> t.parents]
    BY <1>2
  <2>2. d \in [DOMAIN parent_of -> Nat] /\ d[x] = v /\ \A s \in DOMAIN parent_of : s # x => d[s] = t.depths[s]
    BY <1>1, <1>2, <1>8
  <2> HIDE DEF d, u
  <2>3. u \in [depths : [DOMAIN parent_of -> Nat], parents : {parent_of}] /\ u.depths = d
    BY <1>2, <2>1, <2>2
  <2>4. ASSUME NEW s \in DOMAIN parent_of
        PROVE  u.depths[s] \in {Unvisited, Found(parent_of, s)} /\ (s <= x => u.depths[s] = Found(parent_of, s))
    <3>1. CASE s = x
      BY <1>8, <2>2, <2>3, <3>1
    <3>2. CASE s # x
      BY <1>2, <1>3, <2>2, <2>3, <3>2
    <3> QED BY <3>1, <3>2
  <2>5. TreeSeen(u, x)
    BY <2>3, <2>4 DEF TreeSeen
  <2> QED BY <2>5 DEF u
<1> HIDE DEF Deepened
<1>9. CASE t.depths[x] # Unvisited
  <2>1. t.depths[x] = Found(parent_of, x)
    BY <1>1, <1>2, <1>9
  <2> QED BY <1>6, <1>7, <1>9, <2>1 DEF x
<1>10. CASE t.depths[x] = Unvisited /\ p = NoRegion
  <2>1. Found(parent_of, x) = 0
    <3>1. Deep(parent_of, x) = 0
      BY <1>4, <1>10
    <3> QED BY <1>1, <3>1 DEF Found
  <2> QED BY <1>6, <1>8, <1>10, <2>1 DEF x
<1>11. CASE t.depths[x] = Unvisited /\ p # NoRegion /\ t.depths[p] # Unvisited
  <2>1. Deep(parent_of, p) < Unvisited /\ t.depths[p] = Deep(parent_of, p)
    BY <1>1, <1>4, <1>5, <1>11 DEF Found
  <2>2. SaturatingSucc(t.depths[p]) = Deep(parent_of, p) + 1
    BY <1>11, <2>1 DEF SaturatingSucc
  <2>3. Found(parent_of, x) = Deep(parent_of, p) + 1
    BY <1>1, <1>4, <1>11, <2>1 DEF Found
  <2>4. SaturatingSucc(t.depths[p]) \in Nat
    BY <1>4, <1>11, <2>2
  <2> QED BY <1>6, <1>8, <1>11, <2>2, <2>3, <2>4 DEF x
<1>12. CASE t.depths[x] = Unvisited /\ p # NoRegion /\ t.depths[p] = Unvisited
  <2>1. ~(Deep(parent_of, p) < Unvisited)
    BY <1>1, <1>4, <1>5, <1>12 DEF Found
  <2>2. ~(Deep(parent_of, x) < Unvisited)
    BY <1>1, <1>4, <1>12, <2>1
  <2>3. t.depths[x] = Found(parent_of, x)
    BY <1>12, <2>2 DEF Found
  <2> QED BY <1>6, <1>7, <1>12, <2>3 DEF x
<1> QED BY <1>9, <1>10, <1>11, <1>12

\* The trees within a round, and between the rounds.
Visits(f, t, n) == f = [s \in 0..n |-> IF s = 0 THEN t ELSE Visit(f[s - 1], s)]
Rounds(f, t, n) == f = [s \in 0..n |-> IF s = 0 THEN t ELSE Round(f[s - 1])]

\* A round visits every slot.
LEMMA VisitsExist ==
  ASSUME NEW t, NEW n \in Nat
  PROVE  \E f : Visits(f, t, n)
<1> DEFINE S == {m \in Nat : \E f : Visits(f, t, m)}
<1>1. 0 \in S
  <2> DEFINE z == [k \in 0..0 |-> t]
  <2>1. \A k \in 0..0 : k = 0
    OBVIOUS
  <2>2. Visits(z, t, 0)
    BY <2>1 DEF Visits
  <2> QED BY <2>2
<1>2. ASSUME NEW m \in Nat, m \in S PROVE m + 1 \in S
  <2>1. PICK f : Visits(f, t, m)
    BY <1>2
  <2> DEFINE g == [k \in 0..(m + 1) |-> IF k = m + 1 THEN Visit(f[m], m + 1) ELSE f[k]]
  <2>2. ASSUME NEW k \in 0..(m + 1) PROVE g[k] = IF k = 0 THEN t ELSE Visit(g[k - 1], k)
    <3>1. CASE k = m + 1
      <4>1. k # 0 /\ k - 1 = m /\ m \in 0..(m + 1) /\ m # m + 1
        BY <3>1
      <4>2. g[k] = Visit(f[m], m + 1) /\ g[m] = f[m]
        BY <3>1, <4>1
      <4> QED BY <3>1, <4>1, <4>2
    <3>2. CASE k # m + 1
      <4>1. k \in 0..m /\ g[k] = f[k]
        BY <3>2
      <4>2. f[k] = IF k = 0 THEN t ELSE Visit(f[k - 1], k)
        BY <2>1, <4>1 DEF Visits
      <4>3. k # 0 => g[k - 1] = f[k - 1]
        BY <4>1
      <4> HIDE DEF g
      <4> QED BY <4>1, <4>2, <4>3
    <3> QED BY <3>1, <3>2
  <2>3. g = [k \in 0..(m + 1) |-> g[k]]
    OBVIOUS
  <2> HIDE DEF g
  <2>4. Visits(g, t, m + 1)
    BY <2>2, <2>3 DEF Visits
  <2> QED BY <2>4
<1> HIDE DEF S
<1>3. n \in S
  BY <1>1, <1>2, SetInduction
<1> QED BY <1>3 DEF S

\* Since parents stand first, one round finds every depth.
LEMMA RoundSeen ==
  ASSUME Parents(parent_of), NEW t, TreeSeen(t, 0)
  PROVE  TreeSeen(Round(t), Len(parent_of))
<1> DEFINE F == CHOOSE f : Visits(f, t, Len(parent_of))
<1>1. Len(parent_of) \in Nat /\ DOMAIN parent_of = 1..Len(parent_of)
  BY ParentFacts
<1>2. Visits(F, t, Len(parent_of))
  BY <1>1, VisitsExist
<1>3. Round(t) = F[Len(parent_of)]
  BY Zenon DEF Round, Visits
<1> HIDE DEF F
<1>4. \A s \in 0..Len(parent_of) : F[s] = IF s = 0 THEN t ELSE Visit(F[s - 1], s)
  BY <1>2 DEF Visits
<1> DEFINE S == {m \in Nat : m <= Len(parent_of) => TreeSeen(F[m], m)}
<1>5. 0 \in S
  BY <1>1, <1>4
<1>6. ASSUME NEW m \in Nat, m \in S PROVE m + 1 \in S
  <2> SUFFICES ASSUME m + 1 <= Len(parent_of) PROVE TreeSeen(F[m + 1], m + 1)
    OBVIOUS
  <2>1. m <= Len(parent_of) /\ m + 1 \in DOMAIN parent_of /\ m + 1 \in 0..Len(parent_of) /\ m + 1 # 0 /\ (m + 1) - 1 = m
    BY <1>1
  <2>2. F[m + 1] = Visit(F[m], m + 1) /\ TreeSeen(F[m], m)
    BY <1>4, <1>6, <2>1
  <2> QED BY <2>1, <2>2, VisitSeen
<1> HIDE DEF S
<1>7. Len(parent_of) \in S
  BY <1>1, <1>5, <1>6, SetInduction
<1> QED BY <1>1, <1>3, <1>7 DEF S

\* build makes as many rounds as there are regions.
LEMMA RoundsExist ==
  ASSUME NEW t, NEW n \in Nat
  PROVE  \E f : Rounds(f, t, n)
<1> DEFINE S == {m \in Nat : \E f : Rounds(f, t, m)}
<1>1. 0 \in S
  <2> DEFINE z == [k \in 0..0 |-> t]
  <2>1. \A k \in 0..0 : k = 0
    OBVIOUS
  <2>2. Rounds(z, t, 0)
    BY <2>1 DEF Rounds
  <2> QED BY <2>2
<1>2. ASSUME NEW m \in Nat, m \in S PROVE m + 1 \in S
  <2>1. PICK f : Rounds(f, t, m)
    BY <1>2
  <2> DEFINE g == [k \in 0..(m + 1) |-> IF k = m + 1 THEN Round(f[m]) ELSE f[k]]
  <2>2. ASSUME NEW k \in 0..(m + 1) PROVE g[k] = IF k = 0 THEN t ELSE Round(g[k - 1])
    <3>1. CASE k = m + 1
      <4>1. k # 0 /\ k - 1 = m /\ m \in 0..(m + 1) /\ m # m + 1
        BY <3>1
      <4>2. g[k] = Round(f[m]) /\ g[m] = f[m]
        BY <3>1, <4>1
      <4> QED BY <3>1, <4>1, <4>2
    <3>2. CASE k # m + 1
      <4>1. k \in 0..m /\ g[k] = f[k]
        BY <3>2
      <4>2. f[k] = IF k = 0 THEN t ELSE Round(f[k - 1])
        BY <2>1, <4>1 DEF Rounds
      <4>3. k # 0 => g[k - 1] = f[k - 1]
        BY <4>1
      <4> HIDE DEF g
      <4> QED BY <4>1, <4>2, <4>3
    <3> QED BY <3>1, <3>2
  <2>3. g = [k \in 0..(m + 1) |-> g[k]]
    OBVIOUS
  <2> HIDE DEF g
  <2>4. Rounds(g, t, m + 1)
    BY <2>2, <2>3 DEF Rounds
  <2> QED BY <2>4
<1> HIDE DEF S
<1>3. n \in S
  BY <1>1, <1>2, SetInduction
<1> QED BY <1>3 DEF S

\* The tree that build makes has the depth of every region.
LEMMA BuildSeen ==
  ASSUME Parents(parent_of), Len(parent_of) # 0, parent_of[1] = NoRegion
  PROVE  TreeSeen(Build, Len(parent_of))
<1> DEFINE start == [depths |-> [s \in DOMAIN parent_of |-> IF s = 1 THEN 0 ELSE Unvisited], parents |-> parent_of]
           F == CHOOSE f : Rounds(f, start, Len(parent_of))
<1>1. Len(parent_of) \in Nat /\ DOMAIN parent_of = 1..Len(parent_of) /\ 1 \in DOMAIN parent_of /\ Unvisited \in Nat
  BY ParentFacts, DominanceAssumption
<1>2. Rounds(F, start, Len(parent_of))
  BY <1>1, RoundsExist
<1>3. Build = F[Len(parent_of)]
  BY Zenon DEF Build, Rounds
<1>4. TreeSeen(start, 0)
  <2>1. Found(parent_of, 1) = 0
    <3>1. Deep(parent_of, 1) = 0
      BY <1>1, DeepStep
    <3> QED BY <1>1, <3>1 DEF Found
  <2>2. start \in [depths : [DOMAIN parent_of -> Nat], parents : {parent_of}]
    BY <1>1
  <2>3. \A s \in DOMAIN parent_of : start.depths[s] = IF s = 1 THEN 0 ELSE Unvisited
    OBVIOUS
  <2> HIDE DEF start
  <2>4. \A s \in DOMAIN parent_of : s \in Nat /\ ~(s <= 0)
    BY <1>1
  <2> QED BY <2>1, <2>2, <2>3, <2>4 DEF TreeSeen
<1> HIDE DEF F, start
<1>5. \A s \in 0..Len(parent_of) : F[s] = IF s = 0 THEN start ELSE Round(F[s - 1])
  BY <1>2 DEF Rounds
<1>6. \A t : TreeSeen(t, Len(parent_of)) => TreeSeen(t, 0)
  <2>1. \A s \in DOMAIN parent_of : s \in Nat /\ s <= Len(parent_of)
    BY <1>1
  <2> QED BY <2>1 DEF TreeSeen
<1> DEFINE S == {m \in Nat : m <= Len(parent_of) => TreeSeen(F[m], 0) /\ (m # 0 => TreeSeen(F[m], Len(parent_of)))}
<1>7. 0 \in S
  BY <1>1, <1>4, <1>5
<1>8. ASSUME NEW m \in Nat, m \in S PROVE m + 1 \in S
  <2> SUFFICES ASSUME m + 1 <= Len(parent_of) PROVE TreeSeen(F[m + 1], 0) /\ TreeSeen(F[m + 1], Len(parent_of))
    OBVIOUS
  <2>1. m <= Len(parent_of) /\ m + 1 \in 0..Len(parent_of) /\ m + 1 # 0 /\ (m + 1) - 1 = m
    BY <1>1
  <2>2. F[m + 1] = Round(F[m]) /\ TreeSeen(F[m], 0)
    BY <1>5, <1>8, <2>1
  <2>3. TreeSeen(F[m + 1], Len(parent_of))
    BY <2>2, RoundSeen
  <2> QED BY <1>6, <2>3
<1> HIDE DEF S
<1>9. Len(parent_of) \in S
  BY <1>1, <1>7, <1>8, SetInduction
<1> QED BY <1>1, <1>3, <1>9 DEF S

-----------------------------------------------------------------------------
(* The tree and the arena *)

\* The tree is about the first regions of the arena, and has their depths.
DomInv ==
  /\ Parents(parent_of) /\ Len(parent_of) # 0 /\ parent_of[1] = NoRegion
  /\ Parents(tree.parents) /\ DOMAIN tree.parents \subseteq DOMAIN parent_of
  /\ \A s \in DOMAIN tree.parents : parent_of[s] = tree.parents[s]
  /\ DOMAIN tree.depths = DOMAIN tree.parents
  /\ \A s \in DOMAIN tree.depths : tree.depths[s] = Found(tree.parents, s)

\* Before the tree is built.
LEMMA DomInvInit == DominanceInit => DomInv
<1> SUFFICES ASSUME DominanceInit PROVE DomInv
  OBVIOUS
<1>1. parent_of = <<0>> /\ tree.depths = <<>> /\ tree.parents = <<>>
  BY DEF DominanceInit, NoRegion
<1>2. Parents(parent_of) /\ Len(parent_of) # 0 /\ parent_of[1] = NoRegion
  BY <1>1 DEF Parents, NoRegion
<1>3. Parents(tree.parents) /\ DOMAIN tree.parents = {} /\ DOMAIN tree.depths = {}
  BY <1>1 DEF Parents
<1> QED BY <1>2, <1>3 DEF DomInv

\* Regions are added and the tree is built anew.
LEMMA DomInvNext == DomInv /\ [DominanceNext]_dominance_vars => DomInv'
<1> SUFFICES ASSUME DomInv, [DominanceNext]_dominance_vars PROVE DomInv'
  OBVIOUS
<1>0. /\ Parents(parent_of) /\ Len(parent_of) # 0 /\ parent_of[1] = NoRegion
      /\ Parents(tree.parents) /\ DOMAIN tree.parents \subseteq DOMAIN parent_of
      /\ \A s \in DOMAIN tree.parents : parent_of[s] = tree.parents[s]
      /\ DOMAIN tree.depths = DOMAIN tree.parents
      /\ \A s \in DOMAIN tree.depths : tree.depths[s] = Found(tree.parents, s)
  BY DEF DomInv
<1>1. ASSUME NewChildRegion PROVE DomInv'
  <2>1. PICK p \in DOMAIN parent_of : parent_of' = Append(parent_of, p) /\ tree' = tree
    BY <1>1 DEF NewChildRegion
  <2>2. parent_of \in Seq(Nat) /\ DOMAIN parent_of = 1..Len(parent_of) /\ Len(parent_of) \in Nat \ {0} /\ p \in Nat /\ p <= Len(parent_of)
    BY <1>0, ParentFacts DEF Parents
  <2>3. /\ parent_of' \in Seq(Nat) /\ DOMAIN parent_of' = 1..(Len(parent_of) + 1) /\ Len(parent_of') = Len(parent_of) + 1
        /\ parent_of'[Len(parent_of) + 1] = p /\ \A s \in DOMAIN parent_of : parent_of'[s] = parent_of[s]
    BY <2>1, <2>2
  <2>4. \A s \in DOMAIN parent_of' : s \in DOMAIN parent_of \/ s = Len(parent_of) + 1
    BY <2>2, <2>3
  <2>5. \A s \in DOMAIN parent_of' : parent_of'[s] < s
    <3>1. p < Len(parent_of) + 1
      BY <2>2
    <3> QED BY <1>0, <2>3, <2>4, <3>1 DEF Parents
  <2>6. Parents(parent_of)' /\ Len(parent_of') # 0 /\ parent_of'[1] = NoRegion /\ DOMAIN parent_of \subseteq DOMAIN parent_of'
    <3>1. Len(parent_of') # 0 /\ 1 \in DOMAIN parent_of /\ DOMAIN parent_of \subseteq DOMAIN parent_of'
      BY <2>2, <2>3
    <3> QED BY <1>0, <2>3, <2>5, <3>1 DEF Parents
  <2>7. \A s \in DOMAIN tree.parents : parent_of'[s] = tree.parents[s]
    BY <1>0, <2>3
  <2> QED BY <1>0, <2>1, <2>6, <2>7 DEF DomInv
<1>2. ASSUME BuildTree PROVE DomInv'
  <2>1. tree' = Build /\ parent_of' = parent_of
    BY <1>2 DEF BuildTree
  <2>2. TreeSeen(tree', Len(parent_of))
    BY <1>0, <2>1, BuildSeen
  <2>3. tree'.parents = parent_of /\ DOMAIN tree'.depths = DOMAIN parent_of
        /\ \A s \in DOMAIN parent_of : tree'.depths[s] = Found(parent_of, s)
    <3>1. \A s \in DOMAIN parent_of : s <= Len(parent_of)
      BY <1>0, ParentFacts
    <3> QED BY <2>2, <3>1 DEF TreeSeen
  <2> QED BY <1>0, <2>1, <2>3 DEF DomInv
<1>3. ASSUME UNCHANGED dominance_vars PROVE DomInv'
  BY <1>3 DEF DomInv, dominance_vars
<1> QED BY <1>1, <1>2, <1>3 DEF DominanceNext

\* dominates_region is enclosure, and the depths are the regions around.
LEMMA TreeMeansEnclosure == DomInv => DominanceIsEnclosure
<1> SUFFICES ASSUME DomInv, NEW a \in DOMAIN parent_of, NEW b \in DOMAIN parent_of
             PROVE  /\ dominates_region(a, b) => a \in Enclosing(b)
                    /\ (a \in Enclosing(b) /\ RegionDepth(b) # -1) => dominates_region(a, b)
                    /\ RegionDepth(b) # -1 => RegionDepth(b) = Cardinality(Enclosing(b)) - 1
                    /\ (RegionDepth(b) = -1 /\ b \in DOMAIN tree.depths) => Cardinality(Enclosing(b)) > Unvisited
  BY DEF DominanceIsEnclosure
<1> DEFINE q == tree.parents
           d == tree.depths
<1>0. /\ Parents(parent_of) /\ Parents(q) /\ DOMAIN q \subseteq DOMAIN parent_of
      /\ \A s \in DOMAIN q : parent_of[s] = q[s]
      /\ DOMAIN d = DOMAIN q /\ \A s \in DOMAIN q : d[s] = Found(q, s)
  BY DEF DomInv
<1>1. dominates_region(a, b) <=>
        a = b \/ /\ a \in DOMAIN d /\ b \in DOMAIN d /\ Unvisited \notin {d[a], d[b]} /\ d[b] >= d[a]
                 /\ Up(q, b, d[b] - d[a]) = a
  BY DEF dominates_region, Climb
<1>2. RegionDepth(b) = IF b \in DOMAIN d /\ d[b] # Unvisited THEN d[b] ELSE -1
  BY DEF RegionDepth
<1>3. \A r : Enclosing(r) = Encl(parent_of, r)
  BY DEF Enclosing, Encl
<1> HIDE DEF q, d
<1>4. \A r \in DOMAIN q : Encl(parent_of, r) = Encl(q, r)
  BY <1>0, EnclPrefix
<1>5. \A r \in DOMAIN q : /\ Deep(q, r) \in Nat /\ Cardinality(Encl(q, r)) = Deep(q, r) + 1
                          /\ d[r] \in Nat /\ (d[r] # Unvisited => d[r] = Deep(q, r))
                          /\ (d[r] = Unvisited => Deep(q, r) >= Unvisited)
                          /\ (Deep(q, r) < Unvisited => d[r] = Deep(q, r) /\ d[r] # Unvisited)
                          /\ (d[r] # Unvisited => Deep(q, r) < Unvisited)
  <2> TAKE r \in DOMAIN q
  <2>1. Deep(q, r) \in Nat /\ Cardinality(Encl(q, r)) = Deep(q, r) + 1 /\ Unvisited \in Nat /\ d[r] = Found(q, r)
    BY <1>0, DeepStep, DominanceAssumption
  <2> QED BY <2>1 DEF Found
<1>6. \A x, y \in DOMAIN q : x \in Encl(q, y) <=> Deep(q, x) <= Deep(q, y) /\ Up(q, y, Deep(q, y) - Deep(q, x)) = x
  BY <1>0, EnclIsUp
<1>7. ASSUME dominates_region(a, b) PROVE a \in Enclosing(b)
  <2>1. CASE a = b
    BY <1>0, <1>3, <2>1, EnclLeast
  <2>2. CASE a # b
    <3>1. a \in DOMAIN q /\ b \in DOMAIN q /\ d[a] = Deep(q, a) /\ d[b] = Deep(q, b) /\ d[a] <= d[b] /\ Up(q, b, d[b] - d[a]) = a
      BY <1>0, <1>1, <1>5, <1>7, <2>2
    <3>2. Deep(q, a) <= Deep(q, b) /\ Up(q, b, Deep(q, b) - Deep(q, a)) = a
      BY <3>1
    <3>3. a \in Encl(q, b)
      BY <1>6, <3>1, <3>2
    <3> QED BY <1>3, <1>4, <3>1, <3>3
  <2> QED BY <2>1, <2>2
<1>8. ASSUME RegionDepth(b) # -1 PROVE b \in DOMAIN q /\ d[b] = Deep(q, b) /\ d[b] # Unvisited /\ RegionDepth(b) = d[b]
  BY <1>0, <1>2, <1>5, <1>8
<1>9. ASSUME a \in Enclosing(b), RegionDepth(b) # -1 PROVE dominates_region(a, b)
  <2>1. b \in DOMAIN q /\ d[b] = Deep(q, b) /\ d[b] # Unvisited /\ Deep(q, b) < Unvisited
    BY <1>5, <1>8, <1>9
  <2>2. a \in Encl(q, b)
    BY <1>3, <1>4, <1>9, <2>1
  <2>3. a \in DOMAIN q
    BY <2>2 DEF Encl
  <2>4. Deep(q, a) <= Deep(q, b) /\ Up(q, b, Deep(q, b) - Deep(q, a)) = a
    BY <1>6, <2>1, <2>2, <2>3
  <2>5. Deep(q, a) < Unvisited
    BY <1>5, <2>1, <2>3, <2>4, DominanceAssumption
  <2>6. d[a] = Deep(q, a) /\ d[a] # Unvisited
    BY <1>5, <2>3, <2>5
  <2>7. d[b] >= d[a]
    BY <1>5, <2>1, <2>3, <2>4, <2>6
  <2> QED BY <1>0, <1>1, <2>1, <2>3, <2>4, <2>6, <2>7
<1>10. ASSUME RegionDepth(b) # -1 PROVE RegionDepth(b) = Cardinality(Enclosing(b)) - 1
  <2>1. b \in DOMAIN q /\ RegionDepth(b) = Deep(q, b) /\ Enclosing(b) = Encl(q, b)
    BY <1>3, <1>4, <1>8, <1>10
  <2> QED BY <2>1 DEF Deep
<1>11. ASSUME RegionDepth(b) = -1, b \in DOMAIN tree.depths PROVE Cardinality(Enclosing(b)) > Unvisited
  <2>1. b \in DOMAIN q
    BY <1>0, <1>11 DEF d
  <2>2. d[b] = Unvisited
    <3>1. d[b] \in Nat
      BY <1>5, <2>1
    <3> QED BY <1>0, <1>2, <1>11, <2>1, <3>1
  <2>3. Deep(q, b) >= Unvisited /\ Cardinality(Enclosing(b)) = Deep(q, b) + 1 /\ Deep(q, b) \in Nat
    BY <1>3, <1>4, <1>5, <2>1, <2>2
  <2> QED BY <2>3, DominanceAssumption
<1> QED BY <1>7, <1>9, <1>10, <1>11

\* The verifier's walk finds exactly the enclosing regions.
LEMMA WalkIsEnclosure ==
  ASSUME Parents(parent_of), NEW a \in DOMAIN parent_of, NEW b \in DOMAIN parent_of
  PROVE  region_dominates(a, b) <=> a \in Encl(parent_of, b)
<1>0. /\ a # NoRegion /\ b \in Nat /\ b <= Len(parent_of) /\ Len(parent_of) \in Nat
      /\ Deep(parent_of, a) \in Nat /\ Deep(parent_of, b) \in Nat /\ Deep(parent_of, b) < b
  BY ParentFacts, DeepStep
<1>1. ASSUME region_dominates(a, b) PROVE a \in Encl(parent_of, b)
  <2>1. CASE a = b
    BY <2>1, EnclLeast
  <2>2. CASE a # b
    <3>1. PICK n \in 0..(Len(parent_of) + 1) : Up(parent_of, b, n) = a
      BY <1>0, <1>1, <2>2 DEF region_dominates
    <3>2. n \in Nat
      BY <1>0
    <3> QED BY <1>0, <3>1, <3>2, UpEncloses
  <2> QED BY <2>1, <2>2
<1>2. ASSUME a \in Encl(parent_of, b) PROVE region_dominates(a, b)
  <2>1. Deep(parent_of, a) <= Deep(parent_of, b) /\ Up(parent_of, b, Deep(parent_of, b) - Deep(parent_of, a)) = a
    BY <1>2, EnclIsUp
  <2>2. Deep(parent_of, b) - Deep(parent_of, a) \in 0..(Len(parent_of) + 1)
    BY <1>0, <2>1
  <2> QED BY <2>1, <2>2 DEF region_dominates
<1> QED BY <1>1, <1>2

\* Hence what value numbering replaces still verifies.
LEMMA TreeReplaces == DomInv /\ DominanceIsEnclosure => ReplacementVerifies
<1> SUFFICES ASSUME DomInv, DominanceIsEnclosure,
                    NEW rep \in DOMAIN parent_of, NEW dup \in DOMAIN parent_of, NEW user \in DOMAIN parent_of,
                    dominates_region(rep, dup), check_dominance(user, {dup})
             PROVE  check_dominance(user, {rep})
  BY DEF ReplacementVerifies
<1>1. Parents(parent_of)
  BY DEF DomInv
<1>2. rep \in Encl(parent_of, dup)
  BY DEF DominanceIsEnclosure, Enclosing, Encl
<1>3. dup \in Encl(parent_of, user)
  BY <1>1, WalkIsEnclosure DEF check_dominance
<1>4. rep \in Encl(parent_of, user)
  BY <1>1, <1>2, <1>3, EnclTransitive
<1>5. region_dominates(rep, user)
  BY <1>1, <1>4, WalkIsEnclosure
<1> QED BY <1>5 DEF check_dominance

\* However regions are added and the tree is rebuilt, the tree holds the parents of the first regions of the
\* arena and the depth of each, saturated at Unvisited (DominatorTree::build, IrArena::new_region).
THEOREM DomInvHolds == DominanceSpec => []DomInv
BY DomInvInit, DomInvNext, PTL DEF DominanceSpec

\* dominates answers yes only for enclosing regions and for all of them whose depth is known, and a
\* representative that it accepts verifies wherever the duplicate did (dominates_region, gvn.rs, region_dominates).
THEOREM DominanceStaysSound == DominanceSpec => []DominanceSound
<1>1. DomInv => DominanceSound
  BY TreeMeansEnclosure, TreeReplaces DEF DominanceSound
<1> QED BY <1>1, DomInvHolds, PTL
=============================================================================
