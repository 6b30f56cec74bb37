------------------------------ MODULE UnionFind -----------------------------
(***************************************************************************)
(* The union-find table of crates/egraph/src/union_find.rs, which holds    *)
(* the classes of the e-graph.  EGraph.tla works with the representatives  *)
(* (rep); here are the parent links, the path compression that rewrites    *)
(* them and the calls with an id that is out of bounds.                    *)
(***************************************************************************)
EXTENDS Integers, FiniteSets, FiniteSetsExt

CONSTANTS
  UfCapacity,      \* slots of the table
  MaxUnions        \* bound: different pairs that are united

ASSUME UnionFindAssumption == UfCapacity \in Nat \ {0} /\ MaxUnions \in Nat

Ids == 0..(UfCapacity - 1)

VARIABLES
  parent,          \* id -> its link
  joined           \* ghost: the pairs that were united
uf_vars == <<parent, joined>>

\* new: singletons.
UnionFindInit == parent = [i \in Ids |-> i] /\ joined = {}

\* The ids that find meets on its way from x to the root: x, and with an id its link.
Path(p, x) == {y \in Ids : \A S \in SUBSET Ids : x \in S /\ (\A z \in S : p[z] \in S) => y \in S}
find_ro(p, x) == CHOOSE r \in Path(p, x) : p[r] = r

\* find's second loop: everything on the path is linked to the root.
Compressed(p, x) ==
  LET path == Path(p, x)
      root == find_ro(p, x)
  IN  [y \in Ids |-> IF y \in path THEN root ELSE p[y]]

find(x) ==
  /\ parent' = IF x \in Ids THEN Compressed(parent, x) ELSE parent
  /\ UNCHANGED joined

\* Fault model: the second id itself is linked, and its class is left behind.
LinkId(p, a, b) == [p EXCEPT ![b] = Min({find_ro(p, a), find_ro(p, b)})]

\* The larger root is linked under the smaller; nothing changes when they are one.
LinkRoots(p, a, b) ==
  LET ra == find_ro(p, a)
      rb == find_ro(p, b)
  IN  [p EXCEPT ![Max({ra, rb})] = Min({ra, rb})]

\* Both finds compress first; an id out of bounds ends the call where it is met.
union(a, b) ==
  /\ Cardinality(joined) < MaxUnions
  /\ \/ /\ a \notin Ids /\ UNCHANGED uf_vars
     \/ /\ a \in Ids /\ b \notin Ids
        /\ parent' = Compressed(parent, a) /\ UNCHANGED joined
     \/ /\ a \in Ids /\ b \in Ids
        /\ parent' = LinkRoots(Compressed(Compressed(parent, a), b), a, b)
        /\ joined' = joined \cup {{a, b}}

UnionFindNext ==
  \/ \E x \in 0..UfCapacity : find(x)
  \/ \E a, b \in 0..UfCapacity : union(a, b)

UnionFindSpec == UnionFindInit /\ [][UnionFindNext]_uf_vars

(***************************************************************************)
(* Properties.                                                             *)
(***************************************************************************)
\* The ids that calls of union have connected with x.
Component(x) ==
  {y \in Ids : \A S \in SUBSET Ids : x \in S /\ (\A e \in joined : e \cap S # {} => e \subseteq S) => y \in S}

\* The representative of an id is the least id connected with it, so it depends on what was
\* united and not on the order of the calls, the finds between them or the shape of the links.
RootIsLeast ==
  IF joined = {} THEN parent = [i \in Ids |-> i]
  ELSE \A x \in Ids : find_ro(parent, x) = Min(Component(x))
=============================================================================
