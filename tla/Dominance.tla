------------------------------ MODULE Dominance -----------------------------
(***************************************************************************)
(* The dominator tree over an arena's regions (xir-graph/src/dominance.rs) *)
(* that value numbering asks whether a representative's region encloses a  *)
(* duplicate's.  The tree is built once and is not told of regions that    *)
(* are made later.  Regions are never freed, so a region is its slot,      *)
(* numbered from 1, and a parent stands before its children; 0 is          *)
(* RegionId::NONE.                                                         *)
(***************************************************************************)
EXTENDS Integers, Sequences, FiniteSets

CONSTANTS
  Unvisited,       \* u16::MAX, the depth of a region that was not reached
  MaxRegions       \* bound: regions of the arena

ASSUME DominanceAssumption == Unvisited \in Nat

VARIABLES
  parent_of,       \* the arena: the parent of every region
  tree             \* [depths, parents] of the DominatorTree, empty before it is built
dominance_vars == <<parent_of, tree>>

NoRegion == 0
SaturatingSucc(d) == IF d = Unvisited THEN d ELSE d + 1

\* Visits a slot in a round of build.
Visit(t, slot) ==
  LET p == parent_of[slot]
  IN  IF t.depths[slot] # Unvisited THEN t
      ELSE IF p = NoRegion THEN [t EXCEPT !.depths[slot] = 0]
      ELSE IF t.depths[p] # Unvisited THEN [t EXCEPT !.depths[slot] = SaturatingSucc(t.depths[p])]
      ELSE t

\* A round of build visits the slots in order.
Round(t) ==
  LET seen[s \in 0..Len(parent_of)] == IF s = 0 THEN t ELSE Visit(seen[s - 1], s)
  IN  seen[Len(parent_of)]

\* build: the root has depth 0, then as many rounds as there are regions.
Build ==
  LET start == [depths |-> [s \in DOMAIN parent_of |-> IF s = 1 THEN 0 ELSE Unvisited],
                parents |-> parent_of]
      built[n \in 0..Len(parent_of)] == IF n = 0 THEN start ELSE Round(built[n - 1])
  IN  built[Len(parent_of)]

\* The region reached from b by n steps to the parent, NoRegion above the root.
Up(parents, b, n) ==
  LET up[i \in 0..n] ==
        IF i = 0 THEN b ELSE IF up[i - 1] = NoRegion THEN NoRegion ELSE parents[up[i - 1]]
  IN  up[n]
Climb(b, n) == Up(tree.parents, b, n)

\* Fault model: being as deep as the other's ancestor is taken for being it.
SameDepthEnough(a, b) ==
  a = b \/ /\ a \in DOMAIN tree.depths /\ b \in DOMAIN tree.depths
           /\ Unvisited \notin {tree.depths[a], tree.depths[b]} /\ tree.depths[b] >= tree.depths[a]

dominates_region(a, b) ==
  a = b \/ /\ a \in DOMAIN tree.depths /\ b \in DOMAIN tree.depths
           /\ Unvisited \notin {tree.depths[a], tree.depths[b]} /\ tree.depths[b] >= tree.depths[a]
           /\ Climb(b, tree.depths[b] - tree.depths[a]) = a

\* Fault model: the walk ends at the parent.
ParentOnly(a, b) == a = b \/ a = NoRegion \/ a = parent_of[b]

\* The verifier's own walk up the arena (verifier.rs region_dominates), bounded by the number
\* of regions.
region_dominates(a, b) ==
  \/ a = b \/ a = NoRegion
  \/ \E n \in 0..(Len(parent_of) + 1) : Up(parent_of, b, n) = a

\* check_dominance: every operand is defined in a region that encloses its user's.
check_dominance(user, defs) == \A d \in defs : region_dominates(d, user)

\* depth: -1 stands for Option::None.
RegionDepth(r) ==
  IF r \in DOMAIN tree.depths /\ tree.depths[r] # Unvisited THEN tree.depths[r] ELSE -1

DominanceInit == parent_of = <<NoRegion>> /\ tree = [depths |-> <<>>, parents |-> <<>>]

NewChildRegion ==
  /\ Len(parent_of) < MaxRegions
  /\ \E p \in DOMAIN parent_of : parent_of' = Append(parent_of, p)
  /\ UNCHANGED tree

BuildTree == tree' = Build /\ UNCHANGED parent_of

DominanceNext == NewChildRegion \/ BuildTree

DominanceSpec == DominanceInit /\ [][DominanceNext]_dominance_vars

\* The regions that enclose r: r, and with a region its parent.
Enclosing(r) ==
  {s \in DOMAIN parent_of : \A S \in SUBSET DOMAIN parent_of :
     r \in S /\ (\A z \in S : parent_of[z] # NoRegion => parent_of[z] \in S) => s \in S}

\* dominates answers yes exactly for the regions that enclose the other.  Unsure, it answers
\* no: for a region made after the tree was built, and for one nested so deep that its depth
\* reads as unvisited.  The depth it reports is the number of regions around the region.
DominanceIsEnclosure ==
  \A a, b \in DOMAIN parent_of :
    /\ dominates_region(a, b) => a \in Enclosing(b)
    /\ (a \in Enclosing(b) /\ RegionDepth(b) # -1) => dominates_region(a, b)
    /\ RegionDepth(b) # -1 => RegionDepth(b) = Cardinality(Enclosing(b)) - 1
    /\ (RegionDepth(b) = -1 /\ b \in DOMAIN tree.depths) => Cardinality(Enclosing(b)) > Unvisited

\* Value numbering replaces a duplicate by a representative whose region the tree says is
\* above the duplicate's (gvn.rs); wherever the verifier accepted the one it accepts the
\* other, although it asks the arena and not the tree.
ReplacementVerifies ==
  \A rep, dup, user \in DOMAIN parent_of :
    dominates_region(rep, dup) /\ check_dominance(user, {dup}) => check_dominance(user, {rep})

\* The tree means enclosure, and what value numbering does on its word still verifies.
DominanceSound == DominanceIsEnclosure /\ ReplacementVerifies
=============================================================================
