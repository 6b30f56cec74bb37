------------------------------ MODULE IrStore -------------------------------
(***************************************************************************)
(* The IR arena (crates/xir-core/src/arena.rs, id.rs, node.rs) and the     *)
(* snapshots made of it (crates/xir-core/src/snapshot.rs).                 *)
(*                                                                         *)
(* A node id is [idx, gen]: a slot and the generation it had.  (Its third  *)
(* part, the level of the opcode, is left out: the edits here, like those  *)
(* of the passes, replace an opcode by one of the same level.)             *)
(* remove_node and the reuse of a slot both bump its 16-bit generation, so *)
(* a live node has an even one.  A pass takes the published snapshot,      *)
(* works on a deep clone (BeginRewrite .. EndRewrite, with direct edits    *)
(* and IrSnapshot::new, or Commit, with an edit log) and publishes a clone *)
(* that verifies, or drops it.                                             *)
(*                                                                         *)
(* The serial number of a node, and the one an operand was written for,    *)
(* are ghosts: they say which insertion is meant.                          *)
(***************************************************************************)
EXTENDS Integers, Sequences, SequencesExt

CONSTANTS
  NodeCapacity,     \* slots of the arena
  RegionCapacity,   \* regions of the arena
  GenWrap,          \* 2^16 in the code: the modulus of the generations
  MaxInserts,       \* bound: nodes inserted; a slot is reused fewer times
  MaxVersion        \* bound: snapshots published

ASSUME IrStoreAssumption ==
  /\ NodeCapacity \in Nat \ {0} /\ RegionCapacity \in Nat \ {0}
  /\ GenWrap \in Nat /\ GenWrap % 2 = 0 /\ MaxInserts \in Nat /\ 2 * MaxInserts <= GenWrap

VARIABLES
  snap,       \* the published snapshot: [arena, version]
  work,       \* the running pass's clone
  pass,       \* "idle" | "rewriting"
  serial,     \* insertions so far
  held,       \* ids clients hold from published snapshots: [id, serial]
  committed,  \* ghost: the log of the last successful commit
  published   \* snapshots published so far

store_vars == <<snap, work, pass, serial, held, committed, published>>

\* NodeId::NONE; its index is past every slot.
None == [idx |-> NodeCapacity, gen |-> 0]
Pack(i, g) == [idx |-> i, gen |-> g]
Bump(g) == (g + 1) % GenWrap

\* with_capacity creates the root region, region 1.
EmptyArena == [nodes |-> <<>>, gen |-> <<>>, free |-> <<>>, first |-> <<None>>]

Free(a) == {a.free[i] : i \in DOMAIN a.free}
Live(a) == {i \in 0..(Len(a.nodes) - 1) : i \notin Free(a)}
At(a, i) == a.nodes[i + 1]
IdAt(a, i) == Pack(i, a.gen[i + 1])
LiveIds(a) == {IdAt(a, i) : i \in Live(a)}

\* node and node_mut: the slot exists and has the id's generation.
Resolves(a, id) == id.idx < Len(a.nodes) /\ a.gen[id.idx + 1] = id.gen

\* new_region pushes a region: none is ever freed.
new_region(a) ==
  IF Len(a.first) >= RegionCapacity THEN a ELSE [a EXCEPT !.first = Append(@, None)]

\* A full arena refuses even when slots are free.
CanInsert(a) == Len(a.nodes) < NodeCapacity

\* The most recently freed slot is taken, with its generation bumped.
TakeFree(a) ==
  LET i == Last(a.free)
  IN  [idx |-> i, arena |-> [a EXCEPT !.free = Front(@), !.gen[i + 1] = Bump(@)]]

TakeSlot(a) ==
  IF a.free # <<>> THEN TakeFree(a)
  ELSE [idx |-> Len(a.nodes),
        arena |-> [a EXCEPT !.nodes = Append(@, <<>>), !.gen = Append(@, 0)]]

\* insert_node: the new node becomes the head of its region's list.
insert_node(a, region, node) ==
  LET t == TakeSlot(a)
      id == Pack(t.idx, t.arena.gen[t.idx + 1])
  IN  [t.arena EXCEPT
         !.nodes[t.idx + 1] = [node EXCEPT !.region = region, !.next = a.first[region]],
         !.first[region] = id]

\* The ids that resolve, and those that the walk of a region's list meets: the head, and with an
\* id the next one, as far as they resolve.
KnownIds(a) == {IdAt(a, i) : i \in 0..(Len(a.nodes) - 1)}
Follows(a, region, S) ==
  /\ a.first[region] \in KnownIds(a) => a.first[region] \in S
  /\ \A p \in S : At(a, p.idx).next \in KnownIds(a) => At(a, p.idx).next \in S
RegionList(a, region) ==
  {id \in KnownIds(a) : \A S \in SUBSET KnownIds(a) : Follows(a, region, S) => id \in S}

\* Fault model: only the head of the list can be unlinked.
UnlinkHead(a, id) ==
  LET n == At(a, id.idx)
  IN  IF a.first[n.region] = id THEN [a EXCEPT !.first[n.region] = n.next] ELSE a

\* The node's predecessor in the list skips it.
Unlink(a, id) ==
  LET n == At(a, id.idx)
      before == {p \in RegionList(a, n.region) : At(a, p.idx).next = id}
  IN  IF a.first[n.region] = id THEN [a EXCEPT !.first[n.region] = n.next]
      ELSE IF before = {} THEN a
      ELSE [a EXCEPT !.nodes[(CHOOSE p \in before : TRUE).idx + 1].next = n.next]

\* Fault model: a removed node's generation is bumped only when its slot is reused.
RemoveKeepsGeneration(a, id) ==
  [Unlink(a, id) EXCEPT !.free = Append(@, id.idx)]

remove_node(a, id) ==
  [Unlink(a, id) EXCEPT !.gen[id.idx + 1] = Bump(@), !.free = Append(@, id.idx)]

(***************************************************************************)
(* Snapshots.                                                              *)
(***************************************************************************)
\* The use-def part of the verifier: every operand resolves.
Verified(a) ==
  \A i \in Live(a), k \in 1..2 :
    k \in DOMAIN At(a, i).ins => Resolves(a, At(a, i).ins[k].id)

\* The operand that names the node id stands for, as a pass obtains it from the arena.
Operand(a, id) == [id |-> id, serial |-> At(a, id.idx).serial]

\* ReplaceAllUses rewrites the operands of the live nodes.
ReplaceIn(ins, from, to) == [k \in DOMAIN ins |-> IF ins[k].id = from THEN to ELSE ins[k]]
ReplaceAllUses(a, from, to) ==
  [a EXCEPT !.nodes = [s \in DOMAIN a.nodes |->
     IF s - 1 \in Free(a) THEN a.nodes[s]
     ELSE [a.nodes[s] EXCEPT !.ins = ReplaceIn(a.nodes[s].ins, from, to)]]]

Failed == [error |-> "UnknownTarget"]

\* Fault model: an edit of an unknown node is skipped.
skip_unknown(a, e) ==
  CASE e.kind = "replace" -> ReplaceAllUses(a, e.node, e.to)
    [] e.kind = "remove" -> IF Resolves(a, e.node) THEN remove_node(a, e.node) ELSE a
    [] e.kind = "setop" ->
         IF Resolves(a, e.node) THEN [a EXCEPT !.nodes[e.node.idx + 1].op = "new"] ELSE a

apply_edit(a, e) ==
  CASE e.kind = "replace" -> ReplaceAllUses(a, e.node, e.to)
    [] e.kind = "remove" -> IF Resolves(a, e.node) THEN remove_node(a, e.node) ELSE Failed
    [] e.kind = "setop" ->
         IF Resolves(a, e.node) THEN [a EXCEPT !.nodes[e.node.idx + 1].op = "new"] ELSE Failed

\* The first edit that fails ends the commit.
apply_edits(a, log) ==
  LET after[k \in 0..Len(log)] ==
        IF k = 0 THEN a
        ELSE IF after[k - 1] = Failed THEN Failed ELSE apply_edit(after[k - 1], log[k])
  IN  after[Len(log)]

StoreInit ==
  /\ snap = [arena |-> EmptyArena, version |-> 0]
  /\ work = EmptyArena /\ pass = "idle"
  /\ serial = 0 /\ held = {} /\ committed = <<>> /\ published = 0

\* Clients keep the ids of what is published: roots, choices, schedules.
PublishSnapshot(arena, version) ==
  /\ snap' = [arena |-> arena, version |-> version]
  /\ held' = held \cup {Operand(arena, id) : id \in LiveIds(arena)}
  /\ published' = published + 1

\* A pass that edits its clone directly.
BeginRewrite ==
  /\ pass = "idle" /\ published < MaxVersion
  /\ pass' = "rewriting" /\ work' = snap.arena
  /\ UNCHANGED <<snap, serial, held, committed, published>>

InsertNode(region, ins) ==
  /\ pass = "rewriting" /\ serial < MaxInserts /\ CanInsert(work)
  /\ work' = insert_node(work, region,
       [op |-> "old", ins |-> ins, region |-> region, next |-> None,
        serial |-> serial])
  /\ serial' = serial + 1
  /\ UNCHANGED <<snap, pass, held, committed, published>>

NewRegion ==
  /\ pass = "rewriting" /\ Len(work.first) < RegionCapacity
  /\ work' = new_region(work)
  /\ UNCHANGED <<snap, pass, serial, held, committed, published>>

RemoveNode(id) ==
  /\ pass = "rewriting" /\ Resolves(work, id)
  /\ work' = remove_node(work, id)
  /\ UNCHANGED <<snap, pass, serial, held, committed, published>>

\* The changed clone is verified and becomes version 0 of a new snapshot, or is dropped.
EndRewrite ==
  /\ pass = "rewriting"
  /\ pass' = "idle" /\ work' = EmptyArena
  /\ IF Verified(work) THEN PublishSnapshot(work, 0) ELSE UNCHANGED <<snap, held, published>>
  /\ UNCHANGED <<serial, committed>>

\* IrSnapshot::commit: every edit applies and the result verifies, or nothing is published.
Commit(log) ==
  /\ pass = "idle" /\ published < MaxVersion
  /\ LET a == apply_edits(snap.arena, log)
     IN  /\ a # Failed /\ Verified(a)
         /\ PublishSnapshot(a, snap.version + 1)
         /\ committed' = log
  /\ UNCHANGED <<work, pass, serial>>

Edits ==
  LET ids == {h.id : h \in held}
      live == {Operand(snap.arena, id) : id \in LiveIds(snap.arena)}
  IN  [kind : {"remove", "setop"}, node : ids, to : {[id |-> None, serial |-> 0]}]
        \cup [kind : {"replace"}, node : ids, to : live]

StoreNext ==
  \/ BeginRewrite \/ NewRegion \/ EndRewrite
  \/ \E region \in DOMAIN work.first :
       \/ InsertNode(region, <<>>)
       \/ \E id \in LiveIds(work) : InsertNode(region, <<Operand(work, id)>>)
  \/ \E id \in LiveIds(work) : RemoveNode(id)
  \/ \E e \in Edits, f \in Edits : Commit(<<e, f>>)

StoreSpec == StoreInit /\ [][StoreNext]_store_vars

(***************************************************************************)
(* Properties.                                                             *)
(***************************************************************************)
\* An id a client kept from an earlier snapshot never resolves to another node, nor to a
\* freed slot, after any sequence of removals, reuses and dropped clones, as long as a
\* slot is reused fewer than GenWrap / 2 times (IrArena::node, insert_node, remove_node).
StaleIdsNeverResolve ==
  \A h \in held : Resolves(snap.arena, h.id) =>
    h.id.idx \in Live(snap.arena) /\ At(snap.arena, h.id.idx).serial = h.serial

\* In every published snapshot each operand is a live node, the one it was written for
\* (remove_node, the verifier's use-def check).
OperandsAreMeant ==
  \A i \in Live(snap.arena), k \in 1..2 :
    k \in DOMAIN At(snap.arena, i).ins =>
      LET o == At(snap.arena, i).ins[k]
      IN  /\ Resolves(snap.arena, o.id) /\ o.id.idx \in Live(snap.arena)
          /\ At(snap.arena, o.id.idx).serial = o.serial

\* The linked list of each region holds exactly its live nodes and comes to an end, so it meets
\* each of them once: removals from the middle and reinsertions under a fresh generation keep it
\* linked (region_has_earlier_effect of the verifier walks it).
RegionListsExact ==
  \A a \in {snap.arena, work} : \A region \in DOMAIN a.first :
    LET list == RegionList(a, region)
    IN  /\ list = {IdAt(a, i) : i \in {j \in Live(a) : At(a, j).region = region}}
        /\ list # {} => \E id \in list : At(a, id.idx).next = None

\* A commit that is published took every edit of its log: what it removes is gone, what it
\* sets and does not remove later is set, and it is the next version (IrSnapshot::commit).
CommitTakesWholeLog ==
  [][committed' # committed =>
       /\ snap'.version = snap.version + 1
       /\ \A k \in DOMAIN committed' :
            LET e == committed'[k]
            IN  /\ e.kind = "remove" => ~Resolves(snap'.arena, e.node)
                /\ e.kind = "setop" =>
                     \/ \E m \in (k + 1)..Len(committed') :
                          committed'[m].kind = "remove" /\ committed'[m].node = e.node
                     \/ Resolves(snap'.arena, e.node)
                        /\ At(snap'.arena, e.node.idx).op = "new"]_store_vars

\* Ids, operands and region lists of the arenas agree with the nodes that live in them.
ArenasSound == StaleIdsNeverResolve /\ OperandsAreMeant /\ RegionListsExact
=============================================================================
