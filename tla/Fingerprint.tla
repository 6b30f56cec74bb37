----------------------------- MODULE Fingerprint ----------------------------
(***************************************************************************)
(* The structural fingerprint of a snapshot (xir-core/src/snapshot.rs,     *)
(* hash.rs, op.rs, node.rs, id.rs), under which the JIT caches what it     *)
(* compiled.  The hash is taken to be as good as the bytes written into    *)
(* it, so a fingerprint is that sequence of bytes: opcodes, immediates,    *)
(* packed ids and types, one after the other, without separators and       *)
(* without the number of operands or dimensions.                           *)
(*                                                                         *)
(* An operation is [name, args], its arguments as integers and an f64      *)
(* immediate as its eight bytes.  An arena is [slots, gens, free,          *)
(* regions]: its slots from 1 on, each with a node or Freed and with its   *)
(* generation; the freed slots, the one to be used next last; and its      *)
(* regions, each with its parent (a region, 0 for none) and its owner (a   *)
(* slot, 0 for none).  The second result type of a node is left out.       *)
(***************************************************************************)
EXTENDS Integers, Sequences, SequencesExt, FiniteSets, FiniteSetsExt

CONSTANTS
  Ops,             \* the operations with their immediates
  Types,           \* the result types
  MaxNodes,        \* bound: slots of an arena
  MaxBodies,       \* bound: regions of an arena beside the root
  MaxFrees         \* bound: times a slot is freed

(***************************************************************************)
(* Bytes, little end first; the numbers that occur are below 2^16.         *)
(***************************************************************************)
Zeros(n) == [i \in 1..n |-> 0]
write_u16(v) == <<v % 256, v \div 256>>
write_u32(v) == write_u16(v) \o Zeros(2)
write_u64(v) == write_u16(v) \o Zeros(6)
write_i64(v) == IF v >= 0 THEN write_u64(v) ELSE <<256 + v>> \o [i \in 1..7 |-> 255]   \* from -256
EachOf(s, Write(_)) == FlattenSeq([i \in DOMAIN s |-> Write(s[i])])

(***************************************************************************)
(* Operations.                                                             *)
(***************************************************************************)
Fixed ==   \* the operations without a family, in the order of their codes
  [name \in {"const.i64", "const.f64", "param", "dot", "reduce", "rng", "custom", "if", "matmul", "conv",
             "broadcast", "transpose", "cluster", "barrier", "materialize", "parallel", "alloc",
             "async_copy", "stage", "mma", "shuffle", "target_barrier"} |->
     CASE name = "const.i64" -> 1 [] name = "const.f64" -> 2 [] name = "param" -> 3 [] name = "dot" -> 4
       [] name = "reduce" -> 5 [] name = "rng" -> 6 [] name = "custom" -> 7 [] name = "if" -> 8
       [] name = "matmul" -> 30 [] name = "conv" -> 31 [] name = "broadcast" -> 32 [] name = "transpose" -> 33
       [] name = "cluster" -> 40 [] name = "barrier" -> 41 [] name = "materialize" -> 42
       [] name = "parallel" -> 50 [] name = "alloc" -> 51 [] name = "async_copy" -> 52 [] name = "stage" -> 53
       [] name = "mma" -> 60 [] name = "shuffle" -> 61 [] name = "target_barrier" -> 62]

opcode(op) ==
  CASE op.name = "binary" -> 10 + op.args[1]
    [] op.name = "unary" -> 20 + op.args[1]
    [] OTHER -> Fixed[op.name]

\* The level of an operation, which its node's id carries.
LevelOf(op) ==
  LET c == opcode(op)
  IN  CASE c < 30 -> 0 [] c \in 30..39 -> 1 [] c \in 40..49 -> 2 [] c \in 50..59 -> 3 [] c >= 60 -> 4

\* The immediates, each in its width.
Immediates(op) ==
  CASE op.name = "const.i64" -> write_i64(op.args[1])
    [] op.name \in {"param", "custom", "stage"} -> write_u32(op.args[1])
    [] op.name = "rng" -> <<op.args[1]>> \o write_u64(op.args[2])
    [] op.name = "broadcast" -> EachOf(op.args, write_i64)
    [] op.name = "alloc" -> write_u32(op.args[1]) \o <<op.args[2]>>
    [] OTHER -> op.args       \* bytes, or nothing

hash_op(op) == write_u16(opcode(op)) \o Immediates(op)

\* The operands the verifier demands.
Arity(op) ==
  CASE op.name = "mma" -> 3
    [] op.name \in {"dot", "binary", "matmul", "conv"} -> 2
    [] op.name \in {"custom", "reduce", "if", "unary", "broadcast", "transpose"} -> 1
    [] OTHER -> 0

has_effect(op) ==
  op.name \in {"barrier", "materialize", "alloc", "async_copy", "stage", "target_barrier", "shuffle", "mma", "rng",
              "if", "custom"}

(***************************************************************************)
(* Ids, types, nodes.                                                      *)
(***************************************************************************)
NoId == [i \in 1..8 |-> 255]
RegionBytes(index) == write_u32(index) \o Zeros(4)
\* The value of a result slot of a node: index, generation, level, result slot.
ValueBytes(v) ==
  IF v = <<>> THEN NoId ELSE write_u32(v.index) \o write_u16(v.generation) \o <<v.level, 16 * v.slot>>

\* Fault model: a type does not say of which kind it is.
UntaggedType(ty) ==
  CASE ty.kind = "none" -> <<>>
    [] ty.kind = "token" -> <<>>
    [] ty.kind = "scalar" -> <<ty.elem>>
    [] ty.kind = "tensor" -> <<ty.elem, ty.layout>> \o EachOf(ty.dims, write_i64)
    [] ty.kind = "memref" -> <<ty.elem, ty.space>> \o EachOf(ty.dims, write_i64)

hash_type(ty) ==
  CASE ty.kind = "none" -> <<0>>
    [] ty.kind = "scalar" -> <<1, ty.elem>>
    [] ty.kind = "tensor" -> <<2, ty.elem, ty.layout>> \o EachOf(ty.dims, write_i64)
    [] ty.kind = "token" -> <<3>>
    [] ty.kind = "memref" -> <<4, ty.elem, ty.space>> \o EachOf(ty.dims, write_i64)

hash_node(n) ==
  hash_op(n.op) \o EachOf(n.inputs, ValueBytes) \o RegionBytes(n.region) \o ValueBytes(n.effect_in)
  \o hash_type(n.ty)

Freed == <<>>
Occupied(a) == SelectSeq(a.slots, LAMBDA n : n # Freed)

\* The live nodes in slot order, and the number of regions; nothing says which slot a node is in.
compute_fingerprint(a) == EachOf(Occupied(a), hash_node) \o write_u64(Len(a.regions))

(***************************************************************************)
(* Arenas are built and edited.                                            *)
(***************************************************************************)
VARIABLE built         \* the arena

\* The values that may occur, and those that a live node defines.
Values == [index : 0..(MaxNodes - 1), generation : 0..(2 * MaxFrees), level : 0..4, slot : {0}]
Defines(a, i, v) ==
  /\ i \in DOMAIN a.slots /\ a.slots[i] # Freed
  /\ v.index + 1 = i /\ v.generation = a.gens[i] /\ v.level = LevelOf(a.slots[i].op)
DefinedValues(a) == {v \in Values : Defines(a, v.index + 1, v)}
\* What a node of a region may name: values of the region itself and of the root.
VisibleValues(a, r) == {v \in DefinedValues(a) : a.slots[v.index + 1].region \in {0, r}}

Uses(n) == ToSet(n.inputs) \cup ({n.effect_in} \ {<<>>})

BlankArena == [slots |-> <<>>, gens |-> <<>>, free |-> <<>>, regions |-> <<[parent |-> 0, owner |-> 0]>>]
FingerprintInit == built = BlankArena

\* A node goes into the slot that was freed last, or into a new one; an operation with an
\* effect may be ordered after another node.
Inserted(a, n) ==
  IF a.free = <<>>
  THEN [a EXCEPT !.slots = Append(@, n), !.gens = Append(@, 0)]
  ELSE LET i == Last(a.free) + 1
       IN  [a EXCEPT !.slots[i] = n, !.gens[i] = @ + 1, !.free = Front(@)]
InsertOp ==
  /\ Len(built.slots) < MaxNodes
  /\ \E op \in Ops, r \in 0..(Len(built.regions) - 1), ty \in Types :
     \E ins \in [1..Arity(op) -> VisibleValues(built, r)],
        e \in {<<>>} \cup (IF has_effect(op) THEN VisibleValues(built, r) ELSE {}) :
       built' = Inserted(built, [op |-> op, inputs |-> ins, region |-> r, effect_in |-> e, ty |-> ty])

Removed(a, i) == [a EXCEPT !.slots[i] = Freed, !.gens[i] = @ + 1, !.free = Append(@, i - 1)]
\* The verifier passes a removal only when nothing names the node any more.
RemoveOp ==
  \E i \in DOMAIN built.slots :
    /\ built.slots[i] # Freed /\ built.gens[i] < 2 * MaxFrees
    /\ \A n \in ToSet(Occupied(built)) : \A v \in Uses(n) : v.index + 1 # i
    /\ \A r \in DOMAIN built.regions : built.regions[r].owner # i
    /\ built' = Removed(built, i)

\* The root, or an owner that the verifier accepts: a live `if` of the parent.
Owners(slots, parent) ==
  {0} \cup {i \in DOMAIN slots : slots[i] # Freed /\ slots[i].op.name = "if" /\ slots[i].region = parent - 1}
OpenRegion ==
  /\ Len(built.regions) <= MaxBodies
  /\ \E p \in DOMAIN built.regions : \E o \in Owners(built.slots, p) :
       built' = [built EXCEPT !.regions = Append(@, [parent |-> p, owner |-> o])]

FingerprintNext == InsertOp \/ RemoveOp \/ OpenRegion
FingerprintSpec == FingerprintInit /\ [][FingerprintNext]_built

(***************************************************************************)
(* Reading a fingerprint back: all the ways to take it apart.              *)
(***************************************************************************)
\* The elements of S that the bytes may start with, each with the bytes that are left.
Read(S, Write(_), bytes) ==
  {<<x, SubSeq(bytes, Len(Write(x)) + 1, Len(bytes))>> : x \in {y \in S : IsPrefix(Write(y), bytes)}}

ReadInputs(n, bytes) ==
  FoldLeft(LAMBDA S, k : UNION {{<<Append(s[1], v[1]), v[2]>> : v \in Read(Values, ValueBytes, s[2])} : s \in S},
           {<<<<>>, bytes>>}, [k \in 1..n |-> k])

ReadNode(regions, bytes) ==
  UNION {UNION {UNION {UNION {{
      <<[op |-> o[1], inputs |-> i[1], region |-> r[1], effect_in |-> e[1], ty |-> t[1]], t[2]>> :
      t \in Read(Types, hash_type, e[2])} :
      e \in Read({<<>>} \cup Values, ValueBytes, r[2])} :
      r \in Read(0..(regions - 1), RegionBytes, i[2])} :
      i \in ReadInputs(Arity(o[1]), o[2])} :
      o \in Read(Ops, hash_op, bytes)}

\* All the sequences of at most MaxNodes nodes, with this many regions, that the bytes may be.
NodeReadings(regions, bytes) ==
  LET trailer == write_u64(regions)
      Unread(S) == {s \in S : Len(s[2]) > Len(trailer)}
      Longer(S) == UNION {{<<Append(s[1], n[1]), n[2]>> : n \in ReadNode(regions, s[2])} : s \in Unread(S)}
      begun == FoldLeft(LAMBDA S, k : S \cup Longer(S), {<<<<>>, bytes>>}, [k \in 1..MaxNodes |-> k])
  IN  {[nodes |-> s[1], regions |-> regions] : s \in {t \in begun : t[2] = trailer}}
Readings(bytes) == UNION {NodeReadings(r, bytes) : r \in 1..(MaxBodies + 1)}

\* What an arena says of its program: its nodes, each named by its place among the live ones.
PlaceOf(a, i) == Cardinality({j \in 1..i : a.slots[j] # Freed})
NodesOf(a) ==
  LET At(v) == IF v = <<>> THEN 0 ELSE PlaceOf(a, v.index + 1)
      live == Occupied(a)
  IN  [i \in DOMAIN live |-> [live[i] EXCEPT !.inputs = [k \in DOMAIN @ |-> At(@[k])], !.effect_in = At(@)]]
ProgramOf(a) ==
  [nodes |-> NodesOf(a),
   regions |-> [r \in DOMAIN a.regions |-> [a.regions[r] EXCEPT !.owner = PlaceOf(a, @)]]]

\* What the verifier asks beyond the links, two regions for each `if` and one chain of the
\* effects in a region, and the parser sees to: every region but the root is that of an `if`.
Accepted(a) ==
  LET Starts(i) == a.slots[i] # Freed /\ has_effect(a.slots[i].op) /\ a.slots[i].effect_in = <<>>
  IN  /\ \A i \in DOMAIN a.slots : a.slots[i] # Freed /\ a.slots[i].op.name = "if" =>
           Cardinality({r \in DOMAIN a.regions : a.regions[r].owner = i}) = 2
      /\ \A i, j \in DOMAIN a.slots :
           Starts(i) /\ Starts(j) /\ a.slots[i].region = a.slots[j].region => i = j
      /\ \A r \in 2..Len(a.regions) : a.regions[r].owner # 0

\* The bytes of a fingerprint can be taken apart in one way only, up to the layout of buffer
\* types: although neither operands nor dimensions are counted, no immediate, id or dimension
\* of one node can be taken for the beginning of another.  So arenas that number their slots,
\* link their regions and lay their buffers out alike are told apart, reused slots or not;
\* the others are not: SlotsHidden, RegionsHidden and LayoutsHidden in MCFingerprint.
FingerprintTellsNodes ==
  LET RowMajor(n) == IF n.ty.kind = "memref" THEN [n EXCEPT !.ty.layout = 0] ELSE n
      AllRowMajor(ns) == [i \in DOMAIN ns |-> RowMajor(ns[i])]
  IN  {[nodes |-> AllRowMajor(r.nodes), regions |-> r.regions] : r \in Readings(compute_fingerprint(built))}
        = {[nodes |-> AllRowMajor(Occupied(built)), regions |-> Len(built.regions)]}
=============================================================================
