-------------------------------- MODULE Text --------------------------------
(***************************************************************************)
(* The textual form of the XIR: printer and parser of                      *)
(* crates/xir-core/src/text.rs, over tokens.                               *)
(*                                                                         *)
(* An arena is [nodes, regions]: slot -> [op, ins, ty, region] (or Hole, a *)
(* freed slot), and region -> [owner, parent]; region 1 is the root.  An   *)
(* opcode is [name, args], a type [kind, ...].  A token is <<class, ...>>: *)
(* "w" word, "<" word with an element type, "v" value reference, "i" int,  *)
(* "f" float, "b" bool, "s" symbol, "eol".                                 *)
(*                                                                         *)
(* Integers keep the order of the code's widths with small bounds:         *)
(* u8 < u32 < i64 < u64.  A float is whole (n stands for a magnitude), a   *)
(* fraction, or not finite.                                                *)
(***************************************************************************)
EXTENDS Integers, Sequences, SequencesExt, FiniteSetsExt

CONSTANTS
  MAX_NEST,       \* 256 in the code
  TextCapacity,   \* nodes parse_arena makes room for
  TextPrograms,   \* the arenas that are printed, a sequence
  MaxReads        \* bound: how often a text is parsed

U8Max == 1
U32Max == 2
I64Max == 3
MAX_RANK == 2     \* 4 in the code
MAX_INPUTS == 3   \* 6 in the code

Hole == [op |-> [name |-> "hole", args |-> <<>>], ins |-> <<>>, ty |-> [kind |-> "none"],
         region |-> 0]
Word(x) == <<"w", x>>
Sym(c) == <<"s", c>>
Eol == <<"eol", "">>

Monoids == {"add", "mul", "max", "min", "and", "or"}
Spaces == {"global", "shared", "register"}
Elems == {"f64", "i64", "f32", "i32", "bool"}

(***************************************************************************)
(* The syntax of each opcode: its arguments in order, with the keyword     *)
(* that introduces them and what they may be.                              *)
(***************************************************************************)
IntArg(key, max) == [key |-> key, kind |-> "int", max |-> max]
Name(key, names) == [key |-> key, kind |-> "name", names |-> names]
Arg(key, kind) == [key |-> key, kind |-> kind]

Syntax(name) ==
  CASE name = "const.i64" -> <<IntArg("", I64Max)>>
    [] name = "const.f64" -> <<Arg("", "f64")>>
    [] name \in {"param", "custom"} -> <<IntArg("", U32Max)>>
    [] name = "reduce" -> <<IntArg("axis", U8Max), Name("monoid", Monoids)>>
    [] name = "rng" -> <<Name("dist", {"uniform", "normal"}), IntArg("seed", I64Max)>>
    [] name = "matmul" -> <<Arg("ta", "bool"), Arg("tb", "bool")>>
    [] name = "conv" -> <<Name("padding", {"valid", "same"}), IntArg("stride", U8Max)>>
    [] name = "broadcast" -> <<Arg("to", "dims")>>
    [] name = "transpose" -> <<Arg("perm", "perm")>>
    [] name = "loop.parallel" -> <<IntArg("axis", U8Max)>>
    [] name = "loop.alloc" -> <<IntArg("bytes", U32Max), Name("space", Spaces)>>
    [] name = "loop.pipeline_stage" -> <<IntArg("stage", U32Max)>>
    [] OTHER -> <<>>

PlainOps ==
  {"dot", "if", "binary.add", "binary.sub", "binary.mul", "binary.div", "binary.max",
   "binary.min", "unary.relu", "unary.neg", "unary.exp", "unary.log", "fusion.cluster",
   "fusion.barrier", "fusion.materialize", "loop.async_copy", "target.mma",
   "target.warp_shuffle", "target.barrier"}
OpNames == PlainOps \cup
  {"const.i64", "const.f64", "param", "custom", "reduce", "rng", "matmul", "conv",
   "broadcast", "transpose", "loop.parallel", "loop.alloc", "loop.pipeline_stage"}

(***************************************************************************)
(* The printer.                                                            *)
(***************************************************************************)
Commas(toks) ==   \* join(", ")
  FlattenSeq([i \in DOMAIN toks |-> IF i = 1 THEN <<toks[i]>> ELSE <<Sym(","), toks[i]>>])
Ints(dims) == [i \in DOMAIN dims |-> <<"i", dims[i]>>]

\* to_bits in two u32 halves; the not finite values have the largest high half.
Bits(v) ==
  CASE v[1] = "inf" -> <<U32Max, 0>>
    [] v[1] = "nan" -> <<U32Max, v[2]>>
    [] v[1] = "whole" -> <<v[2] \div (U32Max + 1), v[2] % (U32Max + 1)>>
FromBits(hi, lo) ==
  CASE hi = U32Max -> <<IF lo = 0 THEN "inf" ELSE "nan", lo>>
    [] hi < U32Max -> <<"whole", hi * (U32Max + 1) + lo>>

\* Fault model: a whole number is printed without its fraction, whatever its size.
PrintWhole(v) == IF v[1] = "frac" THEN <<<<"f", v>>>> ELSE <<<<"i", v[2]>>>>

\* Whole and below 1e15: "{:.1}"; whole and below 2^63: digits only; the rest of the whole
\* numbers and what is not finite: the bit pattern; a fraction: the shortest digits.
format_f64(v) ==
  CASE v[1] \in {"inf", "nan"} \/ (v[1] = "whole" /\ v[2] > I64Max) ->
         <<Word("bits"), <<"i", Bits(v)[1]>>, <<"i", Bits(v)[2]>> >>
    [] v[1] = "whole" /\ v[2] <= 1 -> << <<"f", v>> >>
    [] v[1] = "whole" /\ v[2] \in 2..I64Max -> << <<"i", v[2]>> >>
    [] v[1] = "frac" -> << <<"f", v>> >>

format_arg(arg, v) ==
  (IF arg.key = "" THEN <<>> ELSE <<Word(arg.key), Sym("=")>>) \o
  (CASE arg.kind = "int" -> << <<"i", v>> >>
     [] arg.kind = "name" -> <<Word(v)>>
     [] arg.kind = "bool" -> << <<"b", v>> >>
     [] arg.kind = "f64" -> format_f64(v)
     [] arg.kind \in {"dims", "perm"} -> <<Sym("[")>> \o Commas(Ints(v)) \o <<Sym("]")>>)

format_op(op) ==
  <<Word(op.name)>> \o
  FlattenSeq([i \in DOMAIN op.args |-> format_arg(Syntax(op.name)[i], op.args[i])])

format_type(ty) ==
  CASE ty.kind \in {"none", "token"} -> <<Word(ty.kind)>>
    [] ty.kind = "scalar" -> << <<"<", "scalar", ty.elem>> >>
    [] ty.kind \in {"tensor", "memref"} ->
         << <<"<", ty.kind, ty.elem>>, Sym("[")>> \o Commas(Ints(ty.dims)) \o
         <<Sym("]"), Word(ty.layout)>> \o (IF ty.kind = "memref" THEN <<Word(ty.space)>> ELSE <<>>)

RegionSlots(a, r) ==    \* per_region: the live slots of a region, ascending
  SelectSeq([s \in DOMAIN a.nodes |-> s], LAMBDA s : a.nodes[s].region = r)
Owned(a, s) ==
  SelectSeq([r \in DOMAIN a.regions |-> r], LAMBDA r : a.regions[r].owner = s)

RECURSIVE print_region_nodes(_, _, _)
print_node(a, s, depth) ==
  LET n == a.nodes[s]
      uses == Commas([i \in DOMAIN n.ins |-> <<"v", n.ins[i]>>])
      def == << <<"v", s>>, Sym("=")>>
      owned == Owned(a, s)
      Block(k) == print_region_nodes(a, owned[k], depth + 1)
  IN  CASE n.op.name = "if" /\ Len(owned) = 2 ->
             def \o <<Word("if")>> \o uses \o <<Sym(":")>> \o format_type(n.ty)
             \o <<Sym("{"), Eol>> \o Block(1)
             \o <<Sym("}"), Word("else"), Sym("{"), Eol>> \o Block(2) \o <<Sym("}"), Eol>>
        [] n.op.name = "if" /\ Len(owned) # 2 ->
             def \o <<Word("if")>> \o uses \o <<Eol>> \o FlattenSeq([k \in DOMAIN owned |-> Block(k)])
        [] OTHER ->
             def \o format_op(n.op) \o uses \o <<Sym(":")>> \o format_type(n.ty) \o <<Eol>>

print_region_nodes(a, r, depth) ==
  IF depth > MAX_NEST THEN <<>>
  ELSE LET slots == RegionSlots(a, r)
       IN  FlattenSeq([k \in DOMAIN slots |-> print_node(a, slots[k], depth)])

Header == <<Word("xir"), Word("v1"), Word("func"), Word("@main"), Sym("{")>>
print_arena(a) ==
  Header \o <<Eol>> \o print_region_nodes(a, 1, 1) \o <<Sym("}"), Eol>>

(***************************************************************************)
(* The parser.  Its state has the tokens and the position, the first error *)
(* (after which no step changes anything), the last thing parsed (out),    *)
(* the parts of the statement at hand (def, op, args, ins) and what was    *)
(* built: nodes, regions, and the value names in definition order (vals).  *)
(***************************************************************************)
Peek(p) == IF p.pos <= Len(p.toks) THEN p.toks[p.pos] ELSE <<"end", "">>
Fail_(p, why) == [p EXCEPT !.err = why]
Advance(p) == [p EXCEPT !.pos = @ + 1]
AtEnd(p) == p.pos > Len(p.toks)

\* next()? followed by a test of the token; the value is the token's second part.
Take(p, ok, why) ==
  IF p.err # "" THEN p
  ELSE IF AtEnd(p) THEN Fail_(p, "Truncated")
  ELSE IF ok THEN [Advance(p) EXCEPT !.out = Peek(p)[2]] ELSE Fail_(p, why)

Expect(p, tok) == Take(p, Peek(p) = tok, "UnexpectedToken")
SkipIf(p, tok) == IF p.err = "" /\ Peek(p) = tok THEN Advance(p) ELSE p

RECURSIVE skip_eols(_)
skip_eols(p) == IF p.err = "" /\ Peek(p) = Eol THEN skip_eols(Advance(p)) ELSE p

\* The lexer refuses an integer that is no i64; an "i" token is one the text spells.
lex(toks) ==
  \A i \in DOMAIN toks : toks[i][1] = "i" => toks[i][2] <= I64Max

\* A comma-separated list of integers that ends at the first token that is none.
RECURSIVE ReadInts(_, _)
ReadInts(p, acc) ==
  IF p.err # "" \/ Peek(p)[1] # "i" THEN [p EXCEPT !.out = acc]
  ELSE LET q == Take(p, TRUE, "")
           more == Append(acc, q.out)
       IN  IF Peek(q) = Sym(",") THEN ReadInts(Advance(q), more) ELSE [q EXCEPT !.out = more]

\* transpose's list has one element at least and ends with an element.
RECURSIVE ReadPerm(_, _)
ReadPerm(p, acc) ==
  LET q == Take(p, Peek(p)[1] = "i" /\ Len(acc) < MAX_RANK /\ Peek(p)[2] <= U8Max, "BadInt")
      more == Append(acc, q.out)
  IN  IF q.err # "" THEN q
      ELSE IF Peek(q) = Sym(",") THEN ReadPerm(Advance(q), more) ELSE [q EXCEPT !.out = more]

\* Shape::from_dims.
from_dims(p, why) ==
  IF p.err # "" \/ (Len(p.out) <= MAX_RANK /\ \A i \in DOMAIN p.out : p.out[i] > 0)
  THEN p ELSE Fail_(p, why)

\* The end of a bracketed list, which is what was parsed last.
Bracketed(p) ==
  LET q == Expect(p, Sym("]")) IN IF q.err = "" THEN [q EXCEPT !.out = p.out] ELSE q

\* `bits` and the two halves of the pattern.
U32Token(p) == Take(p, Peek(p)[1] = "i" /\ Peek(p)[2] <= U32Max, "BadInt")
FromHalves(p, hi) == IF p.err = "" THEN [p EXCEPT !.out = FromBits(hi, p.out)] ELSE p
LowHalf(p) == FromHalves(U32Token(p), p.out)

parse_f64(p) ==
  LET tok == Peek(p)
      q == Take(p, tok[1] \in {"f", "i"}, "BadFloat")
  IN  IF tok = Word("bits") THEN LowHalf(U32Token(Advance(p)))
      ELSE IF q.err = "" /\ tok[1] = "i" THEN [q EXCEPT !.out = <<"whole", @>>] ELSE q

parse_value(p, arg) ==
  LET tok == Peek(p)
  IN  CASE p.err # "" -> p
        [] p.err = "" /\ arg.kind = "int" -> Take(p, tok[1] = "i" /\ tok[2] <= arg.max, "BadInt")
        [] p.err = "" /\ arg.kind = "name" ->
             Take(p, tok[1] = "w" /\ tok[2] \in arg.names,
                  IF tok[1] = "w" THEN "UnknownOp" ELSE "UnexpectedToken")
        [] p.err = "" /\ arg.kind = "bool" -> Take(p, tok[1] = "b", "UnexpectedToken")
        [] p.err = "" /\ arg.kind = "f64" -> parse_f64(p)
        [] p.err = "" /\ arg.kind = "dims" ->
             from_dims(Bracketed(ReadInts(Expect(p, Sym("[")), <<>>)), "UnknownType")
        [] p.err = "" /\ arg.kind = "perm" -> Bracketed(ReadPerm(Expect(p, Sym("[")), <<>>))

ArgKey(p, key) == IF key = "" THEN p ELSE Expect(Expect(p, Word(key)), Sym("="))
AddArg(p) == IF p.err = "" THEN [p EXCEPT !.args = Append(@, p.out)] ELSE p
parse_args(p, syntax) ==
  FoldLeft(LAMBDA q, arg : AddArg(parse_value(ArgKey(q, arg.key), arg)), p, syntax)

\* The opcode is the word parsed last.
WithOp(p, name) == IF p.err = "" THEN [p EXCEPT !.op = [name |-> name, args |-> p.args]] ELSE p
parse_op(p) ==
  IF p.err # "" THEN p
  ELSE IF p.out \notin OpNames THEN Fail_(p, "UnknownOp")
  ELSE WithOp(parse_args([p EXCEPT !.args = <<>>], Syntax(p.out)), p.out)

\* The dimensions, the layout and the space are optional; the global space is not spelled.
OptionalDims(p) ==
  IF Peek(p) = Sym("[") THEN Bracketed(ReadInts(Advance(p), <<>>)) ELSE [p EXCEPT !.out = <<>>]
ShapedType(p, kind, elem) ==
  LET l == IF Peek(p) \in {Word("row"), Word("col")} THEN Advance(p) ELSE p
      layout == IF Peek(p) = Word("col") THEN "col" ELSE "row"
      spaced == kind = "memref" /\ Peek(l) \in {Word("shared"), Word("register")}
      tensor == [kind |-> kind, elem |-> elem, dims |-> p.out, layout |-> layout]
  IN  IF p.err # "" THEN p
      ELSE [(IF spaced THEN Advance(l) ELSE l) EXCEPT !.out =
              IF kind = "tensor" THEN tensor
              ELSE tensor @@ [space |-> IF spaced THEN Peek(l)[2] ELSE "global"]]
parse_shaped(p, kind, elem) ==
  ShapedType(from_dims(OptionalDims(p), "UnknownType"), kind, elem)

parse_type_tokens(p) ==
  LET tok == Peek(p)
      plain == tok \in {Word("token"), Word("none")}
      q == Take(p, plain \/ (tok[1] = "<" /\ tok[3] \in Elems), "UnknownType")
  IN  IF q.err # "" THEN q
      ELSE IF plain THEN [q EXCEPT !.out = [kind |-> tok[2]]]
      ELSE IF tok[2] = "scalar" THEN [q EXCEPT !.out = [kind |-> "scalar", elem |-> tok[3]]]
      ELSE parse_shaped(q, tok[2], tok[3])

infer_type(op) ==
  CASE op.name = "const.i64" -> [kind |-> "scalar", elem |-> "i64"]
    [] op.name \in {"const.f64", "param", "dot", "matmul", "reduce", "broadcast", "transpose",
                    "conv", "binary.add", "binary.sub", "binary.mul", "binary.div", "binary.max",
                    "binary.min", "unary.relu", "unary.neg", "unary.exp", "unary.log"} ->
         [kind |-> "scalar", elem |-> "f64"]
    [] OTHER -> [kind |-> "none"]

\* The slot of the latest definition of %n, 0 if there is none.
LookupValue(vals, n) ==
  IF \E i \in DOMAIN vals : vals[i] = n THEN Max({i \in DOMAIN vals : vals[i] = n}) ELSE 0

RECURSIVE parse_inputs(_, _)
parse_inputs(p, acc) ==
  IF p.err # "" \/ Peek(p)[1] # "v" THEN [p EXCEPT !.out = acc]
  ELSE LET slot == LookupValue(p.vals, Peek(p)[2])
           q == Take(p, slot # 0, "UnexpectedToken")
           more == Append(acc, slot)
       IN  IF q.err = "" /\ Peek(q) = Sym(",") THEN parse_inputs(Advance(q), more)
           ELSE [q EXCEPT !.out = more]

FirstInputs(ins) == SubSeq(ins, 1, Min({Len(ins), MAX_INPUTS}))
insert_statement(p, region) ==
  IF p.err # "" THEN p
  ELSE IF Len(p.nodes) >= TextCapacity THEN Fail_(p, "ArenaExhausted")
  ELSE [p EXCEPT !.nodes = Append(@, [op |-> p.op, ins |-> FirstInputs(p.ins), ty |-> p.out,
                                      region |-> region]),
                 !.vals = Append(@, p.def)]

\* Fault model: every region hangs off the root.
AddToRoot(p, owner, parent) ==
  IF p.err # "" THEN p ELSE [p EXCEPT !.regions = Append(@, [owner |-> owner, parent |-> 1])]

add_region(p, owner, parent) ==
  IF p.err # "" THEN p
  ELSE IF Len(p.regions) >= TextCapacity \div 2 + 8 THEN Fail_(p, "ArenaExhausted")
  ELSE [p EXCEPT !.regions = Append(@, [owner |-> owner, parent |-> parent])]

EndOfStatement(p) ==
  IF p.err # "" \/ AtEnd(p) THEN p ELSE Expect(p, Eol)

RECURSIVE parse_block(_, _, _)
parse_branch(p, owner, region, depth) ==
  LET q == add_region(Expect(p, Sym("{")), owner, region)
  IN  parse_block(q, Len(q.regions), depth + 1)

\* %n = op inputs, an optional type (an `if` has to have one), and the branches of an `if`.
parse_def(p) == Take(p, Peek(p)[1] = "v", "UnexpectedToken")
OpWord(p) == Take(p, Peek(p)[1] = "w", "UnexpectedToken")
StatementHead(p) == OpWord(Expect([p EXCEPT !.def = p.out], Sym("=")))
WithInputs(p) == [p EXCEPT !.ins = p.out]
parse_annotation(p) ==
  IF p.err # "" THEN p
  ELSE IF Peek(p) = Sym(":") THEN parse_type_tokens(Advance(p))
  ELSE IF p.op.name = "if" THEN Expect(p, Sym(":"))
  ELSE [p EXCEPT !.out = infer_type(p.op)]
parse_branches(p, owner, region, depth) ==
  IF p.err # "" \/ p.op.name # "if" THEN p
  ELSE parse_branch(Expect(parse_branch(p, owner, region, depth), Word("else")),
                    owner, region, depth)
AfterInsert(p, region, depth) ==
  EndOfStatement(parse_branches(p, Len(p.nodes), region, depth))

parse_statement(p, region, depth) ==
  AfterInsert(
    insert_statement(
      parse_annotation(
        WithInputs(parse_inputs(parse_op(StatementHead(parse_def(p))), <<>>))), region),
    region, depth)

parse_block(p, region, depth) ==
  LET q == skip_eols(p)
  IN  IF q.err # "" THEN q
      ELSE IF depth > MAX_NEST THEN Fail_(q, "NestingTooDeep")
      ELSE IF Peek(q) = Sym("}") THEN Advance(q)
      ELSE IF AtEnd(q) THEN Fail_(q, "Truncated")
      ELSE parse_block(parse_statement(q, region, depth), region, depth)

Start_(toks) ==
  [toks |-> toks, pos |-> 1, err |-> IF lex(toks) THEN "" ELSE "BadInt", out |-> 0,
   def |-> 0, op |-> Hole.op, args |-> <<>>, ins |-> <<>>,
   nodes |-> <<>>, regions |-> <<[owner |-> 0, parent |-> 0]>>, vals |-> <<>>]

AllRead(p) == IF p.err = "" /\ ~AtEnd(p) THEN Fail_(p, "UnexpectedToken") ELSE p
parse_header(p) == Expect(Expect(Expect(p, Word("xir")), Word("v1")), Word("func"))
parse_arena(toks) ==
  AllRead(skip_eols(parse_block(
    Expect(SkipIf(parse_header(Start_(toks)), Word("@main")), Sym("{")), 1, 0)))

ArenaOf(p) == [nodes |-> p.nodes, regions |-> p.regions]

(***************************************************************************)
(* A tool session: a program is printed, the text may lose a token or get  *)
(* one twice on its way, it is parsed, and what was parsed is printed      *)
(* again.                                                                  *)
(***************************************************************************)
VARIABLES
  shown,       \* the arena the text was printed from
  text,        \* the tokens
  damaged,     \* the text is not the printed one
  read,        \* the parser's result, NoRead before it ran
  reads        \* how often it ran
text_vars == <<shown, text, damaged, read, reads>>

NoRead == [ok |-> FALSE, done |-> FALSE, arena |-> [nodes |-> <<>>, regions |-> <<>>]]
Reading(p) ==
  [ok |-> p.err = "", done |-> TRUE, arena |-> IF p.err = "" THEN ArenaOf(p) ELSE NoRead.arena]

TextInit ==
  /\ shown = NoRead.arena /\ text = <<>>
  /\ damaged = FALSE /\ read = NoRead /\ reads = 0

PrintText ==
  /\ text = <<>>
  /\ \E k \in DOMAIN TextPrograms :
       shown' = TextPrograms[k] /\ text' = print_arena(TextPrograms[k])
  /\ UNCHANGED <<damaged, read, reads>>

\* External: the file the text is kept in loses or repeats a token.
DamageText ==
  /\ ~damaged /\ ~read.done /\ reads = 0
  /\ damaged' = TRUE
  /\ \E i \in DOMAIN text :
       text' \in {RemoveAt(text, i), SubSeq(text, 1, i) \o SubSeq(text, i, Len(text))}
  /\ UNCHANGED <<shown, read, reads>>

ParseText ==
  /\ text # <<>> /\ ~read.done /\ reads < MaxReads
  /\ read' = Reading(parse_arena(text)) /\ reads' = reads + 1
  /\ UNCHANGED <<shown, text, damaged>>

PrintAgain ==
  /\ read.ok
  /\ shown' = read.arena /\ text' = print_arena(read.arena)
  /\ read' = NoRead /\ damaged' = FALSE
  /\ UNCHANGED reads

TextNext == PrintText \/ DamageText \/ ParseText \/ PrintAgain

TextSpec == TextInit /\ [][TextNext]_text_vars

(***************************************************************************)
(* Properties.                                                             *)
(***************************************************************************)
RECURSIVE PrintOrder(_, _)
PrintOrder(a, r) ==
  LET slots == RegionSlots(a, r)
  IN  FlattenSeq([k \in DOMAIN slots |->
        <<slots[k]>> \o FlattenSeq([j \in DOMAIN Owned(a, slots[k]) |->
                                     PrintOrder(a, Owned(a, slots[k])[j])])])

RECURSIVE Level(_, _)
Level(a, r) == IF r = 1 THEN 1 ELSE 1 + Level(a, a.regions[r].parent)

LiveNodes(a) == {s \in DOMAIN a.nodes : a.nodes[s] # Hole}
Before(seq, x, y) == \E i, j \in DOMAIN seq : i < j /\ seq[i] = x /\ seq[j] = y

\* The arena in print order is the other arena, slots and regions renumbered.
Place(a, s) ==
  LET r == a.nodes[s].region
      o == a.regions[r].owner
  IN  IF r = 1 THEN <<0, 0>> ELSE <<o, CHOOSE k \in DOMAIN Owned(a, o) : Owned(a, o)[k] = r>>
SameProgram(a, b) ==
  LET order == PrintOrder(a, 1)
      New(s) == IF s = 0 THEN 0 ELSE CHOOSE k \in DOMAIN order : order[k] = s
  IN  /\ ToSet(order) = LiveNodes(a) /\ Len(order) = Len(b.nodes)
      /\ \A k \in DOMAIN order :
           LET n == a.nodes[order[k]]
           IN  /\ n.op.name = b.nodes[k].op.name /\ n.op = b.nodes[k].op /\ n.ty = b.nodes[k].ty
               /\ b.nodes[k].ins = [i \in DOMAIN n.ins |-> New(n.ins[i])]
               /\ Place(b, k) = <<New(Place(a, order[k])[1]), Place(a, order[k])[2]>>

\* What version 1 of the text can say; each exclusion is a way in which a legal program does
\* not survive.
Spelled(op) ==
  /\ op.name = "rng" => op.args[2] <= I64Max
  /\ op.name = "transpose" => op.args[1] # <<>>
Representable(a) ==
  LET order == PrintOrder(a, 1)
  IN  \A s \in LiveNodes(a) :
        LET n == a.nodes[s]
        IN  /\ Level(a, n.region) <= MAX_NEST
            /\ \A i \in DOMAIN n.ins : Before(order, n.ins[i], s)
            /\ n.op.name = "if" => Len(Owned(a, s)) = 2
            /\ Spelled(n.op)
            /\ ~(n.ty.kind = "memref" /\ n.ty.space = "global")

\* The printed text of every program that version 1 of the text can say parses back to that
\* program, slots renumbered in print order, whatever a damaged text was accepted as before
\* (roundtrip_flat_function, roundtrip_if_regions and float_bits_roundtrip test single
\* cases).  The other programs do not come back: LostInText in MCText.
TextRoundTrips ==
  Representable(shown) /\ read.done /\ ~damaged => read.ok /\ SameProgram(shown, read.arena)

\* Whatever text is accepted, damaged or not, every operand is defined above its use, and
\* every if owns a then and an else region inside the region it stands in itself: the
\* linkage the printer and the verifier rely on.
AcceptedTextIsLinked ==
  read.ok =>
    LET a == read.arena
    IN  /\ \A s \in DOMAIN a.nodes : \A i \in DOMAIN a.nodes[s].ins : a.nodes[s].ins[i] \in 1..(s - 1)
        /\ \A s \in DOMAIN a.nodes : a.nodes[s].op.name = "if" =>
             /\ Len(Owned(a, s)) = 2
             /\ \A k \in 1..2 : a.regions[Owned(a, s)[k]].parent = a.nodes[s].region

\* Printer and parser agree on what a text says.
TextFaithful == TextRoundTrips /\ AcceptedTextIsLinked
=============================================================================
