---------------------------- MODULE TensorKernels ---------------------------
(***************************************************************************)
(* The tensor kernels of the tier 0 interpreter (runtime/src/interp.rs,    *)
(* value.rs): execute runs instructions over a value table in which a      *)
(* tensor is its row-major data and its dimensions, and every kernel does  *)
(* its own index arithmetic.  `denoted` keeps, beside each slot, the       *)
(* tensor that the slot stands for as a function from index tuples to      *)
(* numbers, computed without any layout.                                   *)
(*                                                                         *)
(* A value is [kind, data, dims]: an f64 or an i64 has one number and no   *)
(* dimension.  Numbers are integers, so div, exp and log are left to the   *)
(* scalars of Xir.tla; Inf, above every number that occurs, stands for     *)
(* f64::INFINITY.  An error is a value of kind "error" with the            *)
(* RuntimeError as its data.  Slots are numbered from 1; lowering gives    *)
(* every instruction a result slot of its own.                             *)
(***************************************************************************)
EXTENDS Integers, Sequences, SequencesExt, FiniteSets, FiniteSetsExt, Functions

CONSTANTS
  KernelParams,     \* a sequence of parameter lists
  MaxKernels        \* bound: instructions per program

Inf == 10^8
F64Value(x) == [kind |-> "f64", data |-> <<x>>, dims |-> <<>>]
I64Value(x) == [kind |-> "i64", data |-> <<x>>, dims |-> <<>>]
Tensor(data, dims) == [kind |-> "tensor", data |-> data, dims |-> dims]
RuntimeError(why) == [kind |-> "error", data |-> <<why>>, dims |-> <<>>]

Product(s) == FoldLeft(LAMBDA a, b : a * b, 1, s)
SumTo(n, Term(_)) == FoldLeft(LAMBDA acc, k : acc + Term(k), 0, [k \in 1..n |-> k - 1])
At0(data, i) == data[i + 1]         \* data[i], numbered from 0 as in the code

(***************************************************************************)
(* Elementwise kernels.                                                    *)
(***************************************************************************)
f64_binary(op, x, y) ==
  CASE op = "add" -> x + y
    [] op = "sub" -> x - y
    [] op = "mul" -> x * y
    [] op = "max" -> IF x > y THEN x ELSE y
    [] op = "min" -> IF x < y THEN x ELSE y
f64_unary(op, x) == CASE op = "neg" -> -x [] op = "relu" -> IF x > 0 THEN x ELSE 0

SameShape(x, y) == x.dims = y.dims /\ Len(x.data) = Len(y.data)

elementwise(op, x, y) ==
  LET n == IF x.kind = "tensor" THEN Len(x.data) ELSE Len(y.data)
      Of(v, i) == IF v.kind = "tensor" THEN v.data[i] ELSE v.data[1]
      data == [i \in 1..n |-> f64_binary(op, Of(x, i), Of(y, i))]
  IN  CASE x.kind = y.kind /\ x.kind # "tensor" -> [x EXCEPT !.data = data]
        [] {x.kind, y.kind} = {"f64", "tensor"} ->
             Tensor(data, IF x.kind = "tensor" THEN x.dims ELSE y.dims)
        [] x.kind = "tensor" /\ y.kind = "tensor" /\ SameShape(x, y) -> Tensor(data, x.dims)
        [] x.kind = "tensor" /\ y.kind = "tensor" /\ ~SameShape(x, y) -> RuntimeError("ShapeMismatch")
        [] OTHER -> RuntimeError("UnsupportedValue")

un_tensor(op, x) ==
  IF x.kind = "i64" THEN RuntimeError("UnsupportedValue")
  ELSE [x EXCEPT !.data = [i \in DOMAIN x.data |-> f64_unary(op, x.data[i])]]

dot_kernel(x, y) ==
  IF "i64" \in {x.kind, y.kind} THEN RuntimeError("UnsupportedValue")
  ELSE IF Len(x.data) # Len(y.data) THEN RuntimeError("ShapeMismatch")
  ELSE F64Value(SumTo(Len(x.data), LAMBDA i : At0(x.data, i) * At0(y.data, i)))

(***************************************************************************)
(* Reduction along an axis.                                                *)
(***************************************************************************)
monoid_identity(m) ==
  CASE m \in {"add", "or"} -> 0
    [] m \in {"mul", "and"} -> 1
    [] m = "max" -> -Inf
    [] m = "min" -> Inf
monoid_apply(m, acc, v) ==
  CASE m \in {"add", "or"} -> acc + v
    [] m \in {"mul", "and"} -> acc * v
    [] m \in {"max", "min"} -> f64_binary(m, acc, v)

\* The distance of two elements that are neighbours along the axis.
InnerStride(dims, axis) == Product(SubSeq(dims, axis + 2, Len(dims)))

reduce_kernel(x, axis, m) ==
  LET out_dims == RemoveAt(x.dims, axis + 1)
      len == x.dims[axis + 1]
      inner == InnerStride(x.dims, axis)
      Fold(ob) == FoldLeft(LAMBDA acc, k :
                    monoid_apply(m, acc,
                      At0(x.data, (ob \div inner) * len * inner + (ob % inner) + k * inner)),
                    monoid_identity(m), [k \in 1..len |-> k - 1])
      out == [i \in 1..Product(out_dims) |-> Fold(i - 1)]
  IN  CASE x.kind = "f64" -> x
        [] x.kind = "i64" -> RuntimeError("UnsupportedValue")
        [] x.kind = "tensor" /\ axis >= Len(x.dims) -> RuntimeError("ShapeMismatch")
        [] x.kind = "tensor" /\ axis < Len(x.dims) ->
             IF out_dims = <<>> THEN F64Value(out[1]) ELSE Tensor(out, out_dims)

(***************************************************************************)
(* Matrix product, transpose.                                              *)
(***************************************************************************)
\* The operand's place of cell (r, c), as the code computes it.
Idx(rows, cols, r, c, tr) == IF tr THEN c * rows + r ELSE r * cols + c

\* An index behind the data panics.
matmul_kernel(x, y, ta, tb) ==
  LET m == x.dims[IF ta THEN 2 ELSE 1]
      ka == x.dims[IF ta THEN 1 ELSE 2]
      kb == y.dims[IF tb THEN 2 ELSE 1]
      n == y.dims[IF tb THEN 1 ELSE 2]
      A(r, k) == Idx(x.dims[1], x.dims[2], r, k, ta)
      B(k, c) == Idx(y.dims[1], y.dims[2], k, c, tb)
      Cell(r, c) == SumTo(ka, LAMBDA k : At0(x.data, A(r, k)) * At0(y.data, B(k, c)))
      inside == \A k \in 0..(ka - 1) : /\ \A r \in 0..(m - 1) : A(r, k) < Len(x.data)
                                       /\ \A c \in 0..(n - 1) : B(k, c) < Len(y.data)
  IN  IF "i64" \in {x.kind, y.kind} THEN RuntimeError("UnsupportedValue")
      ELSE IF Len(x.dims) # 2 \/ Len(y.dims) # 2 THEN RuntimeError("ShapeMismatch")
      ELSE IF ka # kb THEN RuntimeError("ShapeMismatch")
      ELSE IF ~inside THEN RuntimeError("panic")
      ELSE Tensor([i \in 1..(m * n) |-> Cell((i - 1) \div n, (i - 1) % n)], <<m, n>>)

transpose_kernel(x) ==
  LET r == x.dims[1]  c == x.dims[2]
  IN  IF x.kind # "tensor" THEN RuntimeError("UnsupportedValue")
      ELSE IF Len(x.dims) # 2 THEN RuntimeError("ShapeMismatch")
      ELSE Tensor([p \in DOMAIN x.data |-> At0(x.data, ((p - 1) % r) * c + ((p - 1) \div r))], <<c, r>>)

(***************************************************************************)
(* Convolution: input NCHW, filter FCHW.                                   *)
(***************************************************************************)
CeilDiv(a, b) == (a + b - 1) \div b

\* Output extent and leading padding of one spatial axis.
Extent(len, klen, padding, stride) ==
  IF padding = "valid" THEN (len - klen) \div stride + 1 ELSE CeilDiv(len, stride)
\* Fault model: all of the padding is put in front.
PadFront(len, klen, padding, stride) ==
  IF padding = "valid" THEN 0
  ELSE Max({(CeilDiv(len, stride) - 1) * stride + klen - len, 0})
PadLead(len, klen, padding, stride) ==
  IF padding = "valid" THEN 0
  ELSE Max({(CeilDiv(len, stride) - 1) * stride + klen - len, 0}) \div 2

conv_kernel(x, y, padding, stride) ==
  LET n == x.dims[1]  c == x.dims[2]  h == x.dims[3]  w == x.dims[4]
      f == y.dims[1]  kh == y.dims[3]  kw == y.dims[4]
      oh == Extent(h, kh, padding, stride)
      ow == Extent(w, kw, padding, stride)
      top == PadLead(h, kh, padding, stride)
      left == PadLead(w, kw, padding, stride)
      Tap(bn, bf, oy, ox, cc, ky, kx) ==
        LET iy == oy * stride + ky - top
            ix == ox * stride + kx - left
        IN  IF iy < 0 \/ iy >= h \/ ix < 0 \/ ix >= w THEN 0
            ELSE At0(x.data, ((bn * c + cc) * h + iy) * w + ix)
                 * At0(y.data, ((bf * c + cc) * kh + ky) * kw + kx)
      Cell(p) == LET ox == p % ow  oy == (p \div ow) % oh
                     bf == (p \div (ow * oh)) % f  bn == p \div (ow * oh * f)
                 IN  SumTo(c * kh * kw, LAMBDA t :
                       Tap(bn, bf, oy, ox, t \div (kh * kw), (t \div kw) % kh, t % kw))
  IN  IF "i64" \in {x.kind, y.kind} THEN RuntimeError("UnsupportedValue")
      ELSE IF Len(x.dims) # 4 \/ Len(y.dims) # 4 THEN RuntimeError("ShapeMismatch")
      ELSE IF stride = 0 \/ c # y.dims[2] THEN RuntimeError("ShapeMismatch")
      ELSE IF padding = "valid" /\ (kh > h \/ kw > w) THEN RuntimeError("ShapeMismatch")
      ELSE Tensor([p \in 1..(n * f * oh * ow) |-> Cell(p - 1)], <<n, f, oh, ow>>)

(***************************************************************************)
(* Instructions.  The result slot holds 0.0 until the instruction runs, so *)
(* rng, which keeps that slot's shape, yields one number.                  *)
(***************************************************************************)
Instrs(n) ==
  LET S == 1..n IN
  [name : {"add", "sub", "mul", "max", "min"}, a : S, b : S]
  \cup [name : {"neg", "relu", "mov", "broadcast", "transpose"}, a : S]
  \cup [name : {"dot"}, a : S, b : S]
  \cup [name : {"reduce"}, a : S, axis : 0..2, monoid : {"add", "mul", "max", "min", "and", "or"}]
  \cup [name : {"matmul"}, a : S, b : S, ta : BOOLEAN, tb : BOOLEAN]
  \cup [name : {"conv"}, a : S, b : S, padding : {"valid", "same"}, stride : 0..2]
  \cup [name : {"rng"}, a : {n}, seed : {3}]
  \cup [name : {"const.f64", "const.i64"}, a : {n}, v : {2}]

\* The sample depends on the seed alone; a scramble of it stands for splitmix64 and the
\* two distributions.
rng_kernel(seed) == F64Value((37 * seed + 11) % 64)

run_kernel(vals, i) ==
  LET x == vals[i.a]
  IN  CASE i.name \in {"add", "sub", "mul", "max", "min"} -> elementwise(i.name, x, vals[i.b])
        [] i.name \in {"neg", "relu"} -> un_tensor(i.name, x)
        [] i.name \in {"mov", "broadcast"} -> x
        [] i.name = "transpose" -> transpose_kernel(x)
        [] i.name = "dot" -> dot_kernel(x, vals[i.b])
        [] i.name = "reduce" -> reduce_kernel(x, i.axis, i.monoid)
        [] i.name = "matmul" -> matmul_kernel(x, vals[i.b], i.ta, i.tb)
        [] i.name = "conv" -> conv_kernel(x, vals[i.b], i.padding, i.stride)
        [] i.name = "rng" -> rng_kernel(i.seed)
        [] i.name = "const.f64" -> F64Value(i.v)
        [] i.name = "const.i64" -> I64Value(i.v)

(***************************************************************************)
(* The same instructions on tensors as functions.                          *)
(***************************************************************************)
Indices(dims) ==
  {i \in [DOMAIN dims -> 0..(Max(ToSet(dims) \cup {1}) - 1)] : \A d \in DOMAIN dims : i[d] < dims[d]}
Offset(i, dims) == FoldLeft(LAMBDA acc, d : acc * dims[d] + i[d], 0, [d \in DOMAIN dims |-> d])
Cells(v) == [i \in Indices(v.dims) |-> At0(v.data, Offset(i, v.dims))]
Denotes(v) ==
  IF v.kind = "error" THEN [kind |-> "error", dims |-> <<>>, cells |-> [i \in {} |-> 0]]
  ELSE [kind |-> v.kind, dims |-> v.dims, cells |-> Cells(v)]
Meant(dims, Cell(_)) ==
  [kind |-> IF dims = <<>> THEN "f64" ELSE "tensor", dims |-> dims,
   cells |-> [i \in Indices(dims) |-> Cell(i)]]
Undefined == [kind |-> "error", dims |-> <<>>, cells |-> [i \in {} |-> 0]]

Over(S, Term(_)) == MapThenSumSet(Term, S)
Combined(m, S, Term(_)) ==
  CASE m \in {"add", "or"} -> MapThenSumSet(Term, S)
    [] m \in {"mul", "and"} -> FoldSet(LAMBDA x, acc : Term(x) * acc, 1, S)
    [] m = "max" -> Max({Term(x) : x \in S})
    [] m = "min" -> Min({Term(x) : x \in S})

MeantElementwise(op, x, y) ==
  LET Of(v, i) == IF v.kind = "tensor" THEN v.cells[i] ELSE v.cells[<<>>]
      dims == IF x.kind = "tensor" THEN x.dims ELSE y.dims
  IN  CASE x.kind = "i64" /\ y.kind = "i64" ->
             [Meant(<<>>, LAMBDA i : f64_binary(op, x.cells[i], y.cells[i])) EXCEPT !.kind = "i64"]
        [] "i64" \in {x.kind, y.kind} /\ x.kind # y.kind -> Undefined
        [] x.kind = "tensor" /\ y.kind = "tensor" /\ x.dims # y.dims -> Undefined
        [] OTHER -> Meant(dims, LAMBDA i : f64_binary(op, Of(x, i), Of(y, i)))

Turned(x, t) ==   \* the matrix, or its transpose
  [dims |-> IF t THEN <<x.dims[2], x.dims[1]>> ELSE x.dims,
   at |-> [i \in {IF t THEN <<j[2], j[1]>> ELSE j : j \in DOMAIN x.cells} |->
             x.cells[IF t THEN <<i[2], i[1]>> ELSE i]]]

MeantMatmul(x, y, ta, tb) ==
  LET a == Turned(x, ta)  b == Turned(y, tb)
  IN  IF "i64" \in {x.kind, y.kind} \/ Len(x.dims) # 2 \/ Len(y.dims) # 2 THEN Undefined
      ELSE IF a.dims[2] # b.dims[1] THEN Undefined
      ELSE Meant(<<a.dims[1], b.dims[2]>>, LAMBDA i :
             Over(0..(a.dims[2] - 1), LAMBDA k : a.at[<<i[1], k>>] * b.at[<<k, i[2]>>]))

\* The zero-filled input, centred with the odd pixel at the end, and a window on it.
MeantConv(x, y, padding, stride) ==
  LET taps == Indices(<<y.dims[2], y.dims[3], y.dims[4]>>)
      Out(d) == IF padding = "valid" THEN ((x.dims[d] - y.dims[d]) \div stride) + 1
                ELSE CeilDiv(x.dims[d], stride)
      Missing(d) == IF padding = "valid" THEN 0
                    ELSE Max({0, (Out(d) - 1) * stride + y.dims[d] - x.dims[d]})
      \* the padding before is never more than the padding after
      Lead(d) == CHOOSE p \in 0..Missing(d) : Missing(d) - p - p \in {0, 1}
      Input(b, t, o) == LET i == <<b, t[1], o[3] * stride + t[2] - Lead(3), o[4] * stride + t[3] - Lead(4)>>
                        IN  IF i \in DOMAIN x.cells THEN x.cells[i] ELSE 0
  IN  IF "i64" \in {x.kind, y.kind} \/ Len(x.dims) # 4 \/ Len(y.dims) # 4 THEN Undefined
      ELSE IF stride = 0 \/ x.dims[2] # y.dims[2] THEN Undefined
      ELSE IF padding = "valid" /\ \E d \in 3..4 : y.dims[d] > x.dims[d] THEN Undefined
      ELSE Meant(<<x.dims[1], y.dims[1], Out(3), Out(4)>>, LAMBDA o :
             Over(taps, LAMBDA t : Input(o[1], t, o) * y.cells[<<o[2], t[1], t[2], t[3]>>]))

MeantReduce(x, axis, m) ==
  IF x.kind = "f64" THEN x
  ELSE IF x.kind = "i64" \/ axis >= Len(x.dims) THEN Undefined
  ELSE Meant(RemoveAt(x.dims, axis + 1), LAMBDA i :
         Combined(m, 0..(x.dims[axis + 1] - 1), LAMBDA k : x.cells[InsertAt(i, axis + 1, k)]))

MeantBy(means, i) ==
  LET x == means[i.a]
  IN  CASE i.name \in {"add", "sub", "mul", "max", "min"} -> MeantElementwise(i.name, x, means[i.b])
        [] i.name \in {"neg", "relu"} ->
             IF x.kind = "i64" THEN Undefined ELSE Meant(x.dims, LAMBDA c : f64_unary(i.name, x.cells[c]))
        [] i.name \in {"mov", "broadcast"} -> x
        [] i.name = "transpose" ->
             IF Len(x.dims) # 2 THEN Undefined ELSE Meant(Turned(x, TRUE).dims, LAMBDA c : Turned(x, TRUE).at[c])
        [] i.name = "dot" ->
             LET y == means[i.b]
             IN  IF "i64" \in {x.kind, y.kind} \/ Cardinality(DOMAIN x.cells) # Cardinality(DOMAIN y.cells)
                 THEN Undefined
                 ELSE Meant(<<>>, LAMBDA c : Over(DOMAIN x.cells, LAMBDA j :
                        x.cells[j] * y.cells[CHOOSE e \in DOMAIN y.cells : Offset(e, y.dims) = Offset(j, x.dims)]))
        [] i.name = "reduce" -> MeantReduce(x, i.axis, i.monoid)
        [] i.name = "matmul" -> MeantMatmul(x, means[i.b], i.ta, i.tb)
        [] i.name = "conv" -> MeantConv(x, means[i.b], i.padding, i.stride)
        [] i.name \in {"rng", "const.f64"} -> Meant(<<>>, LAMBDA c : IF i.name = "rng" THEN rng_kernel(i.seed).data[1] ELSE i.v)
        [] i.name = "const.i64" -> [Meant(<<>>, LAMBDA c : i.v) EXCEPT !.kind = "i64"]

(***************************************************************************)
(* A program runs.                                                         *)
(***************************************************************************)
VARIABLES
  vtable,      \* the value table
  denoted,     \* what its slots stand for
  skewed,      \* a product with a transposed operand that is not square has run
  kernels      \* instructions run
kernel_vars == <<vtable, denoted, skewed, kernels>>

KernelInit == vtable = <<>> /\ denoted = <<>> /\ skewed = FALSE /\ kernels = 0

StartProgram ==
  /\ vtable = <<>>
  /\ \E p \in DOMAIN KernelParams :
       /\ vtable' = KernelParams[p]
       /\ denoted' = [s \in DOMAIN KernelParams[p] |-> Denotes(KernelParams[p][s])]
  /\ UNCHANGED <<skewed, kernels>>

Skews(i) ==
  i.name = "matmul" /\ \E t \in {<<i.a, i.ta>>, <<i.b, i.tb>>} :
    t[2] /\ Len(vtable[t[1]].dims) = 2 /\ vtable[t[1]].dims[1] # vtable[t[1]].dims[2]

\* execute: an error ends the run; a later instruction uses the latest result.
RunInstr ==
  /\ vtable # <<>> /\ kernels < MaxKernels /\ Last(vtable).kind # "error"
  /\ \E i \in Instrs(Len(vtable)) :
       /\ kernels > 0 => Len(vtable) \in {i.a, IF "b" \in DOMAIN i THEN i.b ELSE 0}
       /\ vtable' = Append(vtable, run_kernel(vtable, i))
       /\ denoted' = Append(denoted, MeantBy(denoted, i))
       /\ skewed' = (skewed \/ Skews(i))
  /\ kernels' = kernels + 1

KernelNext == StartProgram \/ RunInstr

(***************************************************************************)
(* Properties.                                                             *)
(***************************************************************************)
\* Whatever the instructions and their shapes, each slot's data is the row-major listing of
\* the tensor the program denotes, and a kernel fails exactly where that tensor is undefined:
\* the kernels' index arithmetic composes.  Products with a transposed operand that is not
\* square are left to MatmulIsProduct.
KernelsMeanTensors ==
  ~skewed => \A s \in DOMAIN vtable : Denotes(vtable[s]) = denoted[s]

\* "Naive matmul with optional operand transposes" (interp.rs), "A becomes (m, ka), B becomes
\* (kb, n)": the product of the matrices so transposed.
MatmulIsProduct ==
  kernels = 1 => Denotes(Last(vtable)) = Last(denoted)
=============================================================================
