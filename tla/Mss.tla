-------------------------------- MODULE Mss --------------------------------
(***************************************************************************)
(* The stochastic superoptimiser of crates/mss: four temperature bands     *)
(* walk from one seed program by local rewrites, each keeps an elite, and  *)
(* the best elite is returned.                                             *)
(*                                                                         *)
(* A program is the sequence of its slots.  Slots count from 1, so 0       *)
(* stands for NO_OPERAND (u32::MAX).  A candidate is its base program and  *)
(* a list of overlays; the code only ever looks at it through `view`, so   *)
(* the model keeps the sequence of views: an overlay Replace updates one   *)
(* slot, an Extend appends one.  The generator's draws are existential     *)
(* choices, the canonical hash is the value it hashes, and the order of    *)
(* two different hashes is a free choice.                                  *)
(***************************************************************************)
EXTENDS Integers, Sequences, FiniteSets

CONSTANTS
    SeedPrograms,    \* sequence of [slots |-> <<...>>, root |-> slot]
    Bands,           \* BANDS: 4 in the code
    ItersPerBand,    \* ITERS_PER_BAND: 400 in the code
    WordBits,        \* width of the machine integer: 64 in the code
    ParamCount       \* parameters the seed programs read

ASSUME MssAssumption ==
    /\ Bands \in Nat \ {0} /\ ItersPerBand \in Nat
    /\ WordBits \in Nat \ {0} /\ ParamCount \in Nat

VARIABLES
    seed,       \* the program given to search
    band,       \* 0 before the call, the band now walking, Bands + 1 once all have
    iteration,  \* iterations this band has made
    walker,     \* the candidate the walk stands on
    elite,      \* the best candidate of this band
    seen,       \* the transposition table
    results,    \* elites of the bands that have finished
    best        \* <<>>, then <<the candidate search returns>>

mss_vars == <<seed, band, iteration, walker, elite, seen, results, best>>

NO_OPERAND == 0

----------------------------------------------------------------------------
(* Slots and machine integers. *)

Kinds == <<"Const", "Param", "Bin", "Un", "Alias", "Dead">>

KindRank(k) == CHOOSE i \in 1..6 : Kinds[i] = k

Slot(kind, op, imm, l, r) == [kind |-> kind, op |-> op, imm |-> imm, lhs |-> l, rhs |-> r]
const_def(v) == Slot("Const", "none", v, NO_OPERAND, NO_OPERAND)
alias_def(t) == Slot("Alias", "none", 0, t, NO_OPERAND)
DeadSlot == Slot("Dead", "none", 0, NO_OPERAND, NO_OPERAND)

BinOps == <<"Add", "Sub", "Mul", "Min", "Max">>
OpRank(op) == IF \E i \in 1..5 : BinOps[i] = op THEN CHOOSE i \in 1..5 : BinOps[i] = op ELSE 0

IntLimit == 2 ^ (WordBits - 1)
MachineInts == (-IntLimit)..(IntLimit - 1)
WrapInt(x) == ((x + IntLimit) % (2 * IntLimit)) - IntLimit

Exact(op, a, b) ==
    CASE op = "Add" -> a + b
      [] op = "Sub" -> a - b
      [] op = "Mul" -> a * b
      [] op = "Min" -> IF a < b THEN a ELSE b
      [] op = "Max" -> IF a > b THEN a ELSE b

----------------------------------------------------------------------------
(* Reading a candidate. *)

IsLive(def) == def.kind \notin {"Dead", "Alias"}

\* Follow aliases to the slot that holds the value.
ResolveIn(slots, s) ==
    LET Target[x \in 1..Len(slots)] ==
            IF slots[x].kind = "Alias" THEN Target[slots[x].lhs] ELSE x
    IN Target[s]

\* An operand after alias resolution; NO_OPERAND stays.
OperandIn(slots, o) == IF o = NO_OPERAND THEN NO_OPERAND ELSE ResolveIn(slots, o)
Operands(slots, s) ==
    {ResolveIn(slots, o) : o \in {slots[s].lhs, slots[s].rhs} \ {NO_OPERAND}}

ReachableFrom(slots, root) ==
    LET Grow[n \in 0..Len(slots)] ==
            IF n = 0 THEN {ResolveIn(slots, root)}
            ELSE LET known == Grow[n - 1]
                 IN known \cup UNION {Operands(slots, s) : s \in known}
    IN Grow[Len(slots)]

----------------------------------------------------------------------------
(* interp.rs: the value of a program, slots in order, wrapping arithmetic. *)

\* Values of the slots computed so far, <<>> for a slot that has none.
SlotValues(slots, params) ==
    LET Upto[n \in 0..Len(slots)] ==
            IF n = 0 THEN <<>>
            ELSE
            LET done == Upto[n - 1]
                def == slots[n]
                ValueOf(o) == LET t == ResolveIn(slots, o)
                              IN IF t < n THEN done[t] ELSE <<>>
            IN Append(done,
                CASE def.kind = "Const" -> <<def.imm>>
                  [] def.kind = "Param" -> <<params[def.imm]>>
                  [] def.kind = "Bin" ->
                        LET a == ValueOf(def.lhs)
                            b == ValueOf(def.rhs)
                        IN IF a = <<>> \/ b = <<>> THEN <<>>
                           ELSE <<WrapInt(Exact(def.op, a[1], b[1]))>>
                  [] def.kind = "Un" ->
                        LET a == ValueOf(def.lhs)
                        IN IF a = <<>> THEN <<>> ELSE <<WrapInt(-a[1])>>
                  [] OTHER -> <<>>)
    IN Upto[Len(slots)]

\* An operand used before its slot is computed fails the whole evaluation,
\* so every slot that is not Dead or Alias must have a value.
ProgramValue(p, params) ==
    IF p.root \notin 1..Len(p.slots) \/ p.slots[p.root].kind = "Dead" THEN <<>>
    ELSE LET v == SlotValues(p.slots, params)
         IN IF \E s \in 1..Len(p.slots) : IsLive(p.slots[s]) /\ v[s] = <<>> THEN <<>>
            ELSE v[ResolveIn(p.slots, p.root)]

----------------------------------------------------------------------------
(* cost.rs.  Depth is accumulated in slot order: an operand that lies      *)
(* further on still has depth 0 when its user is weighed.                  *)

node_weight(def) ==
    CASE def.kind \in {"Alias", "Dead"} -> 0
      [] def.kind = "Bin" -> IF def.op = "Mul" THEN 3 ELSE 2
      [] OTHER -> 1

MaxOf(S) == CHOOSE x \in S : \A y \in S : y <= x

CostOf(slots) ==
    LET Depths[n \in 0..Len(slots)] ==
            IF n = 0 THEN <<>>
            ELSE LET before == Depths[n - 1] IN
                 Append(before,
                    IF ~IsLive(slots[n]) THEN 0
                    ELSE node_weight(slots[n])
                         + MaxOf({0} \cup {before[o] : o \in {x \in Operands(slots, n) : x < n}}))
        Total[n \in 0..Len(slots)] ==
            IF n = 0 THEN 0 ELSE Total[n - 1] + node_weight(slots[n])
        deep == Depths[Len(slots)]
    IN [total |-> Total[Len(slots)],
        depth |-> MaxOf({0} \cup {deep[s] : s \in 1..Len(slots)})]

----------------------------------------------------------------------------
(* cand.rs: what the canonical hash reads, and rebuilding a program.       *)

canonical_hash(c) ==
    LET live == SelectSeq([s \in 1..Len(c.slots) |-> s], LAMBDA s : IsLive(c.slots[s]))
    IN <<[i \in 1..Len(live) |->
            LET d == c.slots[live[i]] IN
            <<d.kind, d.op, d.imm, OperandIn(c.slots, d.lhs), OperandIn(c.slots, d.rhs)>>],
         c.root>>

\* Fault model: one pass over the slots, as if every operand came first.
SinglePass(slots) == 0

\* Passes over the slots, so that an operand that comes after its user (the
\* constant ReassocAdd appends) is emitted before it.
Passes(slots) == Len(slots)

\* Slots are emitted pass by pass, in slot order within a pass, each in the
\* first pass that finds its operands emitted: an operand further on costs its
\* user one more pass, a Dead operand all of them.
materialize(c) ==
    LET slots == c.slots
        reach == ReachableFrom(slots, c.root)
        PassOf[s \in reach] ==
            IF slots[s].kind = "Dead" THEN Passes(slots) + 1
            ELSE MaxOf({0} \cup {PassOf[o] + (IF o > s THEN 1 ELSE 0) : o \in Operands(slots, s)})
        pass == [s \in reach |-> PassOf[s]]
        emitted == {s \in reach : pass[s] <= Passes(slots)}
        new_index == [s \in emitted |->
            Cardinality({t \in emitted : pass[t] < pass[s] \/ (pass[t] = pass[s] /\ t <= s)})]
        NewOperand(o) == IF o = NO_OPERAND THEN NO_OPERAND ELSE new_index[ResolveIn(slots, o)]
        root == ResolveIn(slots, c.root)
    IN [slots |-> [i \in 1..Cardinality(emitted) |->
                    LET s == CHOOSE t \in emitted : new_index[t] = i
                    IN [slots[s] EXCEPT !.lhs = NewOperand(@), !.rhs = NewOperand(@)]],
        root |-> IF root \in emitted THEN new_index[root] ELSE 1]

----------------------------------------------------------------------------
(* mutate.rs: the rewrites.  Each is the set of candidates one application *)
(* may return; the empty set is None.                                      *)

Replaced(c, s, def) == [c EXCEPT !.slots[s] = def]
OccupiedSlots(c) == {s \in 1..Len(c.slots) : IsLive(c.slots[s])}
BinSlots(c, ops) == {s \in OccupiedSlots(c) : c.slots[s].kind = "Bin" /\ c.slots[s].op \in ops}
Lhs(c, s) == ResolveIn(c.slots, c.slots[s].lhs)
Rhs(c, s) == ResolveIn(c.slots, c.slots[s].rhs)
IsConstSlot(c, s) == c.slots[s].kind = "Const"
IsConstOf(c, s, v) == IsConstSlot(c, s) /\ c.slots[s].imm = v

\* x op unit and unit op x become aliases of x; the left operand is tried first.
DropUnit(c, op, unit) ==
    {Replaced(c, s, alias_def(IF IsConstOf(c, Lhs(c, s), unit) THEN Rhs(c, s) ELSE Lhs(c, s))) :
        s \in {x \in BinSlots(c, {op}) :
                 IsConstOf(c, Lhs(c, x), unit) \/ IsConstOf(c, Rhs(c, x), unit)}}

IdentityAdd(c) == DropUnit(c, "Add", 0)
IdentityMul(c) == DropUnit(c, "Mul", 1)

SubSelf(c) ==
    {Replaced(c, s, const_def(0)) : s \in {x \in BinSlots(c, {"Sub"}) : Lhs(c, x) = Rhs(c, x)}}

\* checked_add, checked_sub, checked_mul: no rewrite when the result overflows.
ConstFold(c) ==
    LET Folded(s) == Exact(c.slots[s].op, c.slots[Lhs(c, s)].imm, c.slots[Rhs(c, s)].imm)
    IN {Replaced(c, s, const_def(Folded(s))) :
            s \in {x \in BinSlots(c, {"Add", "Sub", "Mul", "Min", "Max"}) :
                     /\ IsConstSlot(c, Lhs(c, x)) /\ IsConstSlot(c, Rhs(c, x))
                     /\ Folded(x) \in MachineInts}}

KeyLess(a, b) == \E i \in 1..Len(a) : a[i] < b[i] /\ \A j \in 1..(i - 1) : a[j] = b[j]

CommuteNorm(c) ==
    LET Key(s) == <<KindRank(c.slots[s].kind), c.slots[s].imm, s>>
    IN {Replaced(c, s, [c.slots[s] EXCEPT !.lhs = c.slots[s].rhs, !.rhs = c.slots[s].lhs]) :
            s \in {x \in BinSlots(c, {"Add", "Mul", "Min", "Max"}) :
                     KeyLess(Key(Rhs(c, x)), Key(Lhs(c, x)))}}

\* (x + c1) + c2 and (c1 + x) + c2 become x + (c1 + c2), the new constant in
\* a slot appended at the end, hence after the slot that uses it.
ReassocAdd(c) ==
    LET Sum(s, k) == c.slots[k].imm + c.slots[Rhs(c, s)].imm
        Inner(s) == Lhs(c, s)
        Kept(s) == IF IsConstSlot(c, Rhs(c, Inner(s))) THEN Lhs(c, Inner(s)) ELSE Rhs(c, Inner(s))
        Constant(s) == IF IsConstSlot(c, Rhs(c, Inner(s))) THEN Rhs(c, Inner(s)) ELSE Lhs(c, Inner(s))
        Fits(s) == /\ Inner(s) \in BinSlots(c, {"Add"})
                   /\ IsConstSlot(c, Rhs(c, s)) /\ IsConstSlot(c, Constant(s))
                   /\ Sum(s, Constant(s)) \in MachineInts
    IN {[c EXCEPT !.slots =
            Append([@ EXCEPT ![s] = Slot("Bin", "Add", 0, Kept(s), Len(c.slots) + 1)],
                   const_def(Sum(s, Constant(s))))] :
            s \in {x \in BinSlots(c, {"Add"}) : Fits(x)}}

\* What makes two slots the same expression.
CseKey(c, s) ==
    LET d == c.slots[s] IN
    <<KindRank(d.kind), OpRank(d.op), d.imm, OperandIn(c.slots, d.lhs), OperandIn(c.slots, d.rhs)>>

\* The slots are sorted by key and the first equal neighbours are merged:
\* the least key held by two slots, the second of which becomes an alias.
Cse(c) ==
    LET Twins(s) == {t \in OccupiedSlots(c) : t > s /\ CseKey(c, t) = CseKey(c, s)}
        first == {s \in OccupiedSlots(c) : Twins(s) # {} /\ \A r \in 1..(s - 1) : s \notin Twins(r)}
        least == {s \in first : \A r \in first : ~KeyLess(CseKey(c, r), CseKey(c, s))}
    IN {Replaced(c, CHOOSE t \in Twins(s) : \A u \in Twins(s) : t <= u, alias_def(s)) : s \in least}

\* The first live slot the root does not reach.
DeadCode(c) ==
    LET gone == OccupiedSlots(c) \ ReachableFrom(c.slots, c.root)
    IN {Replaced(c, s, DeadSlot) : s \in {x \in gone : \A y \in gone : x <= y}}

apply(c) == IdentityAdd(c) \cup IdentityMul(c) \cup SubSelf(c) \cup ConstFold(c)
            \cup CommuteNorm(c) \cup ReassocAdd(c) \cup Cse(c) \cup DeadCode(c)

----------------------------------------------------------------------------
(* search.rs *)

tier0_legal(c) ==
    LET InRange(o) == o \in 1..Len(c.slots) IN
    /\ \A s \in 1..Len(c.slots) :
        LET d == c.slots[s] IN
        /\ d.kind \in {"Const", "Param"} => d.lhs = NO_OPERAND /\ d.rhs = NO_OPERAND
        /\ d.kind = "Bin" => InRange(d.lhs) /\ InRange(d.rhs)
        /\ d.kind \in {"Un", "Alias"} => InRange(d.lhs) /\ d.rhs = NO_OPERAND
    /\ InRange(c.root)
    /\ c.slots[c.root].kind # "Dead"

\* Fault model: any accepted candidate becomes the elite.
TakeLatest(new, old, hashLess) == TRUE

\* Lower cost, then lower depth, then lower hash (hashLess, free when the two
\* hashes differ).
candidate_order_strict(new, old, hashLess) ==
    LET a == CostOf(new.slots)
        b == CostOf(old.slots)
    IN \/ a.total < b.total
       \/ a.total = b.total /\ a.depth < b.depth
       \/ a.total = b.total /\ a.depth = b.depth
          /\ hashLess /\ canonical_hash(new) # canonical_hash(old)

NoProgram == [slots |-> <<>>, root |-> 0]

MssInit ==
    /\ seed = NoProgram /\ walker = NoProgram /\ elite = NoProgram
    /\ band = 0 /\ iteration = 0
    /\ seen = {} /\ results = <<>> /\ best = <<>>

\* search is called: every band starts from the seed, without overlays.
SearchCalled ==
    /\ band = 0
    /\ \E i \in 1..Len(SeedPrograms) :
        /\ seed' = SeedPrograms[i]
        /\ walker' = SeedPrograms[i] /\ elite' = SeedPrograms[i]
    /\ band' = 1
    /\ UNCHANGED <<iteration, seen, results, best>>

\* One iteration of run_band that produced a child.
Iterate ==
    /\ band \in 1..Bands /\ iteration < ItersPerBand
    /\ iteration' = iteration + 1
    /\ \E child \in apply(walker) :
        \/ /\ ~tier0_legal(child) \/ canonical_hash(child) \in seen
           /\ UNCHANGED <<walker, elite, seen>>
        \/ /\ tier0_legal(child) /\ canonical_hash(child) \notin seen
           /\ seen' = seen \cup {canonical_hash(child)}
           /\ \/ /\ CostOf(child.slots).total > CostOf(walker.slots).total   \* not accepted
                 /\ UNCHANGED <<walker, elite>>
              \/ /\ walker' = child
                 /\ \E hashLess \in BOOLEAN :
                        elite' = IF candidate_order_strict(child, elite, hashLess)
                                 THEN child ELSE elite
    /\ UNCHANGED <<seed, band, results, best>>

\* The band's iterations are over, the last of them perhaps without an
\* applicable rewrite: its elite is its result and the next band starts.
FinishBand ==
    /\ band \in 1..Bands
    /\ results' = Append(results, elite)
    /\ band' = band + 1
    /\ iteration' = 0 /\ walker' = seed /\ elite' = seed /\ seen' = {}
    /\ UNCHANGED <<seed, best>>

\* run_partitioned reported an error, which search discards: the bands that
\* did not run keep the placeholder, the seed.
PartitionFails ==
    /\ band \in 1..Bands
    /\ results' = results \o [b \in 1..(Bands - band + 1) |-> seed]
    /\ band' = Bands + 1
    /\ iteration' = 0 /\ walker' = seed /\ elite' = seed /\ seen' = {}
    /\ UNCHANGED <<seed, best>>

\* The elites are compared in band order, whichever worker finished first.
Reduce ==
    /\ band = Bands + 1 /\ best = <<>>
    /\ \E hashLess \in BOOLEAN :
        LET Fold[b \in 1..Bands] ==
                IF b = 1 THEN results[1]
                ELSE LET cur == Fold[b - 1] IN
                     IF candidate_order_strict(results[b], cur, hashLess) THEN results[b] ELSE cur
        IN best' = <<Fold[Bands]>>
    /\ UNCHANGED <<seed, band, iteration, walker, elite, seen, results>>

MssNext == SearchCalled \/ Iterate \/ FinishBand \/ PartitionFails \/ Reduce

----------------------------------------------------------------------------
Bindings == [1..ParamCount -> MachineInts]

\* Every candidate the walk stands on, and the one returned, rebuilt as a program, gives
\* the seed's value for every binding of the parameters, in wrapping
\* arithmetic: no chain of rewrites changes the meaning (mutate.rs apply), and
\* materialize loses no slot and orders operands before their users.
EliteMeansSeed ==
    band > 0 => \A c \in {walker} \cup {best[i] : i \in DOMAIN best} :
        LET p == materialize(c)
        IN \A params \in Bindings :
            /\ ProgramValue(p, params) = ProgramValue(seed, params)
            /\ ProgramValue(p, params) # <<>>

CheaperOrEqual(a, b) ==
    LET x == CostOf(a.slots)
        y == CostOf(b.slots)
    IN x.total < y.total \/ (x.total = y.total /\ x.depth <= y.depth)

\* What search returns is no worse than the seed and than the elite of any
\* band, even when run_partitioned failed and some bands never ran, although
\* the walk accepts worse candidates on the way (search.rs 222-238, 303-320).
BestNeverWorse ==
    best # <<>> =>
        /\ CheaperOrEqual(best[1], seed)
        /\ \A b \in 1..Bands : CheaperOrEqual(best[1], results[b])

\* The program returned means the seed and costs no more.
SearchKeepsMeaning == EliteMeansSeed /\ BestNeverWorse
=============================================================================
