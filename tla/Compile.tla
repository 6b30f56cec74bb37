------------------------------ MODULE Compile ------------------------------
(***************************************************************************)
(* One compilation, pass by pass (jit/src/driver.rs compile with           *)
(* xir-levels/src/passman.rs): a source arena goes through the             *)
(* transactional passes of its tier and ends as a target program or an     *)
(* error.                                                                  *)
(*                                                                         *)
(*   tier 0   verify, project, lower                                       *)
(*   tier 1   + fold, gvn, dce                  (CanonicalizePass)         *)
(*   tier 2   + lift, saturate, extract, dce    (EgraphPass), fusion       *)
(*   tier 3   refused                                                      *)
(*                                                                         *)
(* A pass works on a clone (working) and only its verified result becomes  *)
(* current.  Layout inference between the passes and fusion touches only   *)
(* tensors and re-verifies what was just verified, so it has no step here. *)
(* The programs, the e-graph budget (8192 in the code) and the run-time    *)
(* arguments are parameters.                                               *)
(***************************************************************************)
EXTENDS EGraph, Lowering

CONSTANTS Programs,     \* source arenas
          Budgets,      \* node budgets of the e-graph
          IntArgs,      \* values an I64 parameter is run with
          FloatArgs     \* values an F64 parameter is run with

MAX_ROUNDS == 4

VARIABLES src,          \* the parsed arena
          tier,
          pc,           \* the step the driver is about to take
          error,        \* why the compilation failed, "" if it did not
          current,      \* the last published snapshot
          working,      \* the running pass's clone
          graph,        \* the e-graph of the running EgraphPass
          round,        \* saturation rounds done
          merged,       \* merges of the last rebuild
          order,        \* the schedule
          target        \* the lowered program

vars == <<src, tier, pc, error, current, working, graph, round, merged, order, target>>

NoTarget == [instrs |-> <<>>, result |-> 0, values |-> 0]

\* parse_and_verify: the last live node of the program is its only root.
Root == Max(DOMAIN src)

\* The e-graph and its budget matter at tier 2 only.
Init ==
  /\ src \in Programs
  /\ tier \in 0..3
  /\ pc = "start" /\ error = ""
  /\ current = src /\ working = src
  /\ \E b \in (IF tier = 2 THEN Budgets ELSE {Max(Budgets)}) : graph = EmptyGraph(b)
  /\ round = 0 /\ merged = 0
  /\ order = <<>> /\ target = NoTarget

Goto(label) == pc' = label /\ UNCHANGED error
Fail(reason) == pc' = "failed" /\ error' = reason

\* The three ways on from a verified program; the pass manager verifies it again on entry.
Start ==
  /\ pc = "start"
  /\ CASE ~verify(src) -> Fail("verify")
       [] verify(src) /\ tier = 3 -> Fail("tier3-pgo-unavailable")
       [] verify(src) /\ tier = 0 -> Goto("project")
       [] verify(src) /\ tier \in {1, 2} -> Goto("fold")
  /\ UNCHANGED <<src, tier, current, working, graph, round, merged, order, target>>

(***************************************************************************)
(* CanonicalizePass                                                        *)
(***************************************************************************)
RunPass(from, result, to) ==
  /\ pc = from
  /\ working' = result
  /\ Goto(to)
  /\ UNCHANGED <<src, tier, current, graph, round, merged, order, target>>

Fold == RunPass("fold", fold_run(working), "gvn")
Gvn == RunPass("gvn", gvn_run(working), "dce")
Dce == RunPass("dce", dce_run(working, {Root}), "publish")

\* An unchanged clone is dropped; a changed one is verified, then published.
Publish(from, pass, to) ==
  /\ pc = from
  /\ IF working = current \/ verify(working)
     THEN current' = working /\ Goto(to)
     ELSE Fail(pass) /\ UNCHANGED current
  /\ UNCHANGED <<src, tier, working, graph, round, merged, order, target>>

PublishCanonical ==
  Publish("publish", "canonicalize-l0", IF tier = 1 THEN "project" ELSE "lift")

(***************************************************************************)
(* EgraphPass.  An exhausted budget fails the compilation.                 *)
(***************************************************************************)
Lift ==
  /\ pc = "lift"
  /\ graph' = lift(working, graph.budget)
  /\ IF graph'.full THEN Fail("egraph-apply") ELSE Goto("saturate")
  /\ UNCHANGED <<src, tier, current, working, round, merged, order, target>>

SaturationRound ==
  /\ pc = "saturate"
  /\ LET r == saturation_round(graph)
     IN  /\ graph' = r.g
         /\ merged' = r.merged
         /\ IF r.g.full THEN Fail("egraph-apply")
            ELSE Goto(IF (r.fired = 0 /\ r.merged = 0) \/ round + 1 = MAX_ROUNDS
                      THEN "extract" ELSE "saturate")
  /\ round' = round + 1
  /\ UNCHANGED <<src, tier, current, working, order, target>>

Extract ==
  RunPass("extract", apply_choices(working, graph, extract(graph).choice), "sweep")

EgraphDce == RunPass("sweep", dce_run(working, {Root}), "commit")

PublishEgraph == Publish("commit", "egraph-apply", "project")

(***************************************************************************)
(* Scheduling and lowering.                                                *)
(***************************************************************************)
Project ==
  /\ pc = "project"
  /\ order' = IF tier = 2 THEN schedule_fused(current, search(current))
              ELSE schedule(current)
  /\ IF Range(order') = DOMAIN current /\ Root \in DOMAIN current
     THEN target' = lower(current, Root, order') /\ Goto("done")
     ELSE Fail("structurize") /\ UNCHANGED target
  /\ UNCHANGED <<src, tier, current, working, graph, round, merged>>

Finished == pc \in {"done", "failed"} /\ UNCHANGED vars

Next ==
  \/ Start \/ Fold \/ Gvn \/ Dce \/ PublishCanonical
  \/ Lift \/ SaturationRound \/ Extract \/ EgraphDce \/ PublishEgraph
  \/ Project \/ Finished

Spec == Init /\ [][Next]_vars

-----------------------------------------------------------------------------
(***************************************************************************)
(* What a program means.  Its arguments have the declared types.  The      *)
(* meaning of an arena gives every slot the value of its opcode; it is     *)
(* Defined where no instruction fails and integer quotients are whole (the *)
(* folders truncate a fractional quotient, the interpreter turns it into   *)
(* an f64).                                                                *)
(***************************************************************************)
ParamSlots(arena) == {s \in DOMAIN arena : IsParam(arena[s].op)}

Args(arena) ==
  {env \in [1..param_count(arena) -> IntArgs \cup FloatArgs] :
     \A s \in ParamSlots(arena) :
        env[arena[s].op[2] + 1] \in IF arena[s].ty = "I64" THEN IntArgs ELSE FloatArgs}

ApplyOp(op, args, env) ==
  IF IsParam(op) THEN env[op[2] + 1]
  ELSE IF \E i \in DOMAIN args : IsErr(args[i]) THEN UnsupportedValue
  ELSE run_instr(op, args)

Meaning(arena, env) ==
  LET visit(val, s) ==
        Override(val, s, ApplyOp(arena[s].op,
                                 [i \in DOMAIN arena[s].ins |-> val[arena[s].ins[i]]], env))
  IN  FoldLeft(visit, <<>>, LiveSlots(arena))

Defined(arena, env) ==
  LET val == Meaning(arena, env) IN
  \A s \in DOMAIN arena : ~IsErr(val[s]) /\ ~(arena[s].ty = "I64" /\ val[s][1] = "F")

DefinedArgs == {env \in Args(src) : Defined(src, env)}

\* The value of every e-node: the operands of a node have smaller ids.
NodeValues(g, env) ==
  LET visit(val, node) ==
        Append(val, ApplyOp(node.op, [i \in DOMAIN node.ch |-> val[node.ch[i]]], env))
  IN  FoldLeft(visit, <<>>, g.nodes)

Saturating == pc \in {"saturate", "extract"}
-----------------------------------------------------------------------------
\* Every field of the driver's state has its shape; the e-graph's tables are indexed alike
\* and every class is named by its smallest id.
TypeOK ==
  /\ tier \in 0..3
  /\ round \in 0..MAX_ROUNDS /\ merged \in Nat
  /\ DOMAIN working \subseteq DOMAIN src /\ DOMAIN current \subseteq DOMAIN src
  /\ (pc = "failed") = (error # "")
  /\ Len(graph.rep) = Len(graph.nodes)
  /\ Len(graph.xir) = Len(graph.nodes) /\ Len(graph.cc) = Len(graph.nodes)
  /\ \A c \in DOMAIN graph.rep : graph.rep[c] <= c /\ graph.rep[graph.rep[c]] = graph.rep[c]

\* Every parameter that is left sits in the value slot of its index.
ParamsBound ==
  \A s \in ParamSlots(current) : SlotTable(current, order)[s] = current[s].op[2]

\* Optimisation preserves meaning: a compiled program whose parameters sit in the value
\* slots of their indices returns, for all arguments the source is defined on, what the
\* root of the source means (driver.rs compile at every tier, interp.rs execute).
OptimisedMeansSource ==
  pc = "done" /\ ParamsBound =>
    \A env \in DefinedArgs : execute(target, env) = Meaning(src, env)[Root]

\* The e-graph is sound: at every point of the saturation all members of a class have one
\* value, and it is the constant recorded for the class (lift.rs run_rounds, rules.rs).
ClassesSound ==
  Saturating =>
    \A env \in DefinedArgs :
      LET val == NodeValues(graph, env) IN
      \A i \in DOMAIN graph.nodes :
         /\ val[i] = val[graph.rep[i]]
         /\ graph.cc[graph.rep[i]] \in {NoConst, val[i]}

\* A round whose rebuild merged nothing leaves no two congruent e-nodes in different
\* classes (egraph.rs rebuild: a single pass, repeated only by the saturation rounds).
CongruenceAtRest ==
  Saturating /\ round > 0 /\ merged = 0 =>
    \A i, j \in DOMAIN graph.nodes :
       /\ graph.nodes[i].op = graph.nodes[j].op
       /\ Canonical(graph, graph.nodes[i].ch) = Canonical(graph, graph.nodes[j].ch)
       => graph.rep[i] = graph.rep[j]

\* No pass turns a legal arena into one that the verifier rejects, so that none fails but
\* by the e-graph's budget, and the schedule places every node that is left
\* (CanonicalizePass, EgraphPass, schedule and schedule_fused).
PassesKeepLegal ==
  verify(src) /\ tier # 3 =>
    /\ error \in {"canonicalize-l0", "egraph-apply"} => graph.full
    /\ pc = "done" \/ error = "structurize" => Range(order) = DOMAIN current

\* What the interpreter returns for the unoptimised program (docs/pipeline.md: "the semantic
\* oracle for differential testing").
Oracle(env) == execute(lower(src, Root, schedule(src)), env)

\* The tiers agree: for arguments the source is defined on, a program compiled at any tier
\* returns what the tier-0 program returns (driver.rs compile).
TiersAgree == pc = "done" => \A env \in DefinedArgs : execute(target, env) = Oracle(env)

\* The e-graph between rounds: types, one value per class, closed once nothing merges.
SaturationSound == TypeOK /\ ClassesSound /\ CongruenceAtRest
=============================================================================
