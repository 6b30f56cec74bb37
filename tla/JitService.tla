----------------------------- MODULE JitService -----------------------------
(***************************************************************************)
(* Serving kernels: the cache of crates/jit/src/cache.rs and the compile   *)
(* boundary of crates/jit/src/boundary.rs, driven the way src/tests/cli.rs *)
(* drives them.  The execution thread looks a kernel up, asks for it on a  *)
(* miss and launches what it gets; compiler workers, one at a time, answer *)
(* the requests in order; other workers fill and clear the same cache.  A  *)
(* worker that meets an error returns without an answer, and no other one  *)
(* takes its place.                                                        *)
(*                                                                         *)
(* A request is [fp, shapes, tier], and a cache entry is the request it    *)
(* was compiled for.  The two rings are bounded queues (Telemetry shows    *)
(* the ring is one) and the sharded map is a function behind a try-lock    *)
(* (ShardedMap shows the table is one); its entry count is a counter       *)
(* updated after the entry.                                                *)
(***************************************************************************)
EXTENDS Integers, Sequences, SequencesExt, FiniteSets

CONSTANTS
  JitRequests,     \* kernels the execution thread may need
  CacheCapacity,   \* JitCache::capacity
  BoundaryBound,   \* slots of each boundary ring
  Others,          \* workers besides the boundary's that use the cache
  MaxAsks,         \* bound: kernels the execution thread needs
  MaxOther         \* bound: cache operations of the other workers

ASSUME JitServiceAssumption ==
  /\ CacheCapacity \in Nat \ {0} /\ BoundaryBound \in Nat \ {0}
  /\ IsFiniteSet(Others) /\ Others \cap {"compiler", "none"} = {}
  /\ JitRequests \subseteq [fp : Nat, shapes : Seq(Seq(Nat)), tier : Nat]
  /\ \A r, s \in JitRequests :    \* the fingerprint covers the parameter types
       r.fp = s.fp => Len(r.shapes) = Len(s.shapes)
                      /\ \A i \in DOMAIN r.shapes : Len(r.shapes[i]) = Len(s.shapes[i])

VARIABLES
  jcache,      \* the map: key -> the request its entry was compiled for
  jlen,        \* ShardedMap::len
  jlock,       \* holder of the shard's try-lock, or "none"
  requests, responses,  \* the boundary rings
  task,         \* worker -> [at, req]
  exec,        \* the execution thread: [at, req]
  asked,       \* ghost: accepted requests without an answer, oldest first
  served,      \* ghost: [asked, kernel] of the last kernel launched
  asks, others          \* operations so far

boundary_vars == <<requests, responses, asked>>
cache_vars == <<jcache, jlen, jlock>>
jit_vars == <<cache_vars, boundary_vars, task, exec, served, asks, others>>

JitWorkers == Others \cup {"compiler"}
NoRequest == [fp |-> 0, shapes |-> <<>>, tier |-> 0]
NoTask == [at |-> "idle", req |-> NoRequest]

\* Fault model: the key leaves the tier out (audit F-10).
TierlessKey(r) == <<r.fp>> \o FlattenSeq(r.shapes)

\* What is hashed; fnv64 is taken to tell different inputs apart.
cache_key(r) == <<r.fp>> \o FlattenSeq(r.shapes) \o <<r.tier>>

JitInit ==
  /\ jcache = <<>> /\ jlen = 0 /\ jlock = "none"
  /\ requests = <<>> /\ responses = <<>> /\ asked = <<>>
  /\ task = [w \in JitWorkers |-> NoTask]
  /\ exec = NoTask
  /\ served = [asked |-> NoRequest, kernel |-> NoRequest]
  /\ asks = 0 /\ others = 0

(***************************************************************************)
(* The execution thread.                                                   *)
(***************************************************************************)
\* The kernel found for r is launched.
Launch(r, kernel) == served' = [asked |-> r, kernel |-> kernel]

\* lookup clones the entry under a pin.
Lookup(r) ==
  /\ exec.at = "idle" /\ asks < MaxAsks
  /\ asks' = asks + 1
  /\ IF cache_key(r) \in DOMAIN jcache
     THEN Launch(r, jcache[cache_key(r)]) /\ UNCHANGED exec
     ELSE exec' = [at |-> "miss", req |-> r] /\ UNCHANGED served
  /\ UNCHANGED <<cache_vars, boundary_vars, task, others>>

\* A full ring is retried.
PushRequest ==
  /\ exec.at = "miss" /\ Len(requests) < BoundaryBound
  /\ exec' = NoTask
  /\ requests' = Append(requests, exec.req)
  /\ asked' = Append(asked, exec.req)
  /\ UNCHANGED <<cache_vars, responses, task, served, asks, others>>

\* A failed compilation, or a kernel that is gone again, falls back to tier 0.
PopResponse ==
  /\ exec.at = "idle" /\ responses # <<>>
  /\ LET resp == Head(responses)
     IN  IF ~resp.failed /\ resp.kernel_key \in DOMAIN jcache
         THEN Launch(Head(asked), jcache[resp.kernel_key])
         ELSE UNCHANGED served
  /\ responses' = Tail(responses)
  /\ asked' = Tail(asked)
  /\ UNCHANGED <<cache_vars, requests, task, exec, asks, others>>

(***************************************************************************)
(* The compiler worker.                                                    *)
(***************************************************************************)
PopRequest ==
  /\ task["compiler"].at = "idle" /\ requests # <<>>
  /\ task' = [task EXCEPT !["compiler"] = [at |-> "compile", req |-> Head(requests)]]
  /\ requests' = Tail(requests)
  /\ UNCHANGED <<cache_vars, responses, asked, exec, served, asks, others>>

\* Tier 3 is always refused, any other compilation may fail; the worker then returns.
CompileRequest ==
  /\ task["compiler"].at = "compile"
  /\ \E outcome \in {"insert", "stopped"} :
       /\ task["compiler"].req.tier = 3 => outcome = "stopped"
       /\ task' = [task EXCEPT !["compiler"].at = outcome]
  /\ UNCHANGED <<cache_vars, boundary_vars, exec, served, asks, others>>

Answer == [kernel_key |-> cache_key(task["compiler"].req), failed |-> FALSE]

\* Fault model: the result of push_response is ignored.
PushIgnoringFull ==
  /\ task["compiler"].at = "done"
  /\ responses' = IF Len(responses) < BoundaryBound THEN Append(responses, Answer) ELSE responses
  /\ task' = [task EXCEPT !["compiler"] = NoTask]
  /\ UNCHANGED <<cache_vars, requests, asked, exec, served, asks, others>>

\* push_response is tried once: a full ring ends the worker.
PushResponse ==
  /\ task["compiler"].at = "done"
  /\ IF Len(responses) < BoundaryBound
     THEN /\ responses' = Append(responses, Answer)
          /\ task' = [task EXCEPT !["compiler"] = NoTask]
     ELSE /\ task' = [task EXCEPT !["compiler"].at = "stopped"]
          /\ UNCHANGED responses
  /\ UNCHANGED <<cache_vars, requests, asked, exec, served, asks, others>>

(***************************************************************************)
(* JitCache::insert and remove, by any worker.                             *)
(***************************************************************************)
OtherOperation(w, op, r) ==
  /\ task[w].at = "idle" /\ w \in Others /\ others < MaxOther
  /\ others' = others + 1
  /\ task' = [task EXCEPT ![w] = [at |-> op, req |-> r]]
  /\ UNCHANGED <<cache_vars, boundary_vars, exec, served, asks>>

\* The end of a failed and of a successful operation.
Settle(w, at) ==
  task' = [task EXCEPT ![w] = IF w = "compiler" THEN [@ EXCEPT !.at = at] ELSE NoTask]

\* Fault model: the entry count is compared with the capacity one too late.
CountAboveCapacity == jlen > CacheCapacity

\* The saturation test reads the counter before the shard is locked.
Saturated == jlen >= CacheCapacity

\* Err(Capacity): the boundary's worker returns.
InsertRefused(w) ==
  /\ task[w].at = "insert" /\ Saturated
  /\ Settle(w, "stopped")
  /\ UNCHANGED <<cache_vars, boundary_vars, exec, served, asks, others>>

InsertAdmitted(w) ==
  /\ task[w].at = "insert" /\ ~Saturated
  /\ task' = [task EXCEPT ![w].at = "admitted"]
  /\ UNCHANGED <<cache_vars, boundary_vars, exec, served, asks, others>>

\* Err(Shard(Busy)): the boundary's worker returns, another one calls again.
InsertBusy(w) ==
  /\ task[w].at = "admitted" /\ jlock # "none"
  /\ task' = [task EXCEPT ![w].at = IF w = "compiler" THEN "stopped" ELSE "insert"]
  /\ UNCHANGED <<cache_vars, boundary_vars, exec, served, asks, others>>

\* The shard's try-lock; a remove that finds it taken calls again.
TryLock(w, from, to) ==
  /\ task[w].at = from /\ jlock = "none"
  /\ jlock' = w
  /\ task' = [task EXCEPT ![w].at = to]
  /\ UNCHANGED <<jcache, jlen, boundary_vars, exec, served, asks, others>>

LockInsert(w) == TryLock(w, "admitted", "store")
LockRemove(w) == TryLock(w, "remove", "erase")

\* Fault model: an overwrite is counted like a new entry.
CountsOverwrite(w) ==
  /\ task[w].at = "store"
  /\ LET k == cache_key(task[w].req)
     IN  jcache' = [x \in DOMAIN jcache \cup {k} |-> IF x = k THEN task[w].req ELSE jcache[x]]
  /\ task' = [task EXCEPT ![w].at = "count"]
  /\ UNCHANGED <<jlen, jlock, boundary_vars, exec, served, asks, others>>

\* An existing key is overwritten and not counted again.
StoreEntry(w) ==
  /\ task[w].at = "store"
  /\ LET k == cache_key(task[w].req)
     IN  /\ jcache' = [x \in DOMAIN jcache \cup {k} |->
                         IF x = k THEN task[w].req ELSE jcache[x]]
         /\ task' = [task EXCEPT ![w].at = IF k \in DOMAIN jcache THEN "unlock" ELSE "count"]
  /\ UNCHANGED <<jlen, jlock, boundary_vars, exec, served, asks, others>>

CountEntry(w) ==
  /\ task[w].at = "count"
  /\ jlen' = jlen + 1
  /\ task' = [task EXCEPT ![w].at = "unlock"]
  /\ UNCHANGED <<jcache, jlock, boundary_vars, exec, served, asks, others>>

EraseEntry(w) ==
  /\ task[w].at = "erase"
  /\ LET k == cache_key(task[w].req)
     IN  /\ jcache' = [x \in DOMAIN jcache \ {k} |-> jcache[x]]
         /\ task' = [task EXCEPT ![w].at = IF k \in DOMAIN jcache THEN "uncount" ELSE "unlock"]
  /\ UNCHANGED <<jlen, jlock, boundary_vars, exec, served, asks, others>>

UncountEntry(w) ==
  /\ task[w].at = "uncount"
  /\ jlen' = jlen - 1
  /\ task' = [task EXCEPT ![w].at = "unlock"]
  /\ UNCHANGED <<jcache, jlock, boundary_vars, exec, served, asks, others>>

Unlock(w) ==
  /\ task[w].at = "unlock"
  /\ jlock' = "none"
  /\ Settle(w, "done")
  /\ UNCHANGED <<jcache, jlen, boundary_vars, exec, served, asks, others>>

CompilerStep ==
  LET w == "compiler"
  IN  \/ PopRequest \/ CompileRequest \/ PushResponse
      \/ InsertRefused(w) \/ InsertAdmitted(w) \/ InsertBusy(w) \/ LockInsert(w)
      \/ StoreEntry(w) \/ CountEntry(w) \/ Unlock(w)

OtherStep(w) ==
  \/ \E r \in JitRequests, op \in {"insert", "remove"} : OtherOperation(w, op, r)
  \/ InsertRefused(w) \/ InsertAdmitted(w) \/ InsertBusy(w) \/ LockInsert(w) \/ LockRemove(w)
  \/ StoreEntry(w) \/ CountEntry(w) \/ EraseEntry(w) \/ UncountEntry(w) \/ Unlock(w)

ExecStep ==
  \/ \E r \in JitRequests : Lookup(r)
  \/ PushRequest \/ PopResponse

JitNext == CompilerStep \/ ExecStep \/ \E w \in Others : OtherStep(w)

JitSpec == JitInit /\ [][JitNext]_jit_vars

\* A worker that holds a task, and an execution thread that has answers, goes on.
JitFairness ==
  /\ WF_jit_vars(CompilerStep)
  /\ WF_jit_vars(PushRequest) /\ WF_jit_vars(PopResponse)
  /\ \A w \in Others : WF_jit_vars(task[w].at # "idle" /\ OtherStep(w))

(***************************************************************************)
(* Properties.                                                             *)
(***************************************************************************)
\* What is launched was compiled for what was asked: same graph, same shapes, same tier.
\* It takes unambiguous keys (cache_key) and answers that arrive in the order of the
\* requests, with none left out before a later one (JitBoundary).
ServedWhatWasAsked == served.kernel = served.asked

\* "capacity bounds total entries" (JitCache::new).  The test of the capacity and the
\* insert are not one step, so this does not hold (run cache_capacity).
CapacityBoundsEntries == Cardinality(DOMAIN jcache) <= CacheCapacity

\* How far the capacity is exceeded: by no more entries than there are concurrent writers
\* besides the first (JitCache::insert).
OvershootBounded == Cardinality(DOMAIN jcache) <= CacheCapacity + Cardinality(Others)

\* Whenever no writer is between an entry and its count, the counter the saturation test
\* reads is the number of entries; a remove of an absent key and an overwrite do not
\* move it.
CountExact ==
  (\A w \in JitWorkers : task[w].at \notin {"count", "uncount"}) => jlen = Cardinality(DOMAIN jcache)

\* Every accepted request is answered or the worker has ended: it ends, without an answer,
\* when its compilation, its insert or its one attempt to answer fails.  Short of that
\* nothing is lost and nobody waits for ever: full request rings, a busy cache and answers
\* that find their kernel gone again included.
AnsweredUnlessStopped == (asked # <<>>) ~> (asked = <<>> \/ task["compiler"].at = "stopped")

\* The capacity is exceeded by the writers in flight at most, and never because the counter
\* drifts away from the entries: overwrites, removes of absent keys and refused inserts
\* leave it exact.
CacheAccounted == OvershootBounded /\ CountExact
=============================================================================
