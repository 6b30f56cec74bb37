------------------------------ MODULE ForkJoin ------------------------------
(***************************************************************************)
(* Fork/join regions, crates/anvil/src/executor.rs: every worker runs      *)
(* worker_loop over its own deque and its neighbours', jobs spawn children *)
(* onto the deque of the worker that runs them, and `pending` holds one    *)
(* credit per queued or running job.  A worker leaves when it reads zero.  *)
(*                                                                         *)
(* The deques are the abstract ones of WorkDeque, which ChaseLev           *)
(* implements; a thief may also find one Empty or Busy that holds jobs (an *)
(* owner's store still buffered, a CAS lost), and a push may be refused    *)
(* while a thief has yet to release the slot.                              *)
(***************************************************************************)
EXTENDS Integers, Sequences, SequencesExt, FiniteSets

CONSTANTS
  N,         \* workers of the region, 0..N-1
  Limit,     \* jobs a deque holds
  MaxJobs,   \* bound: jobs of a region, the root is job 1
  MaxPanics  \* bound: jobs that panic

ASSUME ForkJoinAssumption ==
  N \in Nat \ {0} /\ Limit \in Nat \ {0} /\ MaxJobs \in Nat \ {0} /\ MaxPanics \in Nat

Workers == 0..(N - 1)
Jobs    == 1..MaxJobs
NoJob   == 0

VARIABLES
  deque,      \* worker -> its queued jobs, oldest first
  pending,    \* the shared credit count
  pc,         \* worker -> where it stands
  taken,      \* worker -> the job it runs, or NoJob
  k,          \* worker -> offset of the next victim
  saw_panic,  \* worker -> a job it ran panicked
  created,    \* jobs 1..created exist
  ran,        \* job -> how often it was run
  panicked    \* jobs that panicked

fork_vars == <<deque, pending, pc, taken, k, saw_panic, created, ran, panicked>>

\* The root is queued on worker 0 with one credit before the workers start.
ForkInit ==
  /\ deque = [w \in Workers |-> IF w = 0 THEN <<1>> ELSE <<>>]
  /\ pending = 1
  /\ pc = [w \in Workers |-> "check"]
  /\ taken = [w \in Workers |-> NoJob]
  /\ k = [w \in Workers |-> 1]
  /\ saw_panic = [w \in Workers |-> FALSE]
  /\ created = 1
  /\ ran = [j \in Jobs |-> 0]
  /\ panicked = {}

Goto(w, l) == pc' = [pc EXCEPT ![w] = l]

Start(w, j) ==
  /\ taken' = [taken EXCEPT ![w] = j]
  /\ ran' = [ran EXCEPT ![j] = @ + 1]
  /\ Goto(w, "run")

-----------------------------------------------------------------------------
(* worker_loop *)

\* pending == 0 at the top of the loop and again after a fruitless round.
Check(w) ==
  /\ pc[w] \in {"check", "recheck"}
  /\ Goto(w, IF pending = 0 THEN "exited" ELSE IF pc[w] = "check" THEN "pop" ELSE "check")
  /\ UNCHANGED <<deque, pending, taken, k, saw_panic, created, ran, panicked>>

PopOwn(w) ==
  /\ pc[w] = "pop"
  /\ IF deque[w] # <<>>
     THEN /\ Start(w, Last(deque[w]))
          /\ deque' = [deque EXCEPT ![w] = Front(@)]
     ELSE /\ Goto(w, IF N > 1 THEN "steal" ELSE "recheck")
          /\ UNCHANGED <<deque, taken, ran>>
  /\ UNCHANGED <<pending, k, saw_panic, created, panicked>>

Victim(w) == (w + k[w]) % N

\* The loop over the victims is left; the next one starts with the nearest again.
LeaveVictims(w) == k' = [k EXCEPT ![w] = 1]

StealOk(w) ==
  /\ pc[w] = "steal" /\ deque[Victim(w)] # <<>>
  /\ Start(w, Head(deque[Victim(w)]))
  /\ deque' = [deque EXCEPT ![Victim(w)] = Tail(@)]
  /\ LeaveVictims(w)
  /\ UNCHANGED <<pending, saw_panic, created, panicked>>

\* Busy: somebody took it; the worker looks at its own deque again.
StealBusy(w) ==
  /\ pc[w] = "steal"
  /\ Goto(w, "check") /\ LeaveVictims(w)
  /\ UNCHANGED <<deque, pending, taken, saw_panic, created, ran, panicked>>

StealEmpty(w) ==
  /\ pc[w] = "steal"
  /\ IF k[w] + 1 < N THEN k' = [k EXCEPT ![w] = @ + 1] /\ UNCHANGED pc
     ELSE Goto(w, "recheck") /\ LeaveVictims(w)
  /\ UNCHANGED <<deque, pending, taken, saw_panic, created, ran, panicked>>

-----------------------------------------------------------------------------
(* WorkerCtx::spawn by the running job *)

\* Fault model: the credit is taken only after the push.
NoCreditBeforePush == pending

CreditBeforePush == pending + 1

SpawnCredit(w) ==
  /\ pc[w] = "run" /\ created < MaxJobs
  /\ pending' = CreditBeforePush
  /\ Goto(w, "spawn")
  /\ UNCHANGED <<deque, taken, k, saw_panic, created, ran, panicked>>

SpawnPush(w) ==
  /\ pc[w] = "spawn" /\ Len(deque[w]) < Limit /\ created < MaxJobs
  /\ created' = created + 1
  /\ deque' = [deque EXCEPT ![w] = Append(@, created + 1)]
  /\ Goto(w, "run")
  /\ UNCHANGED <<pending, taken, k, saw_panic, ran, panicked>>

SpawnRefused(w) ==
  /\ pc[w] = "spawn"
  /\ Goto(w, "rollback")
  /\ UNCHANGED <<deque, pending, taken, k, saw_panic, created, ran, panicked>>

\* Fault model: a refused push keeps its credit.
CreditKept == pending

CreditReturned == pending - 1

SpawnRollback(w) ==
  /\ pc[w] = "rollback"
  /\ pending' = CreditReturned
  /\ Goto(w, "run")
  /\ UNCHANGED <<deque, taken, k, saw_panic, created, ran, panicked>>

-----------------------------------------------------------------------------
\* run_job_catching: the job returns or panics, after any number of spawns.
JobEnds(w) ==
  /\ pc[w] = "run"
  /\ \E fails \in BOOLEAN :
       /\ fails => Cardinality(panicked) < MaxPanics
       /\ panicked' = IF fails THEN panicked \union {taken[w]} ELSE panicked
       /\ saw_panic' = [saw_panic EXCEPT ![w] = @ \/ fails]
  /\ Goto(w, "release")
  /\ UNCHANGED <<deque, pending, taken, k, created, ran>>

\* Fault model: a panicked job keeps its credit.
PanicLeaksCredit(w) == IF taken[w] \in panicked THEN pending ELSE pending - 1

\* The credit of a finished job is released on both paths.
Released(w) == pending - 1

Release(w) ==
  /\ pc[w] = "release"
  /\ pending' = Released(w)
  /\ taken' = [taken EXCEPT ![w] = NoJob]
  /\ Goto(w, "check")
  /\ UNCHANGED <<deque, k, saw_panic, created, ran, panicked>>

Step(w) ==
  \/ Check(w) \/ PopOwn(w) \/ StealOk(w) \/ StealBusy(w) \/ StealEmpty(w)
  \/ SpawnCredit(w) \/ SpawnPush(w) \/ SpawnRefused(w) \/ SpawnRollback(w)
  \/ JobEnds(w) \/ Release(w)

ForkNext == \E w \in Workers : Step(w)

\* Every worker thread keeps running, and a job does not run or spawn for ever.
ForkFairness == \A w \in Workers : WF_fork_vars(Step(w)) /\ SF_fork_vars(JobEnds(w))

ForkSpec == ForkInit /\ [][ForkNext]_fork_vars /\ ForkFairness

-----------------------------------------------------------------------------
(* Properties *)

Busy     == {w \in Workers : pc[w] \in {"run", "spawn", "rollback", "release"}}
Spawning == {w \in Workers : pc[w] \in {"spawn", "rollback"}}
Places   == {p \in Workers \X (1..Limit) : p[2] <= Len(deque[p[1]])}
Queued   == Cardinality(Places)
Exited   == {w \in Workers : pc[w] = "exited"}

\* The variables hold values of their types; the credit count never wraps below
\* zero.
ForkTypeOK ==
  /\ deque \in [Workers -> Seq(Jobs)] /\ \A w \in Workers : Len(deque[w]) <= Limit
  /\ pending \in Nat
  /\ pc \in [Workers -> {"check", "recheck", "pop", "steal", "run", "spawn", "rollback",
                         "release", "exited"}]
  /\ taken \in [Workers -> Jobs \union {NoJob}]
  /\ k \in [Workers -> 1..N]
  /\ saw_panic \in [Workers -> BOOLEAN]
  /\ created \in Jobs /\ ran \in [Jobs -> Nat] /\ panicked \subseteq Jobs

\* worker_loop's argument: every queued and every running job holds one credit,
\* and so does every spawn between its increment and its push or rollback.
CreditsExact == pending = Queued + Cardinality(Busy) + Cardinality(Spawning)

\* No worker leaves the region while a job is queued or running anywhere.
NoEarlyExit == Exited # {} => Queued = 0 /\ Busy = {}

\* When the region returns every job that was spawned has run exactly once, and
\* a panic of any of them is reported by the worker that ran it.
RegionComplete ==
  /\ \A j \in Jobs : ran[j] <= 1
  /\ Exited = Workers =>
       /\ \A j \in 1..created : ran[j] = 1
       /\ (panicked # {}) <=> (\E w \in Workers : saw_panic[w])

\* Quiescence always arrives: refused spawns and panicking jobs leak no credit.
RegionTerminates == <>(Exited = Workers)

\* The credit protocol: types, one credit per unfinished job, and nobody leaves early.
CreditInv == ForkTypeOK /\ CreditsExact /\ NoEarlyExit
=============================================================================
