------------------------------ MODULE MCRuntime -----------------------------
(***************************************************************************)
(* The services of the run time for TLC.  They share no state, so each     *)
(* behaviour belongs to one of them: `lane` names it, it takes steps, and  *)
(* the others rest in their initial states.  In the lanes of the others    *)
(* the channel of TypedSpsc has both ends dropped and the region of        *)
(* ForkJoin has ended.                                                     *)
(***************************************************************************)
EXTENDS TypedSpsc, ForkJoin, Nesting, Telemetry, MCTask, MCJit

VARIABLE lane

Lanes == {"channel", "forkjoin", "nesting", "telemetry", "task", "jit"}

\* Both handles dropped, nothing sent.
ChannelClosed ==
  /\ head = 0 /\ tail = 0
  /\ buffer = [s \in Slots |-> -1]
  /\ next_write = 0 /\ ppending = 0 /\ ppc = "dropped"
  /\ next_read = 0 /\ cpending = 0 /\ cpc = "dropped" /\ want = 0 /\ batch = FALSE
  /\ got = <<>>
  /\ sent = 0 /\ pub = 0 /\ rcvd = 0 /\ rel = 0

\* The root ran and every worker has left.
RegionOver ==
  /\ deque = [w \in Workers |-> <<>>] /\ pending = 0
  /\ pc = [w \in Workers |-> "exited"]
  /\ taken = [w \in Workers |-> NoJob] /\ k = [w \in Workers |-> 1]
  /\ saw_panic = [w \in Workers |-> FALSE]
  /\ created = 1 /\ ran = [j \in Jobs |-> IF j = 1 THEN 1 ELSE 0] /\ panicked = {}

RuntimeInit ==
  /\ lane \in Lanes
  /\ IF lane = "channel" THEN Init ELSE ChannelClosed
  /\ IF lane = "forkjoin" THEN ForkInit ELSE RegionOver
  /\ NestingInit /\ TelemetryInit /\ TaskInit /\ JitInit

RuntimeNext ==
  /\ UNCHANGED lane
  /\ \/ /\ lane = "channel" /\ Next
        /\ UNCHANGED <<fork_vars, nesting_vars, telemetry_vars, task_vars, jit_vars>>
     \/ /\ lane = "forkjoin" /\ ForkNext
        /\ UNCHANGED <<vars, nesting_vars, telemetry_vars, task_vars, jit_vars>>
     \/ /\ lane = "nesting" /\ NestingNext
        /\ UNCHANGED <<vars, fork_vars, telemetry_vars, task_vars, jit_vars>>
     \/ /\ lane = "telemetry" /\ TelemetryNext
        /\ UNCHANGED <<vars, fork_vars, nesting_vars, task_vars, jit_vars>>
     \/ /\ lane = "task" /\ TaskNext
        /\ UNCHANGED <<vars, fork_vars, nesting_vars, telemetry_vars, jit_vars>>
     \/ /\ lane = "jit" /\ JitNext
        /\ UNCHANGED <<vars, fork_vars, nesting_vars, telemetry_vars, task_vars>>

runtime_vars ==
  <<lane, vars, fork_vars, nesting_vars, telemetry_vars, task_vars, jit_vars>>

\* Threads that have something to do go on: each component's own fairness.
RuntimeSpec ==
  /\ RuntimeInit /\ [][RuntimeNext]_runtime_vars
  /\ Fairness /\ ForkFairness /\ JitFairness

-----------------------------------------------------------------------------
(* Values of the constants *)

\* Nesting: threads for the largest tree of scoped calls.
SpawnNames == <<"s1", "s2", "s3", "s4">>
=============================================================================
