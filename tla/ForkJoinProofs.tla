--------------------------- MODULE ForkJoinProofs ---------------------------
(***************************************************************************)
(* Proofs about ForkJoin for every number of workers and jobs and every    *)
(* deque limit: one credit per unfinished job, nobody leaves early, and    *)
(* when the region returns every job has run exactly once.                 *)
(*                                                                         *)
(* The credits are counted as in worker_loop's argument: the places of the *)
(* deques that hold a job, the workers that run one and the workers        *)
(* between a spawn's increment and its push or rollback.  A worker that    *)
(* has left read zero, and zero is stable: a credit is only taken by a     *)
(* worker that runs a job.                                                 *)
(***************************************************************************)
EXTENDS ForkJoin, IndexArithmetic, FiniteSetTheorems, SequenceTheorems, TLAPS

JobAt(p) == deque[p[1]][p[2]]

\* A queued job has not run, no job is queued twice, and a job that has not run is queued.
QueuedOnce ==
  /\ \A p \in Places : JobAt(p) \in 1..created /\ ran[JobAt(p)] = 0
  /\ \A p, q \in Places : JobAt(p) = JobAt(q) => p = q
  /\ \A j \in 1..created : ran[j] = 0 => \E p \in Places : JobAt(p) = j
  /\ \A j \in Jobs : ran[j] \in {0, 1}

\* Only jobs that were spawned run.
UnbornUnrun == \A j \in Jobs : j > created => ran[j] = 0

\* A worker that runs a job holds it.
BusyHolds == \A w \in Busy : taken[w] \in Jobs

\* A worker that has left read zero, and it stays zero.
ExitedAtZero == Exited # {} => pending = 0

\* A panic is reported by the worker that ran the job.
PanicsSeen == (panicked # {}) <=> (\E w \in Workers : saw_panic[w])

ForkInv ==
  ForkTypeOK /\ CreditsExact /\ ExitedAtZero /\ QueuedOnce /\ UnbornUnrun
    /\ BusyHolds /\ PanicsSeen

-----------------------------------------------------------------------------
(* Counting *)

\* Workers and places are finite, and so is every set of them.
LEMMA FiniteParts ==
  /\ IsFiniteSet(Places) /\ IsFiniteSet(Busy) /\ IsFiniteSet(Spawning)
  /\ Queued \in Nat /\ Cardinality(Busy) \in Nat /\ Cardinality(Spawning) \in Nat
<1>1. IsFiniteSet(Workers) /\ IsFiniteSet(1..Limit)
  BY ForkJoinAssumption, FS_Interval DEF Workers
<1>2. IsFiniteSet(Workers \X (1..Limit))
  BY <1>1, FS_Product
<1>3. Places \in SUBSET (Workers \X (1..Limit)) /\ Busy \in SUBSET Workers /\ Spawning \in SUBSET Workers
  BY DEF Places, Busy, Spawning
<1>4. IsFiniteSet(Places) /\ IsFiniteSet(Busy) /\ IsFiniteSet(Spawning)
  BY <1>1, <1>2, <1>3, FS_Subset
<1> QED BY <1>4, FS_CardinalityType DEF Queued

\* A place is a worker and a position of its deque.
LEMMA PlaceIs ==
  ASSUME ForkTypeOK, NEW w \in Workers, NEW i
  PROVE  <<w, i>> \in Places <=> i \in 1..Len(deque[w])
<1>1. Len(deque[w]) \in Nat /\ Len(deque[w]) <= Limit /\ Limit \in Nat
  BY ForkJoinAssumption DEF ForkTypeOK
<1> QED BY <1>1 DEF Places

\* What a worker's move does to the sets of busy, spawning and exited workers.
LEMMA GotoSets ==
  ASSUME ForkTypeOK, NEW w \in Workers, NEW l, Goto(w, l)
  PROVE  /\ Busy' = IF l \in {"run", "spawn", "rollback", "release"}
                    THEN Busy \union {w} ELSE Busy \ {w}
         /\ Spawning' = IF l \in {"spawn", "rollback"}
                        THEN Spawning \union {w} ELSE Spawning \ {w}
         /\ Exited' = IF l = "exited" THEN Exited \union {w} ELSE Exited \ {w}
<1>1. \A x \in Workers : pc'[x] = IF x = w THEN l ELSE pc[x]
  BY DEF ForkTypeOK, Goto
<1>2. Busy' = IF l \in {"run", "spawn", "rollback", "release"}
              THEN Busy \union {w} ELSE Busy \ {w}
  BY <1>1 DEF Busy
<1>3. Spawning' = IF l \in {"spawn", "rollback"} THEN Spawning \union {w} ELSE Spawning \ {w}
  BY <1>1 DEF Spawning
<1>4. Exited' = IF l = "exited" THEN Exited \union {w} ELSE Exited \ {w}
  BY <1>1 DEF Exited
<1> QED BY <1>2, <1>3, <1>4

\* ... and to their sizes.
LEMMA GotoCounts ==
  ASSUME ForkTypeOK, NEW w \in Workers, NEW l, Goto(w, l)
  PROVE  /\ Cardinality(Busy') = Cardinality(Busy)
              + (IF l \in {"run", "spawn", "rollback", "release"} THEN 1 ELSE 0)
              - (IF w \in Busy THEN 1 ELSE 0)
         /\ Cardinality(Spawning') = Cardinality(Spawning)
              + (IF l \in {"spawn", "rollback"} THEN 1 ELSE 0)
              - (IF w \in Spawning THEN 1 ELSE 0)
<1>1. /\ IsFiniteSet(Busy) /\ IsFiniteSet(Spawning)
      /\ Cardinality(Busy) \in Nat /\ Cardinality(Spawning) \in Nat
  BY FiniteParts
<1>2. /\ Cardinality(Busy \union {w}) = IF w \in Busy THEN Cardinality(Busy) ELSE Cardinality(Busy) + 1
      /\ Cardinality(Busy \ {w}) = IF w \in Busy THEN Cardinality(Busy) - 1 ELSE Cardinality(Busy)
  BY <1>1, FS_AddElement, FS_RemoveElement
<1>3. /\ Cardinality(Spawning \union {w})
           = IF w \in Spawning THEN Cardinality(Spawning) ELSE Cardinality(Spawning) + 1
      /\ Cardinality(Spawning \ {w})
           = IF w \in Spawning THEN Cardinality(Spawning) - 1 ELSE Cardinality(Spawning)
  BY <1>1, FS_AddElement, FS_RemoveElement
<1>4. /\ Busy' = IF l \in {"run", "spawn", "rollback", "release"}
                 THEN Busy \union {w} ELSE Busy \ {w}
      /\ Spawning' = IF l \in {"spawn", "rollback"} THEN Spawning \union {w} ELSE Spawning \ {w}
  BY GotoSets
<1>5. Cardinality(Busy') = Cardinality(Busy)
         + (IF l \in {"run", "spawn", "rollback", "release"} THEN 1 ELSE 0)
         - (IF w \in Busy THEN 1 ELSE 0)
  <2>1. CASE l \in {"run", "spawn", "rollback", "release"}
    <3>1. Busy' = Busy \union {w}
      BY <1>4, <2>1
    <3>2. Cardinality(Busy') = IF w \in Busy THEN Cardinality(Busy) ELSE Cardinality(Busy) + 1
      BY <1>2, <3>1, Zenon
    <3> QED BY <1>1, <2>1, <3>2
  <2>2. CASE l \notin {"run", "spawn", "rollback", "release"}
    <3>1. Busy' = Busy \ {w}
      BY <1>4, <2>2
    <3>2. Cardinality(Busy') = IF w \in Busy THEN Cardinality(Busy) - 1 ELSE Cardinality(Busy)
      BY <1>2, <3>1, Zenon
    <3> QED BY <1>1, <2>2, <3>2
  <2> QED BY <2>1, <2>2
<1>6. Cardinality(Spawning') = Cardinality(Spawning)
         + (IF l \in {"spawn", "rollback"} THEN 1 ELSE 0)
         - (IF w \in Spawning THEN 1 ELSE 0)
  <2>1. CASE l \in {"spawn", "rollback"}
    <3>1. Spawning' = Spawning \union {w}
      BY <1>4, <2>1
    <3>2. Cardinality(Spawning')
            = IF w \in Spawning THEN Cardinality(Spawning) ELSE Cardinality(Spawning) + 1
      BY <1>3, <3>1, Zenon
    <3> QED BY <1>1, <2>1, <3>2
  <2>2. CASE l \notin {"spawn", "rollback"}
    <3>1. Spawning' = Spawning \ {w}
      BY <1>4, <2>2
    <3>2. Cardinality(Spawning')
            = IF w \in Spawning THEN Cardinality(Spawning) - 1 ELSE Cardinality(Spawning)
      BY <1>3, <3>1, Zenon
    <3> QED BY <1>1, <2>2, <3>2
  <2> QED BY <2>1, <2>2
<1> QED BY <1>5, <1>6

\* An idle worker that starts a job is one more that is busy.
LEMMA StartCounts ==
  ASSUME ForkTypeOK, NEW w \in Workers, Goto(w, "run"), w \notin Busy, w \notin Spawning
  PROVE  Cardinality(Spawning') = Cardinality(Spawning) /\ Cardinality(Busy') = Cardinality(Busy) + 1
<1>1. Spawning' = Spawning /\ Busy' = Busy \union {w}
  BY GotoSets
<1>2. Cardinality(Busy \union {w}) = Cardinality(Busy) + 1
  BY FiniteParts, FS_AddElement
<1> QED BY <1>1, <1>2

\* A worker that runs a job keeps the count above zero, so nobody has left.
LEMMA BusyHoldsCredit ==
  ASSUME ForkInv, NEW w \in Busy
  PROVE  pending >= 1 /\ Exited = {}
<1>1. Cardinality(Busy) # 0
  BY FiniteParts, FS_EmptySet
<1>2. pending >= 1
  BY <1>1, FiniteParts DEF ForkInv, CreditsExact
<1> QED BY <1>2 DEF ForkInv, ExitedAtZero, ForkTypeOK

\* Where no job moves, the places and what they hold stay as they are.
LEMMA StillQueued ==
  ASSUME UNCHANGED <<deque, created, ran>>
  PROVE  /\ Places' = Places /\ Queued' = Queued
         /\ (QueuedOnce => QueuedOnce') /\ (UnbornUnrun => UnbornUnrun')
<1>1. Places' = Places
  BY DEF Places
<1>2. \A p : JobAt(p)' = JobAt(p)
  BY DEF JobAt
<1> QED BY <1>1, <1>2 DEF Queued, QueuedOnce, UnbornUnrun

-----------------------------------------------------------------------------
(* Steps that move no job *)

\* A worker without a job moves on, and leaves only when it reads zero.
LEMMA IdleMove ==
  ASSUME ForkInv, NEW w \in Workers, pc[w] \in {"check", "recheck", "pop", "steal"},
         NEW l \in {"check", "recheck", "pop", "steal", "exited"}, Goto(w, l),
         l = "exited" => pending = 0, k' \in [Workers -> 1..N],
         UNCHANGED <<deque, pending, taken, saw_panic, created, ran, panicked>>
  PROVE  ForkInv'
<1>0. ForkTypeOK
  BY DEF ForkInv
<1>1. w \notin Busy /\ w \notin Spawning
  BY DEF Busy, Spawning
<1>2. Busy' = Busy /\ Spawning' = Spawning
  BY <1>0, <1>1, GotoSets
<1>3. Exited' \subseteq Exited \/ l = "exited"
  BY <1>0, GotoSets
<1>4. ForkTypeOK'
  BY <1>0 DEF ForkTypeOK, Goto
<1>5. Queued' = Queued /\ QueuedOnce' /\ UnbornUnrun'
  BY StillQueued DEF ForkInv
<1>6. CreditsExact'
  BY <1>2, <1>5 DEF ForkInv, CreditsExact
<1>7. ExitedAtZero'
  BY <1>3 DEF ForkInv, ExitedAtZero
<1>8. BusyHolds' /\ PanicsSeen'
  BY <1>2 DEF ForkInv, BusyHolds, PanicsSeen
<1> QED BY <1>4, <1>5, <1>6, <1>7, <1>8 DEF ForkInv

\* A worker that runs a job takes or returns the credit of a spawn, or finishes
\* the job.
LEMMA RunMove ==
  ASSUME ForkInv, NEW w \in Workers, pc[w] \in {"run", "spawn", "rollback"},
         NEW l \in {"run", "spawn", "rollback", "release"}, Goto(w, l),
         pending' = pending + (IF l \in {"spawn", "rollback"} THEN 1 ELSE 0)
                            - (IF pc[w] \in {"spawn", "rollback"} THEN 1 ELSE 0),
         saw_panic' \in [Workers -> BOOLEAN], panicked' \in SUBSET Jobs, PanicsSeen',
         UNCHANGED <<deque, taken, k, created, ran>>
  PROVE  ForkInv'
<1>0. ForkTypeOK /\ pending \in Nat
  BY DEF ForkInv, ForkTypeOK
<1>1. w \in Busy /\ (w \in Spawning <=> pc[w] \in {"spawn", "rollback"})
  BY DEF Busy, Spawning
<1>2. Exited = {} /\ pending >= 1
  BY <1>1, BusyHoldsCredit
<1>3. Busy' = Busy /\ Exited' = {}
  BY <1>0, <1>1, <1>2, GotoSets
<1>4. ForkTypeOK'
  <2>1. pending' \in Nat
    BY <1>0, <1>2
  <2>2. pc' \in [Workers -> {"check", "recheck", "pop", "steal", "run", "spawn", "rollback",
                             "release", "exited"}]
    BY <1>0 DEF ForkTypeOK, Goto
  <2> QED BY <1>0, <2>1, <2>2 DEF ForkTypeOK
<1>5. Queued' = Queued /\ QueuedOnce' /\ UnbornUnrun'
  BY StillQueued DEF ForkInv
<1>6. CreditsExact'
  <2>1. Cardinality(Spawning)' = Cardinality(Spawning)
             + (IF l \in {"spawn", "rollback"} THEN 1 ELSE 0)
             - (IF pc[w] \in {"spawn", "rollback"} THEN 1 ELSE 0)
    BY <1>0, <1>1, GotoCounts
  <2>2. Cardinality(Busy)' = Cardinality(Busy)
    BY <1>3
  <2> QED BY <1>5, <2>1, <2>2, FiniteParts DEF ForkInv, CreditsExact
<1>7. ExitedAtZero'
  BY <1>3 DEF ExitedAtZero
<1>8. BusyHolds'
  BY <1>3 DEF ForkInv, BusyHolds
<1> QED BY <1>4, <1>5, <1>6, <1>7, <1>8 DEF ForkInv

\* The credit of a finished job is returned when its worker stops being busy.
LEMMA ReleaseKeeps ==
  ASSUME ForkInv, NEW w \in Workers, Release(w)
  PROVE  ForkInv'
<1>0. ForkTypeOK /\ pending \in Nat /\ Goto(w, "check")
  BY DEF ForkInv, ForkTypeOK, Release
<1>1. w \in Busy /\ w \notin Spawning
  BY DEF Busy, Spawning, Release
<1>2. Exited = {} /\ pending >= 1
  BY <1>1, BusyHoldsCredit
<1>3. Busy' = Busy \ {w} /\ Exited' = {}
  BY <1>0, <1>2, GotoSets
<1>4. ForkTypeOK'
  <2>1. pending' \in Nat
    BY <1>0, <1>2 DEF Release, Released
  <2>2. pc' \in [Workers -> {"check", "recheck", "pop", "steal", "run", "spawn", "rollback",
                             "release", "exited"}]
    BY <1>0 DEF ForkTypeOK, Goto
  <2>3. taken' \in [Workers -> Jobs \union {NoJob}]
    BY <1>0 DEF ForkTypeOK, Release
  <2> QED BY <1>0, <2>1, <2>2, <2>3 DEF ForkTypeOK, Release
<1>5. Queued' = Queued /\ QueuedOnce' /\ UnbornUnrun'
  BY StillQueued DEF ForkInv, Release
<1>6. CreditsExact'
  <2>1. Cardinality(Spawning)' = Cardinality(Spawning) /\ Cardinality(Busy)' = Cardinality(Busy) - 1
    BY <1>0, <1>1, GotoCounts, FiniteParts
  <2> QED BY <1>5, <2>1, FiniteParts DEF ForkInv, CreditsExact, Release, Released
<1>7. ExitedAtZero' /\ PanicsSeen'
  BY <1>3 DEF ForkInv, ExitedAtZero, PanicsSeen, Release
<1>8. BusyHolds'
  BY <1>0, <1>3 DEF ForkInv, ForkTypeOK, BusyHolds, Release
<1> QED BY <1>4, <1>5, <1>6, <1>7, <1>8 DEF ForkInv

-----------------------------------------------------------------------------
(* Steps that move a job *)

\* A push fills the place after the last, with a job that is new.
LEMMA PushPlaces ==
  ASSUME ForkTypeOK, NEW w \in Workers, SpawnPush(w),
         NEW n, n = <<w, Len(deque[w]) + 1>>
  PROVE  /\ n \notin Places /\ Places' = Places \union {n} /\ JobAt(n)' = created + 1
         /\ \A p \in Places : JobAt(p)' = JobAt(p)
         /\ deque' \in [Workers -> Seq(Jobs)] /\ \A v \in Workers : Len(deque'[v]) <= Limit
<1>0. /\ Limit \in Nat /\ deque \in [Workers -> Seq(Jobs)] /\ \A v \in Workers : Len(deque[v]) \in Nat
      /\ created + 1 \in Jobs /\ Len(deque[w]) < Limit
  BY ForkJoinAssumption DEF ForkTypeOK, SpawnPush, Jobs
<1>1. /\ deque'[w] = Append(deque[w], created + 1)
      /\ \A v \in Workers \ {w} : deque'[v] = deque[v]
  BY <1>0 DEF SpawnPush
<1>2. /\ deque'[w] \in Seq(Jobs) /\ Len(deque'[w]) = Len(deque[w]) + 1
      /\ deque'[w][Len(deque[w]) + 1] = created + 1
      /\ \A i \in 1..Len(deque[w]) : deque'[w][i] = deque[w][i]
  BY <1>0, <1>1, AppendProperties
<1>3. deque' \in [Workers -> Seq(Jobs)] /\ \A v \in Workers : Len(deque'[v]) <= Limit
  BY <1>0, <1>1, <1>2 DEF SpawnPush, ForkTypeOK
<1>4. n \notin Places
  BY <1>0, PlaceIs
<1>5. Places' = Places \union {n}
  BY <1>0, <1>1, <1>2 DEF Places
<1>6. \A p \in Places : JobAt(p)' = JobAt(p)
  <2> TAKE p \in Places
  <2>1. p[1] \in Workers /\ p[2] \in 1..Len(deque[p[1]])
    BY <1>0 DEF Places
  <2>2. CASE p[1] = w
    BY <1>2, <2>1, <2>2 DEF JobAt
  <2>3. CASE p[1] # w
    BY <1>1, <2>1, <2>3 DEF JobAt
  <2> QED BY <2>2, <2>3
<1>7. JobAt(n)' = created + 1
  BY <1>2 DEF JobAt
<1> QED BY <1>3, <1>4, <1>5, <1>6, <1>7

\* The credit taken before the push becomes the credit of the queued job.
LEMMA PushKeeps ==
  ASSUME ForkInv, NEW w \in Workers, SpawnPush(w)
  PROVE  ForkInv'
<1>0. ForkTypeOK /\ pending \in Nat /\ Goto(w, "run") /\ created \in Jobs /\ created + 1 \in Jobs
  <2>1. ForkTypeOK /\ pending \in Nat /\ created \in Jobs
    BY DEF ForkInv, ForkTypeOK
  <2>2. Goto(w, "run") /\ created < MaxJobs
    BY DEF SpawnPush
  <2> QED BY <2>1, <2>2, ForkJoinAssumption DEF Jobs
<1>1. w \in Busy /\ w \in Spawning
  BY DEF Busy, Spawning, SpawnPush
<1>2. Exited = {}
  BY <1>1, BusyHoldsCredit
<1>3. Busy' = Busy /\ Exited' = {}
  BY <1>0, <1>1, <1>2, GotoSets
<1>31. PICK n : n = <<w, Len(deque[w]) + 1>>
  OBVIOUS
<1>4. /\ n \notin Places /\ Places' = Places \union {n} /\ JobAt(n)' = created + 1
      /\ \A p \in Places : JobAt(p)' = JobAt(p)
      /\ deque' \in [Workers -> Seq(Jobs)] /\ \A v \in Workers : Len(deque'[v]) <= Limit
  BY <1>0, <1>31, PushPlaces
<1>5. ForkTypeOK'
  <2>1. pc' \in [Workers -> {"check", "recheck", "pop", "steal", "run", "spawn", "rollback",
                             "release", "exited"}]
    BY <1>0 DEF ForkTypeOK, Goto
  <2> QED BY <1>0, <1>4, <2>1 DEF ForkTypeOK, SpawnPush
<1>6. CreditsExact'
  <2>1. Cardinality(Spawning)' = Cardinality(Spawning) - 1 /\ Cardinality(Busy)' = Cardinality(Busy)
    BY <1>0, <1>1, GotoCounts, FiniteParts
  <2>2. Cardinality(Places \union {n}) = Cardinality(Places) + 1
    BY <1>4, FiniteParts, FS_AddElement
  <2>3. Queued' = Queued + 1
    BY <1>4, <2>2 DEF Queued
  <2> QED BY <2>1, <2>3, FiniteParts DEF ForkInv, CreditsExact, SpawnPush
<1>7. QueuedOnce'
  <2>0. created' = created + 1 /\ ran' = ran /\ created \in Nat /\ QueuedOnce
    BY <1>0 DEF SpawnPush, ForkInv, Jobs
  <2>1. ran[created + 1] = 0
    BY <1>0, <2>0, created + 1 > created DEF ForkInv, UnbornUnrun
  <2>2. \A p \in Places : JobAt(p) # created + 1
    BY <2>0 DEF QueuedOnce
  <2>3. \A p \in Places' : JobAt(p)' \in 1..created' /\ ran'[JobAt(p)'] = 0
    BY <1>4, <2>0, <2>1 DEF QueuedOnce
  <2>4. \A p, q \in Places' : JobAt(p)' = JobAt(q)' => p = q
    BY <1>4, <2>0, <2>2 DEF QueuedOnce
  <2>5. \A j \in 1..created' : ran'[j] = 0 => \E p \in Places' : JobAt(p)' = j
    <3> TAKE j \in 1..created'
    <3>1. CASE j = created + 1
      BY <1>4, <3>1
    <3>2. CASE j \in 1..created
      BY <1>4, <2>0, <3>2 DEF QueuedOnce
    <3> QED BY <2>0, <3>1, <3>2
  <2> QED BY <2>0, <2>3, <2>4, <2>5 DEF QueuedOnce
<1>8. UnbornUnrun'
  BY <1>0 DEF ForkInv, UnbornUnrun, SpawnPush, Jobs
<1>9. ExitedAtZero' /\ PanicsSeen' /\ BusyHolds'
  BY <1>3 DEF ForkInv, ExitedAtZero, PanicsSeen, BusyHolds, SpawnPush
<1> QED BY <1>5, <1>6, <1>7, <1>8, <1>9 DEF ForkInv

\* Worker w takes the job at place p and place r is vacated; f says from where the
\* jobs of the places that are left came.
Takes(w, p, r, f) ==
  /\ pc[w] \in {"pop", "steal"} /\ Start(w, JobAt(p))
  /\ p \in Places /\ r \in Places /\ Places' = Places \ {r}
  /\ f \in [Places \ {r} -> Places \ {p}]
  /\ \A x, y \in Places \ {r} : f[x] = f[y] => x = y
  /\ \A y \in Places \ {p} : \E x \in Places \ {r} : f[x] = y
  /\ \A x \in Places \ {r} : JobAt(x)' = JobAt(f[x])
  /\ deque' \in [Workers -> Seq(Jobs)] /\ \A v \in Workers : Len(deque'[v]) <= Limit
  /\ k' \in [Workers -> 1..N] /\ UNCHANGED <<pending, saw_panic, created, panicked>>

\* The credit of the queued job becomes the credit of the running one.
LEMMA TakeKeeps ==
  ASSUME ForkInv, NEW w \in Workers, NEW p, NEW r, NEW f, Takes(w, p, r, f)
  PROVE  ForkInv'
<1>0. ForkTypeOK /\ Goto(w, "run") /\ created \in Nat /\ 1..created \subseteq Jobs
  <2>1. ForkTypeOK /\ Goto(w, "run")
    BY DEF ForkInv, Takes, Start
  <2>2. created \in 1..MaxJobs
    BY DEF ForkInv, ForkTypeOK, Jobs
  <2> QED BY ForkJoinAssumption, <2>1, <2>2 DEF Jobs
<1> USE DEF Takes
<1> DEFINE j == JobAt(p)
<1>1. j \in 1..created /\ j \in Jobs /\ ran[j] = 0
  BY <1>0 DEF ForkInv, QueuedOnce
<1>2. w \notin Busy /\ w \notin Spawning
  BY DEF Busy, Spawning
<1>3. Busy' = Busy \union {w} /\ Exited' \subseteq Exited
  BY <1>0, GotoSets
<1>4. ran' = [ran EXCEPT ![j] = 1] /\ taken' = [taken EXCEPT ![w] = j] /\ ran \in [Jobs -> Nat]
  BY <1>0, <1>1 DEF Start, ForkTypeOK
<1> HIDE DEF j
<1>5. ForkTypeOK'
  <2>1. pc' \in [Workers -> {"check", "recheck", "pop", "steal", "run", "spawn", "rollback",
                             "release", "exited"}]
    BY <1>0 DEF ForkTypeOK, Goto
  <2>2. taken' \in [Workers -> Jobs \union {NoJob}] /\ ran' \in [Jobs -> Nat]
    BY <1>0, <1>1, <1>4 DEF ForkTypeOK
  <2> QED BY <1>0, <2>1, <2>2 DEF ForkTypeOK
<1>6. CreditsExact'
  <2>1. Cardinality(Spawning') = Cardinality(Spawning) /\ Cardinality(Busy') = Cardinality(Busy) + 1
    BY <1>0, <1>2, StartCounts
  <2>2. Cardinality(Places \ {r}) = Cardinality(Places) - 1
    BY FiniteParts, FS_RemoveElement
  <2>3. Queued' = Queued - 1
    BY <2>2 DEF Queued
  <2> QED BY <2>1, <2>3, FiniteParts DEF ForkInv, CreditsExact
<1>7. QueuedOnce'
  <2>0. QueuedOnce
    BY DEF ForkInv
  <2>1. \A x \in Places \ {p} : JobAt(x) \in 1..created /\ ran'[JobAt(x)] = 0
    <3> TAKE x \in Places \ {p}
    <3>1. JobAt(x) \in 1..created /\ ran[JobAt(x)] = 0 /\ JobAt(x) # j
      BY <2>0 DEF QueuedOnce, j
    <3> QED BY <1>0, <1>4, <3>1
  <2>2. \A x \in Places' : JobAt(x)' \in 1..created' /\ ran'[JobAt(x)'] = 0
    BY <2>1
  <2>3. \A x, y \in Places' : JobAt(x)' = JobAt(y)' => x = y
    <3> SUFFICES ASSUME NEW x \in Places', NEW y \in Places', JobAt(x)' = JobAt(y)' PROVE x = y
      OBVIOUS
    <3>1. JobAt(f[x]) = JobAt(f[y]) /\ f[x] \in Places /\ f[y] \in Places
      OBVIOUS
    <3>2. f[x] = f[y]
      BY <2>0, <3>1 DEF QueuedOnce
    <3> QED BY <3>2
  <2>4. \A i \in 1..created' : ran'[i] = 0 => \E x \in Places' : JobAt(x)' = i
    <3> SUFFICES ASSUME NEW i \in 1..created, ran'[i] = 0 PROVE \E x \in Places' : JobAt(x)' = i
      OBVIOUS
    <3>1. i # j /\ ran[i] = 0
      BY <1>0, <1>1, <1>4
    <3>2. PICK y \in Places : JobAt(y) = i
      BY <2>0, <3>1 DEF QueuedOnce
    <3>3. y \in Places \ {p}
      BY <3>1, <3>2 DEF j
    <3>4. PICK x \in Places \ {r} : f[x] = y
      BY <3>3
    <3> QED BY <3>2, <3>4
  <2>5. \A i \in Jobs : ran'[i] \in {0, 1}
    BY <1>1, <1>4, <2>0 DEF QueuedOnce
  <2> QED BY <2>2, <2>3, <2>4, <2>5 DEF QueuedOnce
<1>8. UnbornUnrun'
  BY <1>0, <1>1, <1>4 DEF ForkInv, UnbornUnrun
<1>9. BusyHolds'
  BY <1>0, <1>1, <1>3, <1>4 DEF ForkInv, BusyHolds, ForkTypeOK, Busy
<1>10. ExitedAtZero' /\ PanicsSeen'
  BY <1>3 DEF ForkInv, ExitedAtZero, PanicsSeen
<1> QED BY <1>5, <1>6, <1>7, <1>8, <1>9, <1>10 DEF ForkInv

\* The victim of a steal is a worker.
LEMMA VictimIsWorker ==
  ASSUME ForkTypeOK, NEW w \in Workers
  PROVE  Victim(w) \in Workers
<1>1. w + k[w] \in Int /\ N \in Nat \ {0}
  BY ForkJoinAssumption DEF ForkTypeOK, Workers
<1> QED BY <1>1, DivMod DEF Victim, Workers

\* The owner takes the newest job of its deque: the last place is vacated.
LEMMA PopKeeps ==
  ASSUME ForkInv, NEW w \in Workers, PopOwn(w)
  PROVE  ForkInv'
<1>0. ForkTypeOK /\ pc[w] = "pop" /\ N \in Nat \ {0} /\ k' = k
  BY ForkJoinAssumption DEF ForkInv, PopOwn
<1>1. CASE deque[w] = <<>>
  <2>1. Goto(w, IF N > 1 THEN "steal" ELSE "recheck")
    BY <1>1 DEF PopOwn
  <2>2. UNCHANGED <<deque, pending, taken, saw_panic, created, ran, panicked>>
    BY <1>1 DEF PopOwn
  <2>3. k' \in [Workers -> 1..N]
    BY <1>0 DEF ForkTypeOK
  <2> QED BY <1>0, <2>1, <2>2, <2>3, IdleMove
<1>2. CASE deque[w] # <<>>
  <2>0. /\ deque \in [Workers -> Seq(Jobs)] /\ Limit \in Nat
        /\ \A v \in Workers : Len(deque[v]) \in Nat /\ Len(deque[v]) <= Limit
    BY <1>0, ForkJoinAssumption DEF ForkTypeOK
  <2>1. Len(deque[w]) \in Nat \ {0}
    BY <1>2, <2>0
  <2>2. PICK n \in Nat \ {0} : n = Len(deque[w])
    BY <2>1
  <2>3. deque' = [deque EXCEPT ![w] = SubSeq(deque[w], 1, n - 1)]
    BY <1>2, <2>0, <2>2 DEF PopOwn, Front
  <2>4. /\ deque'[w] \in Seq(Jobs) /\ Len(deque'[w]) = n - 1
        /\ \A i \in 1..(n - 1) : deque'[w][i] = deque[w][i]
        /\ \A v \in Workers \ {w} : deque'[v] = deque[v]
    BY <2>0, <2>2, <2>3
  <2>5. deque' \in [Workers -> Seq(Jobs)] /\ \A v \in Workers : Len(deque'[v]) <= Limit
    BY <2>0, <2>2, <2>3, <2>4
  <2>6. PICK p : p = <<w, n>>
    OBVIOUS
  <2>7. p \in Places /\ JobAt(p) = Last(deque[w])
    BY <1>0, <2>1, <2>2, <2>6, PlaceIs DEF JobAt, Last
  <2>8. Places' = Places \ {p}
    BY <2>0, <2>2, <2>4, <2>6 DEF Places
  <2>9. \A x \in Places \ {p} : JobAt(x)' = JobAt(x)
    <3> TAKE x \in Places \ {p}
    <3>1. x[1] \in Workers /\ x[2] \in 1..Len(deque[x[1]]) /\ x = <<x[1], x[2]>>
      BY <2>0 DEF Places
    <3>2. CASE x[1] = w
      BY <2>2, <2>4, <2>6, <3>1, <3>2 DEF JobAt
    <3>3. CASE x[1] # w
      BY <2>4, <3>1, <3>3 DEF JobAt
    <3> QED BY <3>2, <3>3
  <2>10. PICK f : f = [x \in Places \ {p} |-> x]
    OBVIOUS
  <2>11. /\ f \in [Places \ {p} -> Places \ {p}] /\ \A x \in Places \ {p} : f[x] = x
         /\ \A x, y \in Places \ {p} : f[x] = f[y] => x = y
         /\ \A y \in Places \ {p} : \E x \in Places \ {p} : f[x] = y
    BY <2>10
  <2>12. \A x \in Places \ {p} : JobAt(x)' = JobAt(f[x])
    BY <2>9, <2>11
  <2>13. Start(w, JobAt(p)) /\ UNCHANGED <<pending, saw_panic, created, panicked>>
    BY <1>2, <2>7 DEF PopOwn
  <2>14. k' \in [Workers -> 1..N]
    BY <1>0 DEF ForkTypeOK
  <2>15. pc[w] \in {"pop", "steal"} /\ p \in Places
    BY <1>0, <2>7
  <2>16. Takes(w, p, p, f)
    BY <2>5, <2>8, <2>11, <2>12, <2>13, <2>14, <2>15 DEF Takes
  <2> QED BY <2>16, TakeKeeps
<1> QED BY <1>1, <1>2

\* A thief takes the oldest job of its victim: the others move down one place.
LEMMA StealKeeps ==
  ASSUME ForkInv, NEW w \in Workers, StealOk(w)
  PROVE  ForkInv'
<1>0. ForkTypeOK /\ pc[w] = "steal" /\ N \in Nat \ {0} /\ k' = [k EXCEPT ![w] = 1]
  BY ForkJoinAssumption DEF ForkInv, StealOk, LeaveVictims
<1>1. PICK v \in Workers : v = Victim(w)
  BY <1>0, VictimIsWorker
<1>2. /\ deque \in [Workers -> Seq(Jobs)] /\ Limit \in Nat
      /\ \A u \in Workers : Len(deque[u]) \in Nat /\ Len(deque[u]) <= Limit
  BY <1>0, ForkJoinAssumption DEF ForkTypeOK
<1>3. deque[v] # <<>> /\ deque' = [deque EXCEPT ![v] = Tail(deque[v])]
      /\ Start(w, Head(deque[v])) /\ UNCHANGED <<pending, saw_panic, created, panicked>>
  BY <1>1, <1>2 DEF StealOk
<1>4. PICK n \in Nat \ {0} : n = Len(deque[v])
  BY <1>2, <1>3
<1>5. /\ deque'[v] \in Seq(Jobs) /\ Len(deque'[v]) = n - 1
      /\ \A i \in 1..(n - 1) : deque'[v][i] = deque[v][i + 1]
      /\ \A u \in Workers \ {v} : deque'[u] = deque[u]
  BY <1>2, <1>3, <1>4
<1>6. deque' \in [Workers -> Seq(Jobs)] /\ \A u \in Workers : Len(deque'[u]) <= Limit
  BY <1>2, <1>3, <1>4, <1>5
<1>7. PICK p, r : p = <<v, 1>> /\ r = <<v, n>>
  OBVIOUS
<1>8. p \in Places /\ r \in Places /\ JobAt(p) = Head(deque[v])
  <2>1. <<v, 1>> \in Places /\ <<v, n>> \in Places
    BY <1>0, <1>4, PlaceIs
  <2>2. Head(deque[v]) = deque[v][1]
    BY <1>2, <1>3
  <2> QED BY <1>7, <2>1, <2>2 DEF JobAt
<1>9. Places' = Places \ {r}
  BY <1>2, <1>4, <1>5, <1>7 DEF Places
<1>10. PICK f : f = [x \in Places \ {r} |-> IF x[1] = v THEN <<v, x[2] + 1>> ELSE x]
  OBVIOUS
<1>11. \A x \in Places \ {r} :
         /\ x[1] \in Workers /\ x[2] \in 1..Len(deque[x[1]]) /\ x = <<x[1], x[2]>>
         /\ f[x] = <<x[1], IF x[1] = v THEN x[2] + 1 ELSE x[2]>>
         /\ x[1] = v => x[2] \in 1..(n - 1)
  BY <1>2, <1>4, <1>7, <1>10 DEF Places
<1>12. f \in [Places \ {r} -> Places \ {p}]
  <2>1. \A x \in Places \ {r} : f[x] \in Places /\ f[x] # p
    <3> TAKE x \in Places \ {r}
    <3>1. CASE x[1] = v
      <4>1. f[x] = <<v, x[2] + 1>> /\ x[2] + 1 \in 1..Len(deque[v]) /\ x[2] + 1 # 1
        BY <1>4, <1>11, <3>1
      <4> QED BY <1>0, <1>7, <4>1, PlaceIs
    <3>2. CASE x[1] # v
      BY <1>7, <1>11, <3>2
    <3> QED BY <3>1, <3>2
  <2> QED BY <1>10, <2>1
<1>13. \A x, y \in Places \ {r} : f[x] = f[y] => x = y
  <2> SUFFICES ASSUME NEW x \in Places \ {r}, NEW y \in Places \ {r}, f[x] = f[y] PROVE x = y
    OBVIOUS
  <2>1. x[1] = y[1]
    BY <1>11
  <2>2. x[2] = y[2]
    BY <1>2, <1>11, <2>1
  <2> QED BY <1>11, <2>1, <2>2
<1>14. \A y \in Places \ {p} : \E x \in Places \ {r} : f[x] = y
  <2> TAKE y \in Places \ {p}
  <2>1. y[1] \in Workers /\ y[2] \in 1..Len(deque[y[1]]) /\ y = <<y[1], y[2]>>
    BY <1>2 DEF Places
  <2>2. CASE y[1] = v
    <3>1. y[2] \in 2..n
      BY <1>4, <1>7, <2>1, <2>2
    <3>2. PICK x : x = <<v, y[2] - 1>>
      OBVIOUS
    <3>3. x \in Places \ {r}
      BY <1>0, <1>4, <1>7, <3>1, <3>2, PlaceIs
    <3>4. f[x] = y
      BY <1>11, <2>1, <2>2, <3>1, <3>2, <3>3
    <3> QED BY <3>3, <3>4
  <2>3. CASE y[1] # v
    <3>1. y \in Places \ {r} /\ f[y] = y
      BY <1>7, <1>10, <2>3
    <3> QED BY <3>1
  <2> QED BY <2>2, <2>3
<1>15. \A x \in Places \ {r} : JobAt(x)' = JobAt(f[x])
  <2> TAKE x \in Places \ {r}
  <2>1. CASE x[1] = v
    BY <1>5, <1>11, <2>1 DEF JobAt
  <2>2. CASE x[1] # v
    BY <1>5, <1>11, <2>2 DEF JobAt
  <2> QED BY <2>1, <2>2
<1>16. k' \in [Workers -> 1..N] /\ Start(w, JobAt(p))
  BY <1>0, <1>3, <1>8 DEF ForkTypeOK
<1>17. pc[w] \in {"pop", "steal"} /\ UNCHANGED <<pending, saw_panic, created, panicked>>
  BY <1>0, <1>3
<1>18. Takes(w, p, r, f)
  BY <1>6, <1>8, <1>9, <1>12, <1>13, <1>14, <1>15, <1>16, <1>17 DEF Takes
<1> QED BY <1>18, TakeKeeps

-----------------------------------------------------------------------------
(* The inductive invariant *)

\* Initially only the root's place is filled, and one credit is out.
LEMMA ForkInitInv == ForkInit => ForkInv
<1> SUFFICES ASSUME ForkInit PROVE ForkInv
  OBVIOUS
<1>0. 0 \in Workers /\ Limit \in Nat \ {0} /\ 1 \in Jobs /\ N \in Nat \ {0}
  BY ForkJoinAssumption DEF Workers, Jobs
<1>1. deque[0] = <<1>> /\ \A w \in Workers \ {0} : deque[w] = <<>>
  BY <1>0 DEF ForkInit
<1>2. ForkTypeOK
  <2>1. deque \in [Workers -> Seq(Jobs)] /\ \A w \in Workers : Len(deque[w]) <= Limit
    BY <1>0, <1>1 DEF ForkInit
  <2> QED BY <1>0, <2>1 DEF ForkInit, ForkTypeOK, NoJob
<1>3. Places = {<<0, 1>>}
  <2>1. Len(deque[0]) = 1 /\ \A w \in Workers \ {0} : Len(deque[w]) = 0
    BY <1>1
  <2>2. \A w \in Workers, i \in 1..Limit : i <= Len(deque[w]) <=> w = 0 /\ i = 1
    <3> TAKE w \in Workers, i \in 1..Limit
    <3>1. CASE w = 0
      BY <1>0, <2>1, <3>1
    <3>2. CASE w # 0
      <4>1. Len(deque[w]) = 0
        BY <2>1, <3>2
      <4> QED BY <1>0, <3>2, <4>1
    <3> QED BY <3>1, <3>2
  <2>3. 1 \in 1..Limit
    BY <1>0
  <2> QED BY <1>0, <2>2, <2>3 DEF Places
<1>4. Busy = {} /\ Spawning = {} /\ Exited = {}
  BY DEF ForkInit, Busy, Spawning, Exited
<1>5. CreditsExact
  <2>1. Cardinality({<<0, 1>>}) = 1
    BY FS_Singleton
  <2> QED BY <1>3, <1>4, <2>1, FS_EmptySet DEF ForkInit, CreditsExact, Queued
<1>6. JobAt(<<0, 1>>) = 1
  BY <1>1 DEF JobAt
<1>7. QueuedOnce /\ UnbornUnrun
  BY <1>0, <1>3, <1>6 DEF ForkInit, QueuedOnce, UnbornUnrun
<1>8. ExitedAtZero /\ BusyHolds /\ PanicsSeen
  BY <1>4 DEF ForkInit, ExitedAtZero, BusyHolds, PanicsSeen
<1> QED BY <1>2, <1>5, <1>7, <1>8 DEF ForkInv

\* Every step of every worker keeps the credits and the places exact.
LEMMA ForkStepInv ==
  ASSUME ForkInv, NEW w \in Workers, Step(w)
  PROVE  ForkInv'
<1>0. ForkTypeOK /\ N \in Nat \ {0} /\ k \in [Workers -> 1..N]
  BY ForkJoinAssumption DEF ForkInv, ForkTypeOK
<1>1. CASE Check(w)
  <2>1. PICK l \in {"check", "pop", "exited"} : Goto(w, l) /\ (l = "exited" => pending = 0)
    BY <1>1 DEF Check
  <2>2. /\ pc[w] \in {"check", "recheck"} /\ k' = k
        /\ UNCHANGED <<deque, pending, taken, saw_panic, created, ran, panicked>>
    BY <1>1 DEF Check
  <2> QED BY <1>0, <2>1, <2>2, IdleMove
<1>2. CASE PopOwn(w)
  BY <1>2, PopKeeps
<1>3. CASE StealOk(w)
  BY <1>3, StealKeeps
<1>4. CASE StealBusy(w)
  <2>1. /\ pc[w] = "steal" /\ Goto(w, "check") /\ k' \in [Workers -> 1..N]
        /\ UNCHANGED <<deque, pending, taken, saw_panic, created, ran, panicked>>
    BY <1>0, <1>4 DEF StealBusy, LeaveVictims
  <2> QED BY <2>1, IdleMove
<1>5. CASE StealEmpty(w)
  <2>1. /\ pc[w] = "steal"
        /\ UNCHANGED <<deque, pending, taken, saw_panic, created, ran, panicked>>
    BY <1>5 DEF StealEmpty
  <2>2. k' \in [Workers -> 1..N]
    BY <1>0, <1>5 DEF StealEmpty, LeaveVictims
  <2>3. PICK l \in {"steal", "recheck"} : Goto(w, l)
    BY <1>0, <1>5 DEF StealEmpty, Goto, ForkTypeOK
  <2> QED BY <2>1, <2>2, <2>3, IdleMove
<1>6. CASE SpawnCredit(w) \/ SpawnRefused(w) \/ SpawnRollback(w)
  <2>0. /\ pending \in Nat /\ saw_panic \in [Workers -> BOOLEAN] /\ panicked \in SUBSET Jobs
    BY <1>0 DEF ForkTypeOK
  <2>1. UNCHANGED <<deque, taken, k, created, ran, saw_panic, panicked>>
    BY <1>6 DEF SpawnCredit, SpawnRefused, SpawnRollback
  <2>2. PanicsSeen'
    BY <2>1 DEF ForkInv, PanicsSeen
  <2>3. PICK l \in {"run", "spawn", "rollback"} :
          /\ pc[w] \in {"run", "spawn", "rollback"} /\ Goto(w, l)
          /\ pending' = pending + (IF l \in {"spawn", "rollback"} THEN 1 ELSE 0)
                               - (IF pc[w] \in {"spawn", "rollback"} THEN 1 ELSE 0)
    BY <1>6, <2>0 DEF SpawnCredit, SpawnRefused, SpawnRollback, CreditBeforePush, CreditReturned
  <2> QED BY <2>0, <2>1, <2>2, <2>3, RunMove
<1>7. CASE SpawnPush(w)
  BY <1>7, PushKeeps
<1>8. CASE JobEnds(w)
  <2>0. pending \in Nat /\ saw_panic \in [Workers -> BOOLEAN] /\ panicked \in SUBSET Jobs
    BY <1>0 DEF ForkTypeOK
  <2>1. /\ pc[w] = "run" /\ Goto(w, "release")
        /\ UNCHANGED <<deque, pending, taken, k, created, ran>>
    BY <1>8 DEF JobEnds
  <2>2. taken[w] \in Jobs
    BY <2>1 DEF ForkInv, BusyHolds, Busy
  <2>3. PICK fails \in BOOLEAN :
          /\ panicked' = IF fails THEN panicked \union {taken[w]} ELSE panicked
          /\ saw_panic' = [saw_panic EXCEPT ![w] = @ \/ fails]
    BY <1>8 DEF JobEnds
  <2>4. saw_panic' \in [Workers -> BOOLEAN] /\ panicked' \in SUBSET Jobs
    BY <2>0, <2>2, <2>3
  <2>5. PanicsSeen'
    <3>1. CASE fails
      BY <2>0, <2>3, <3>1 DEF PanicsSeen
    <3>2. CASE ~fails
      <4>1. panicked' = panicked /\ \A x \in Workers : saw_panic'[x] = saw_panic[x]
        BY <2>0, <2>3, <3>2
      <4> QED BY <4>1 DEF ForkInv, PanicsSeen
    <3> QED BY <3>1, <3>2
  <2>6. pending' = pending + (IF "release" \in {"spawn", "rollback"} THEN 1 ELSE 0)
                           - (IF pc[w] \in {"spawn", "rollback"} THEN 1 ELSE 0)
    BY <2>0, <2>1
  <2> QED BY <2>1, <2>4, <2>5, <2>6, RunMove
<1>9. CASE Release(w)
  BY <1>9, ReleaseKeeps
<1> QED BY <1>1, <1>2, <1>3, <1>4, <1>5, <1>6, <1>7, <1>8, <1>9 DEF Step

\* The inductive invariant holds of every behaviour of a region, whatever the number
\* of workers, the deque limit and the jobs that are spawned, refused or panic.
THEOREM ForkInvHolds == ForkSpec => []ForkInv
<1>1. ForkInv /\ [ForkNext]_fork_vars => ForkInv'
  <2> SUFFICES ASSUME ForkInv, [ForkNext]_fork_vars PROVE ForkInv'
    OBVIOUS
  <2>1. CASE ForkNext
    BY <2>1, ForkStepInv DEF ForkNext
  <2>2. CASE UNCHANGED fork_vars
    <3>1. Places' = Places /\ Busy' = Busy /\ Spawning' = Spawning /\ Exited' = Exited
      BY <2>2 DEF fork_vars, Places, Busy, Spawning, Exited
    <3>2. \A p : JobAt(p)' = JobAt(p)
      BY <2>2 DEF fork_vars, JobAt
    <3> QED BY <2>2, <3>1, <3>2 DEF fork_vars, ForkInv, ForkTypeOK, CreditsExact, ExitedAtZero,
                  QueuedOnce, UnbornUnrun, BusyHolds, PanicsSeen, Queued
  <2> QED BY <2>1, <2>2
<1> QED BY <1>1, ForkInitInv, PTL DEF ForkSpec

\* One credit per queued or running job and per spawn under way, and nobody leaves
\* the region while a job is queued or running.
THEOREM CreditsHold == ForkSpec => []CreditInv
<1>1. ForkInv => CreditInv
  <2> SUFFICES ASSUME ForkInv PROVE NoEarlyExit
    BY DEF ForkInv, CreditInv
  <2> SUFFICES ASSUME Exited # {} PROVE Queued = 0 /\ Busy = {}
    BY DEF NoEarlyExit
  <2>1. Queued = 0 /\ Cardinality(Busy) = 0
    BY FiniteParts DEF ForkInv, ExitedAtZero, CreditsExact
  <2> QED BY <2>1, FiniteParts, FS_EmptySet
<1> QED BY <1>1, ForkInvHolds, PTL

\* No job runs twice; when the last worker has left every spawned job has run, and
\* a panic is reported exactly when a job panicked.
THEOREM RegionIsComplete == ForkSpec => []RegionComplete
<1>1. ForkInv => RegionComplete
  <2> SUFFICES ASSUME ForkInv PROVE RegionComplete
    OBVIOUS
  <2>1. \A j \in Jobs : ran[j] \in {0, 1}
    BY DEF ForkInv, QueuedOnce
  <2>2. ASSUME Exited = Workers PROVE \A j \in 1..created : ran[j] = 1
    <3>1. Exited # {}
      BY <2>2, ForkJoinAssumption, 0 \in Workers DEF Workers
    <3>2. Queued = 0
      BY <3>1, FiniteParts DEF ForkInv, ExitedAtZero, CreditsExact
    <3>3. Places = {}
      BY <3>2, FiniteParts, FS_EmptySet DEF Queued
    <3>4. 1..created \subseteq Jobs
      BY ForkJoinAssumption DEF ForkInv, ForkTypeOK, Jobs
    <3> QED BY <2>1, <3>3, <3>4 DEF ForkInv, QueuedOnce
  <2>3. PanicsSeen
    BY DEF ForkInv
  <2> QED BY <2>1, <2>2, <2>3 DEF RegionComplete, PanicsSeen
<1> QED BY <1>1, ForkInvHolds, PTL
=============================================================================
