--------------------------- MODULE ChaseLevProofs ---------------------------
(***************************************************************************)
(* Proofs about ChaseLev for every capacity, any number of stealers and    *)
(* pushes and store buffers of any length: every task is handed out once,  *)
(* and the winner of an index owns its slot until it has read it.          *)
(*                                                                         *)
(* The deque holds the indices from top to the logical bottom.  The owner  *)
(* sees each of them FULL through its store buffer; whoever else gets past *)
(* the test of bottom sees it in memory, because the stores of a push are  *)
(* older than the bottom that publishes it and bottom is lowered only      *)
(* behind a fence.  A slot that a stealer has won, or has released by a    *)
(* store still in its buffer, is FULL in memory, so no push reuses it.     *)
(***************************************************************************)
EXTENDS ChaseLev, IndexArithmetic, SequenceTheorems, FiniteSetTheorems, TLAPS

\* The indices in the deque, and the stealers that have won one and not read it yet.
Live == top..(LogicalBottom - 1)
Won  == {s \in Stealers : pc[s] \in {"steal_state", "steal_read"}}

\* What the owner sees of a slot.
OwnerState(x) == Load(Owner, "state", x, states[x])
OwnerData(x)  == Load(Owner, "data", x, buffer[x])

\* No store to slot x is among those of the buffer q.
Clear(q, x) == \A j \in DOMAIN q : q[j].loc # "bottom" => q[j].slot # x

\* Where the owner and the stealers stand.
PlaceInv ==
  /\ pc[Owner] \in {"idle", "push_slot", "pop_top", "pop_cas"}
  /\ \A s \in Stealers :
       pc[s] \in {"idle", "steal_bottom", "steal_cas", "steal_state", "steal_read"}
  /\ pc[Owner] = "push_slot" => b = OwnerBottom /\ b - top < mask /\ pushed < MaxPush
  /\ pc[Owner] = "pop_top" => b = OwnerBottom
  /\ pc[Owner] = "pop_cas" => sb[Owner] = <<>> /\ bottom = b /\ t[Owner] = b
  /\ dropped => Quiescent

\* bottom, in memory or on its way there, is never ahead of the logical bottom; a stealer
\* about to take the oldest index finds it in the deque and in memory.
IndexInv ==
  /\ LogicalBottom \in top..pushed /\ LogicalBottom - top <= mask
  /\ bottom <= LogicalBottom
  /\ \A j \in DOMAIN sb[Owner] : sb[Owner][j].loc = "bottom" => sb[Owner][j].val <= LogicalBottom
  /\ \A s \in Stealers : t[s] <= top
  /\ \A s \in Stealers : pc[s] = "steal_cas" /\ t[s] = top =>
       top < LogicalBottom /\ Clear(sb[Owner], SlotOf(top))

\* The owner sees every index of the deque FULL with its task, and its stores to the slot
\* come before any bottom that publishes the index.
StoreInv ==
  /\ \A i \in Live : OwnerState(SlotOf(i)) = "FULL" /\ OwnerData(SlotOf(i)) = at[i]
  /\ \A i \in Live : i < bottom => Clear(sb[Owner], SlotOf(i))
  /\ \A i \in Live : \A j, k \in DOMAIN sb[Owner] :
       j < k /\ sb[Owner][j].loc = "bottom" /\ i < sb[Owner][j].val /\ sb[Owner][k].loc # "bottom"
         => sb[Owner][k].slot # SlotOf(i)

\* A stealer's only stores release slots, each FULL in memory and used by nobody else.
ReleaseInv ==
  /\ \A s \in Stealers : \A j \in DOMAIN sb[s] :
       /\ sb[s][j].loc = "state" /\ sb[s][j].val = "FREE" /\ states[sb[s][j].slot] = "FULL"
       /\ Clear(sb[Owner], sb[s][j].slot)
       /\ \A i \in Live : SlotOf(i) # sb[s][j].slot
       /\ \A r \in Won : SlotOf(t[r]) # sb[s][j].slot
  /\ \A s, r \in Stealers : \A j \in DOMAIN sb[s], k \in DOMAIN sb[r] :
       sb[s][j].slot = sb[r][k].slot => s = r /\ j = k

\* A winner's index has left the deque less than a lap ago, and its slot is as it was pushed.
WonInv ==
  /\ \A s \in Won :
       /\ t[s] < top /\ LogicalBottom <= t[s] + Capacity
       /\ states[SlotOf(t[s])] = "FULL" /\ buffer[SlotOf(t[s])] = at[t[s]]
       /\ Clear(sb[Owner], SlotOf(t[s]))
  /\ \A s, r \in Won : t[s] = t[r] => s = r

\* Every task pushed is in the deque, won, or handed out, and in one of these only.
TaskInv ==
  /\ taken[None] = 0
  /\ \A x \in Tasks : taken[x] \in {0, 1} /\ (taken[x] = 1 => x <= pushed)
  /\ ~dropped => 
       /\ \A i \in Live : at[i] \in 1..pushed /\ taken[at[i]] = 0
       /\ \A i, j \in Live : at[i] = at[j] => i = j
       /\ \A s \in Won : at[t[s]] \in 1..pushed /\ taken[at[t[s]]] = 0
       /\ \A s \in Won : \A i \in Live : at[i] # at[t[s]]
       /\ \A s, r \in Won : at[t[s]] = at[t[r]] => s = r
       /\ \A x \in 1..pushed : taken[x] = 0 =>
            (\E i \in Live : at[i] = x) \/ (\E s \in Won : at[t[s]] = x)
  /\ dropped => \A x \in 1..pushed : taken[x] = 1

\* Every set of positions of a store buffer has a youngest.
Ordered(q) == \A S \in SUBSET DOMAIN q : S # {} => \E m \in S : \A j \in S : j <= m

OrderInv == Ordered(sb[Owner])

DequeIndInv ==
  TypeOK /\ PlaceInv /\ IndexInv /\ StoreInv /\ ReleaseInv /\ WonInv /\ TaskInv /\ OrderInv

-----------------------------------------------------------------------------
(* What a step can do to the deque and the tasks, as the lemmas on the actions show *)

SameWinners == Won' = Won /\ \A u \in Won : t'[u] = t[u]

\* Nothing.
Invisible ==
  /\ UNCHANGED <<top, pushed, at, taken, dropped>> /\ LogicalBottom' = LogicalBottom
  /\ SameWinners

\* One more task at the bottom.
Pushes ==
  /\ ~dropped /\ LogicalBottom - top < mask /\ LogicalBottom \in Indices
  /\ UNCHANGED <<top, t, taken, dropped>> /\ LogicalBottom' = LogicalBottom + 1
  /\ pushed' = pushed + 1 /\ at' = [at EXCEPT ![LogicalBottom] = pushed + 1]
  /\ Won' = Won

\* The task at the bottom leaves and is handed out, the last one by way of top.
Pops ==
  /\ ~dropped /\ top < LogicalBottom /\ Take(at[LogicalBottom - 1])
  /\ \/ top' = top /\ LogicalBottom' = LogicalBottom - 1
     \/ top' = LogicalBottom /\ LogicalBottom' = LogicalBottom /\ top = LogicalBottom - 1
  /\ UNCHANGED <<pushed, at, dropped>> /\ SameWinners

\* Stealer s wins the task at the top.
Wins(s) ==
  /\ ~dropped /\ top < LogicalBottom /\ t[s] = top /\ s \notin Won
  /\ top' = top + 1 /\ LogicalBottom' = LogicalBottom /\ Won' = Won \union {s}
  /\ UNCHANGED <<t, pushed, at, taken, dropped>>

\* Stealer s is handed the task it has won.
Reads(s) ==
  /\ ~dropped /\ s \in Won /\ Take(at[t[s]])
  /\ Won' = Won \ {s} /\ LogicalBottom' = LogicalBottom
  /\ UNCHANGED <<top, t, pushed, at, dropped>>

\* The deque is dropped with its tasks.
Drains ==
  /\ ~dropped /\ dropped' /\ Won = {} /\ Won' = {} /\ UNCHANGED pushed
  /\ \A x \in Tasks : taken'[x] = taken[x] + (IF \E i \in Live : at[i] = x THEN 1 ELSE 0)

-----------------------------------------------------------------------------
(* Store buffers *)

\* What a load returns whose thread has the store buffer q.
Mine(q, loc, s) == {i \in DOMAIN q : q[i].loc = loc /\ q[i].slot = s}
Seen(q, loc, s, memory) == IF Mine(q, loc, s) = {} THEN memory ELSE q[Max(Mine(q, loc, s))].val

\* Load is that, for the thread's own buffer.
LEMMA LoadIsSeen ==
  ASSUME NEW th, NEW loc, NEW s, NEW memory
  PROVE  Load(th, loc, s, memory) = Seen(sb[th], loc, s, memory)
BY DEF Load, Seen, Mine

\* What the owner sees, in these terms, before and after a step.
LEMMA OwnerSees ==
  /\ OwnerBottom = Seen(sb[Owner], "bottom", 0, bottom)
  /\ \A x : OwnerState(x) = Seen(sb[Owner], "state", x, states[x])
  /\ \A x : OwnerData(x) = Seen(sb[Owner], "data", x, buffer[x])
  /\ OwnerBottom' = Seen(sb'[Owner], "bottom", 0, bottom')
  /\ \A x : OwnerState(x)' = Seen(sb'[Owner], "state", x, states'[x])
  /\ \A x : OwnerData(x)' = Seen(sb'[Owner], "data", x, buffer'[x])
BY DEF OwnerBottom, OwnerState, OwnerData, Load, Seen, Mine

\* The largest element, where there is one.
LEMMA MaxIs ==
  ASSUME NEW S \in SUBSET Int, NEW m \in S, \A j \in S : j <= m
  PROVE  Max(S) = m
<1>1. m \in S /\ \A y \in S : m >= y
  OBVIOUS
<1>2. \A x \in S : (\A y \in S : x >= y) => x = m
  OBVIOUS
<1>3. Max(S) \in S /\ \A y \in S : Max(S) >= y
  BY <1>1 DEF Max
<1> QED BY <1>2, <1>3

\* A load that no store of the buffer concerns goes to memory.
LEMMA SeenMemory ==
  ASSUME NEW q, NEW loc, NEW s, NEW memory,
         \A j \in DOMAIN q : ~(q[j].loc = loc /\ q[j].slot = s)
  PROVE  Seen(q, loc, s, memory) = memory
BY DEF Seen, Mine

\* A new store is the youngest.
LEMMA SeenAppend ==
  ASSUME NEW X, NEW q \in Seq(X), NEW w \in X, Ordered(q), NEW loc, NEW s, NEW memory
  PROVE  Seen(Append(q, w), loc, s, memory)
           = IF w.loc = loc /\ w.slot = s THEN w.val ELSE Seen(q, loc, s, memory)
<1>1. PICK n \in Nat : n = Len(q) /\ DOMAIN q = 1..n
  OBVIOUS
<1>2. PICK Q : Q = Append(q, w)
  OBVIOUS
<1>3. DOMAIN Q = 1..(n + 1) /\ Q[n + 1] = w /\ \A j \in 1..n : Q[j] = q[j]
  BY <1>1, <1>2, AppendProperties
<1>4. CASE w.loc = loc /\ w.slot = s
  <2>1. n + 1 \in Mine(Q, loc, s) /\ Mine(Q, loc, s) \in SUBSET Int /\ \A j \in Mine(Q, loc, s) : j <= n + 1
    BY <1>3, <1>4 DEF Mine
  <2>2. Max(Mine(Q, loc, s)) = n + 1
    BY <2>1, MaxIs
  <2> QED BY <1>2, <1>3, <1>4, <2>1, <2>2 DEF Seen
<1>5. CASE ~(w.loc = loc /\ w.slot = s)
  <2>1. Mine(Q, loc, s) = Mine(q, loc, s)
    BY <1>1, <1>3, <1>5 DEF Mine
  <2>2. CASE Mine(q, loc, s) = {}
    BY <1>2, <1>5, <2>1, <2>2 DEF Seen
  <2>3. CASE Mine(q, loc, s) # {}
    <3>1. PICK M : M = Mine(q, loc, s) /\ M \in SUBSET (1..n) /\ M # {}
      BY <1>1, <2>3 DEF Mine
    <3>2. PICK m \in M : \A j \in M : j <= m
      BY <1>1, <3>1 DEF Ordered
    <3>3. Max(M) = m
      <4>1. M \in SUBSET Int
        BY <3>1
      <4> QED BY <3>2, <4>1, MaxIs
    <3>4. Q[m] = q[m]
      BY <1>3, <3>1
    <3> QED BY <1>2, <1>5, <2>1, <2>3, <3>1, <3>3, <3>4 DEF Seen
  <2> QED BY <2>2, <2>3
<1> QED BY <1>4, <1>5

\* Positions stay ordered when a store enters the buffer.
LEMMA OrderedAppend ==
  ASSUME NEW X, NEW q \in Seq(X), NEW w \in X, Ordered(q)
  PROVE  Ordered(Append(q, w))
<1>1. PICK n \in Nat : n = Len(q) /\ DOMAIN q = 1..n /\ DOMAIN Append(q, w) = 1..(n + 1)
  <2>1. Len(q) \in Nat /\ DOMAIN q = 1..Len(q)
    OBVIOUS
  <2>2. DOMAIN Append(q, w) = 1..(Len(q) + 1)
    BY AppendProperties
  <2> QED BY <2>1, <2>2
<1> SUFFICES ASSUME NEW S \in SUBSET (1..(n + 1)), S # {}
             PROVE  \E m \in S : \A j \in S : j <= m
  BY <1>1 DEF Ordered
<1>2. CASE n + 1 \in S
  BY <1>2
<1>3. CASE n + 1 \notin S
  <2>1. S \in SUBSET (1..n)
    BY <1>3
  <2> QED BY <1>1, <2>1 DEF Ordered
<1> QED BY <1>2, <1>3

\* When the oldest store reaches memory the thread still sees the same, and the other
\* stores move up by one.
LEMMA SeenTail ==
  ASSUME NEW X, NEW q \in Seq(X), q # <<>>, Ordered(q), NEW loc, NEW s, NEW memory
  PROVE  Seen(Tail(q), loc, s, IF Head(q).loc = loc /\ Head(q).slot = s THEN Head(q).val ELSE memory)
           = Seen(q, loc, s, memory)
<1>1. PICK n \in Nat \ {0} : n = Len(q) /\ DOMAIN q = 1..n
  OBVIOUS
<1>2. PICK Q : Q = Tail(q)
  OBVIOUS
<1>3. /\ DOMAIN Q = 1..(n - 1) /\ \A j \in 1..(n - 1) : Q[j] = q[j + 1]
      /\ Head(q) = q[1]
  BY <1>1, <1>2, HeadTailProperties
<1>4. PICK M : M = Mine(q, loc, s) /\ M \in SUBSET (1..n)
  BY <1>1 DEF Mine
<1>5. PICK R : R = Mine(Q, loc, s) /\ R \in SUBSET (1..(n - 1))
  BY <1>3 DEF Mine
<1>6. \A j \in 1..(n - 1) : j \in R <=> j + 1 \in M
  BY <1>1, <1>3, <1>4, <1>5 DEF Mine
<1>7. 1 \in M <=> Head(q).loc = loc /\ Head(q).slot = s
  BY <1>1, <1>3, <1>4 DEF Mine
<1>8. PICK mem : mem = IF Head(q).loc = loc /\ Head(q).slot = s THEN Head(q).val ELSE memory
  OBVIOUS
<1>9. CASE R = {}
  <2>1. M \subseteq {1}
    <3> SUFFICES ASSUME NEW j \in M, j # 1 PROVE FALSE
      OBVIOUS
    <3>1. j - 1 \in 1..(n - 1) /\ (j - 1) + 1 = j
      BY <1>4
    <3> QED BY <1>6, <1>9, <3>1
  <2>2. Seen(Q, loc, s, mem) = mem
    BY <1>5, <1>9 DEF Seen
  <2>3. CASE M = {}
    BY <1>2, <1>4, <1>7, <1>8, <2>2, <2>3 DEF Seen
  <2>4. CASE M = {1}
    <3>1. Max(M) = 1
      <4>1. M \in SUBSET Int /\ 1 \in M /\ \A j \in M : j <= 1
        BY <2>4
      <4> QED BY <4>1, MaxIs
    <3> QED BY <1>2, <1>3, <1>4, <1>7, <1>8, <2>2, <2>4, <3>1 DEF Seen
  <2> QED BY <2>1, <2>3, <2>4
<1>10. CASE R # {}
  <2>1. PICK r \in R : TRUE
    BY <1>10
  <2>2. M # {} /\ r + 1 \in M
    BY <1>5, <1>6, <2>1
  <2>3. PICK m \in M : \A j \in M : j <= m
    BY <1>1, <1>4, <2>2 DEF Ordered
  <2>4. r + 1 <= m /\ m \in 1..n /\ r >= 1 /\ r \in Int
    BY <1>4, <1>5, <2>1, <2>2, <2>3
  <2>5. m - 1 \in 1..(n - 1) /\ (m - 1) + 1 = m
    BY <2>4
  <2>6. m - 1 \in R
    BY <1>6, <2>3, <2>5
  <2>7. \A j \in R : j <= m - 1
    <3> TAKE j \in R
    <3>1. j \in 1..(n - 1) /\ j + 1 \in M
      BY <1>5, <1>6
    <3>2. j + 1 <= m
      BY <2>3, <3>1
    <3> QED BY <2>4, <3>1, <3>2
  <2>8. Max(M) = m
    <3>1. M \in SUBSET Int
      BY <1>4
    <3> QED BY <2>3, <3>1, MaxIs
  <2>9. Max(R) = m - 1
    <3>1. R \in SUBSET Int
      BY <1>5
    <3> QED BY <2>6, <2>7, <3>1, MaxIs
  <2>10. Q[m - 1] = q[m]
    BY <1>3, <2>5
  <2> QED BY <1>2, <1>4, <1>5, <1>8, <1>10, <2>2, <2>8, <2>9, <2>10 DEF Seen
<1> QED BY <1>9, <1>10

\* Positions stay ordered when the oldest store leaves.
LEMMA OrderedTail ==
  ASSUME NEW X, NEW q \in Seq(X), q # <<>>, Ordered(q)
  PROVE  Ordered(Tail(q))
<1>1. PICK n \in Nat \ {0} : n = Len(q) /\ DOMAIN q = 1..n /\ DOMAIN Tail(q) = 1..(n - 1)
  BY HeadTailProperties
<1> SUFFICES ASSUME NEW S \in SUBSET (1..(n - 1)), S # {}
             PROVE  \E m \in S : \A j \in S : j <= m
  BY <1>1 DEF Ordered
<1>2. S \in SUBSET DOMAIN q
  BY <1>1
<1> QED BY <1>2 DEF Ordered

-----------------------------------------------------------------------------
(* Facts most steps need *)

\* The types, and the invariant's parts.
LEMMA Basics ==
  ASSUME DequeIndInv
  PROVE  /\ top \in Nat /\ LogicalBottom \in Nat /\ pushed \in Nat /\ MaxPush \in Nat
         /\ pushed <= MaxPush /\ top <= LogicalBottom /\ LogicalBottom <= pushed
         /\ LogicalBottom - top <= mask /\ Capacity \in Nat \ {0} /\ mask = Capacity - 1 /\ mask \in Nat
         /\ bottom \in Int /\ b \in Int /\ b \in -1..MaxPush /\ \A th \in Threads : t[th] \in Nat
         /\ pc \in [Threads -> {"idle", "push_slot", "pop_top", "pop_cas", "steal_bottom",
                         "steal_cas", "steal_state", "steal_read"}]
         /\ t \in [Threads -> 0..MaxPush] /\ sb \in [Threads -> Seq(StoreType)]
         /\ Owner \in Threads /\ Owner \notin Stealers /\ \A s \in Stealers : s \in Threads
         /\ TypeOK /\ PlaceInv /\ IndexInv /\ StoreInv /\ ReleaseInv /\ WonInv /\ TaskInv /\ OrderInv
<1>1. TypeOK /\ PlaceInv /\ IndexInv /\ StoreInv /\ ReleaseInv /\ WonInv /\ TaskInv /\ OrderInv
  BY DEF DequeIndInv
<1>2. /\ top \in 0..MaxPush /\ pushed \in 0..MaxPush /\ bottom \in -1..MaxPush /\ b \in -1..MaxPush
      /\ t \in [Threads -> 0..MaxPush] /\ sb \in [Threads -> Seq(StoreType)]
      /\ pc \in [Threads -> {"idle", "push_slot", "pop_top", "pop_cas", "steal_bottom",
                         "steal_cas", "steal_state", "steal_read"}]
  BY <1>1 DEF TypeOK
<1>3. MaxPush \in Nat /\ Capacity \in Nat /\ Capacity >= 2 /\ Owner \notin Stealers
  BY ChaseLevAssumption
<1>4. LogicalBottom \in top..pushed /\ LogicalBottom - top <= mask
  BY <1>1 DEF IndexInv
<1>5. top \in Nat /\ LogicalBottom \in Nat /\ top <= LogicalBottom /\ LogicalBottom <= pushed
      /\ pushed \in Nat /\ pushed <= MaxPush
  BY <1>2, <1>3, <1>4
<1>6. mask = Capacity - 1 /\ mask \in Nat
  BY <1>3 DEF mask
<1>7. \A th \in Threads : t[th] \in Nat
  BY <1>2, <1>3
<1>8. Owner \in Threads /\ \A s \in Stealers : s \in Threads
  BY DEF Threads
<1>9. Capacity \in Nat \ {0} /\ bottom \in Int /\ b \in Int
  BY <1>2, <1>3
<1> QED BY <1>1, <1>2, <1>3, <1>4, <1>5, <1>6, <1>7, <1>8, <1>9

\* The bounds of the indices alone.
LEMMA Bounds ==
  ASSUME DequeIndInv
  PROVE  /\ top \in Nat /\ LogicalBottom \in Nat /\ pushed \in Nat /\ MaxPush \in Nat
         /\ pushed <= MaxPush /\ top <= LogicalBottom /\ LogicalBottom <= pushed
         /\ LogicalBottom - top <= mask /\ mask \in Nat /\ bottom \in Int /\ b \in Int
BY Basics

\* Indices less than a lap apart have different slots; a lap apart they share one.
LEMMA SlotLemma ==
  /\ \A i \in Int : SlotOf(i) \in Slots /\ SlotOf(i + Capacity) = SlotOf(i)
  /\ \A i, j \in Int : i < j /\ j < i + Capacity => SlotOf(i) # SlotOf(j)
<1>1. Capacity \in Nat \ {0}
  BY ChaseLevAssumption
<1>2. \A i \in Int : SlotOf(i) \in Slots
  BY <1>1, DivMod DEF SlotOf, Slots
<1>3. \A i \in Int : SlotOf(i + Capacity) = SlotOf(i)
  <2> TAKE i \in Int
  <2>1. (i + Capacity * 1) % Capacity = i % Capacity
    <3>1. 1 \in Int
      OBVIOUS
    <3> QED BY <1>1, <3>1, ModShift
  <2>2. Capacity * 1 = Capacity
    BY <1>1
  <2> QED BY <2>1, <2>2 DEF SlotOf
<1>4. \A i, j \in Int : i < j /\ j < i + Capacity => SlotOf(i) # SlotOf(j)
  BY <1>1, DistinctSlots DEF SlotOf
<1> QED BY <1>2, <1>3, <1>4

\* Two indices of the deque, and the index behind it, have different slots.
LEMMA LiveSlots ==
  ASSUME DequeIndInv
  PROVE  /\ \A i \in Live : i \in Int /\ top <= i /\ i < LogicalBottom /\ SlotOf(i) \in Slots
         /\ \A i, j \in Live : i # j => SlotOf(i) # SlotOf(j)
         /\ \A i \in Live : SlotOf(i) # SlotOf(LogicalBottom)
         /\ \A s \in Won : \A i \in Live : SlotOf(t[s]) # SlotOf(i)
         /\ \A s, r \in Won : SlotOf(t[s]) = SlotOf(t[r]) => s = r
<1>0. /\ top \in Nat /\ LogicalBottom \in Nat /\ LogicalBottom - top <= Capacity - 1 /\ Capacity \in Nat \ {0}
      /\ top <= LogicalBottom
  BY Basics
<1>1. \A i \in Live : i \in Int /\ top <= i /\ i < LogicalBottom
  BY <1>0 DEF Live
<1>2. \A i, j \in Live : i < j => i \in Int /\ j \in Int /\ j < i + Capacity
  BY <1>0, <1>1
<1>3. \A i, j \in Live : i # j => SlotOf(i) # SlotOf(j)
  <2> TAKE i, j \in Live
  <2> HAVE i # j
  <2>1. i \in Int /\ j \in Int /\ (i < j \/ j < i)
    BY <1>1
  <2> QED BY <1>2, <2>1, SlotLemma
<1>4. \A i \in Live : SlotOf(i) # SlotOf(LogicalBottom)
  <2> TAKE i \in Live
  <2>1. i \in Int /\ i < LogicalBottom /\ LogicalBottom < i + Capacity
    BY <1>0, <1>1
  <2> QED BY <1>0, <2>1, SlotLemma
<1>5. \A s \in Won : t[s] \in Int /\ t[s] < top /\ LogicalBottom <= t[s] + Capacity
  <2> TAKE s \in Won
  <2>1. s \in Stealers
    BY DEF Won
  <2> QED BY <2>1, Basics DEF WonInv
<1>6. \A s \in Won : \A i \in Live : SlotOf(t[s]) # SlotOf(i)
  <2> TAKE s \in Won
  <2> TAKE i \in Live
  <2>1. i \in Int /\ t[s] \in Int /\ t[s] < i /\ i < t[s] + Capacity
    BY <1>0, <1>1, <1>5
  <2> QED BY <2>1, SlotLemma
<1>7. \A s, r \in Won : SlotOf(t[s]) = SlotOf(t[r]) => s = r
  <2> SUFFICES ASSUME NEW s \in Won, NEW r \in Won, SlotOf(t[s]) = SlotOf(t[r]) PROVE t[s] = t[r]
    BY Basics DEF WonInv
  <2>1. t[s] \in Int /\ t[r] \in Int /\ t[s] < t[r] + Capacity /\ t[r] < t[s] + Capacity
    BY <1>0, <1>5
  <2>2. t[s] < t[r] \/ t[r] < t[s] \/ t[s] = t[r]
    BY <2>1
  <2> QED BY <2>1, <2>2, SlotLemma
<1> QED BY <1>1, <1>3, <1>4, <1>6, <1>7, SlotLemma

-----------------------------------------------------------------------------
(* Steps that move a thread and nothing else *)

\* The releases under way stay, and nobody comes to use their slots.
LEMMA ReleasesKept ==
  ASSUME ReleaseInv, \A s \in Stealers : sb'[s] = sb[s],
         \A s \in Stealers : \A j \in DOMAIN sb[s] :
           /\ states'[sb[s][j].slot] = "FULL" /\ Clear(sb'[Owner], sb[s][j].slot)
           /\ \A i \in Live' : SlotOf(i) # sb[s][j].slot
           /\ \A r \in Won' : SlotOf(t'[r]) # sb[s][j].slot
  PROVE  ReleaseInv'
<1>1. \A s \in Stealers : \A j \in DOMAIN sb[s] : sb[s][j].loc = "state" /\ sb[s][j].val = "FREE"
  BY DEF ReleaseInv
<1>2. \A s, r \in Stealers : \A j \in DOMAIN sb[s], k \in DOMAIN sb[r] :
        sb[s][j].slot = sb[r][k].slot => s = r /\ j = k
  BY DEF ReleaseInv
<1> QED BY <1>1, <1>2 DEF ReleaseInv

\* The winners stay, and so do their slots.
LEMMA WinnersKept ==
  ASSUME WonInv, Won' = Won,
         \A s \in Won :
           /\ t'[s] = t[s] /\ t[s] < top' /\ LogicalBottom' <= t[s] + Capacity
           /\ states'[SlotOf(t[s])] = "FULL" /\ buffer'[SlotOf(t[s])] = at'[t[s]]
           /\ Clear(sb'[Owner], SlotOf(t[s]))
  PROVE  WonInv'
BY DEF WonInv

\* The same deque, winners and hand-outs.
LEMMA SameTasks ==
  ASSUME TaskInv, UNCHANGED <<pushed, at, taken, dropped>>, Live' = Live, Won' = Won,
         \A s \in Won : t'[s] = t[s]
  PROVE  TaskInv'
<1>2. \A s \in Won : at[t'[s]] = at[t[s]]
  OBVIOUS
<1>3. taken' = taken /\ pushed' = pushed /\ at' = at /\ dropped' = dropped /\ Won' = Won
  OBVIOUS
<1>4. CASE dropped
  BY <1>3, <1>4 DEF TaskInv
<1>5. CASE ~dropped
  <2>1. /\ \A i \in Live' : at[i] \in 1..pushed /\ taken[at[i]] = 0
        /\ \A i, j \in Live' : at[i] = at[j] => i = j
    BY <1>5 DEF TaskInv
  <2>2. /\ \A s \in Won : at[t'[s]] \in 1..pushed /\ taken[at[t'[s]]] = 0
        /\ \A s \in Won : \A i \in Live' : at[i] # at[t'[s]]
    BY <1>2, <1>5 DEF TaskInv
  <2>3. \A s, r \in Won : at[t'[s]] = at[t'[r]] => s = r
    BY <1>2, <1>5 DEF TaskInv
  <2>4. \A x \in 1..pushed : taken[x] = 0 =>
          (\E i \in Live' : at[i] = x) \/ (\E s \in Won : at[t'[s]] = x)
    BY <1>2, <1>5 DEF TaskInv
  <2>5. taken[None] = 0 /\ \A x \in Tasks : taken[x] \in {0, 1} /\ (taken[x] = 1 => x <= pushed)
    BY DEF TaskInv
  <2> QED BY <1>3, <1>5, <2>1, <2>2, <2>3, <2>4, <2>5 DEF TaskInv
<1> QED BY <1>4, <1>5

\* The task of one index of the deque is handed out.
LEMMA TaskLeaves ==
  ASSUME DequeIndInv, ~dropped, NEW i \in Live, Live' = Live \ {i}, Won' = Won,
         \A s \in Won : t'[s] = t[s], UNCHANGED <<pushed, at, dropped>>, Take(at[i])
  PROVE  TaskInv'
<1>1. TaskInv /\ pushed \in 0..MaxPush
  BY Basics DEF TypeOK
<1>2. at[i] \in 1..pushed /\ at[i] \in Tasks /\ taken[at[i]] = 0
  <2>1. at[i] \in 1..pushed /\ taken[at[i]] = 0
    BY <1>1 DEF TaskInv
  <2> QED BY <2>1, Bounds DEF Tasks
<1>3. taken \in [Tasks \union {None} -> Nat] /\ None \notin Tasks
  BY ChaseLevAssumption, Basics DEF TypeOK, Tasks
<1>4. /\ taken'[at[i]] = 1
      /\ \A x \in Tasks \union {None} : x # at[i] => taken'[x] = taken[x]
  BY <1>2, <1>3 DEF Take
<1>5. \A x \in 1..pushed : x \in Tasks
  BY <1>1, Basics DEF Tasks
<1>6. taken'[None] = 0
  BY <1>1, <1>2, <1>3, <1>4 DEF TaskInv
<1>7. \A x \in Tasks : taken'[x] \in {0, 1} /\ (taken'[x] = 1 => x <= pushed)
  BY <1>1, <1>2, <1>4 DEF TaskInv
<1>8. /\ \A j \in Live' : at[j] \in 1..pushed /\ taken'[at[j]] = 0
      /\ \A j, k \in Live' : at[j] = at[k] => j = k
  <2>1. \A j \in Live' : j \in Live /\ at[j] # at[i] /\ at[j] \in 1..pushed /\ taken[at[j]] = 0
    BY <1>1 DEF TaskInv
  <2>2. \A j, k \in Live' : at[j] = at[k] => j = k
    BY <1>1, <2>1 DEF TaskInv
  <2> QED BY <1>4, <1>5, <2>1, <2>2
<1>9. /\ \A s \in Won : at[t[s]] \in 1..pushed /\ taken'[at[t[s]]] = 0
      /\ \A s \in Won : \A j \in Live' : at[j] # at[t[s]]
      /\ \A s, r \in Won : at[t[s]] = at[t[r]] => s = r
  <2>1. \A s \in Won : at[t[s]] # at[i] /\ at[t[s]] \in 1..pushed /\ taken[at[t[s]]] = 0
    BY <1>1 DEF TaskInv
  <2>2. \A s, r \in Won : at[t[s]] = at[t[r]] => s = r
    BY <1>1 DEF TaskInv
  <2>3. \A s \in Won : \A j \in Live' : at[j] # at[t[s]]
    BY <1>1 DEF TaskInv
  <2> QED BY <1>4, <1>5, <2>1, <2>2, <2>3
<1>10. \A x \in 1..pushed : taken'[x] = 0 =>
         (\E j \in Live' : at[j] = x) \/ (\E s \in Won : at[t[s]] = x)
  <2> SUFFICES ASSUME NEW x \in 1..pushed, taken'[x] = 0
               PROVE  (\E j \in Live' : at[j] = x) \/ (\E s \in Won : at[t[s]] = x)
    OBVIOUS
  <2>1. x # at[i] /\ x \in Tasks
    BY <1>4, <1>5
  <2>2. taken[x] = 0
    BY <1>4, <2>1
  <2>3. (\E j \in Live : at[j] = x) \/ (\E s \in Won : at[t[s]] = x)
    BY <1>1, <2>2 DEF TaskInv
  <2> QED BY <2>1, <2>3
<1>11. \A s \in Won : at[t'[s]] = at[t[s]]
  OBVIOUS
<1>12. pushed' = pushed /\ at' = at /\ ~dropped'
  OBVIOUS
<1>13. /\ \A s \in Won' : at'[t'[s]] \in 1..pushed' /\ taken'[at'[t'[s]]] = 0
       /\ \A s \in Won' : \A j \in Live' : at'[j] # at'[t'[s]]
  BY <1>9, <1>11, <1>12
<1>14. \A s, r \in Won' : at'[t'[s]] = at'[t'[r]] => s = r
  BY <1>9, <1>11, <1>12
<1>15. \A x \in 1..pushed' : taken'[x] = 0 =>
         (\E j \in Live' : at'[j] = x) \/ (\E s \in Won' : at'[t'[s]] = x)
  BY <1>10, <1>11, <1>12
<1> QED BY <1>6, <1>7, <1>8, <1>12, <1>13, <1>14, <1>15 DEF TaskInv

\* Memory, buffers and ghosts stand; the deque and the winners are the same.
QuietStep ==
  /\ UNCHANGED <<top, bottom, states, buffer, sb, pushed, at, taken, dropped>>
  /\ LogicalBottom' = LogicalBottom /\ Won' = Won /\ \A s \in Won : t'[s] = t[s]
  /\ pc' \in [Threads -> {"idle", "push_slot", "pop_top", "pop_cas", "steal_bottom",
                         "steal_cas", "steal_state", "steal_read"}]
  /\ t' \in [Threads -> 0..MaxPush] /\ b' \in -1..MaxPush
  /\ PlaceInv'
  /\ \A s \in Stealers : t'[s] <= top
  /\ \A s \in Stealers : pc'[s] = "steal_cas" /\ t'[s] = top =>
       top < LogicalBottom /\ Clear(sb[Owner], SlotOf(top))

\* Such a step preserves the invariant.
LEMMA QuietKeeps ==
  ASSUME DequeIndInv, QuietStep
  PROVE  DequeIndInv'
<1>1. /\ UNCHANGED <<top, bottom, states, buffer, sb, pushed, at, taken, dropped>>
      /\ LogicalBottom' = LogicalBottom /\ Won' = Won /\ \A s \in Won : t'[s] = t[s]
  BY DEF QuietStep
<1>2. Live' = Live
  BY <1>1 DEF Live
<1>3. \A th, x : Clear(sb'[th], x) <=> Clear(sb[th], x)
  BY <1>1 DEF Clear
<1>4. \A x : OwnerState(x)' = OwnerState(x) /\ OwnerData(x)' = OwnerData(x)
  BY <1>1 DEF OwnerState, OwnerData, Load
<1>5. TypeOK'
  BY <1>1, Basics DEF QuietStep, TypeOK
<1>6. IndexInv'
  BY <1>1, <1>3, Basics DEF QuietStep, IndexInv
<1>7. StoreInv'
  BY <1>1, <1>2, <1>3, <1>4, Basics DEF StoreInv
<1>8. ReleaseInv' /\ WonInv'
  <2>1. ReleaseInv /\ WonInv
    BY Basics
  <2>2. \A s \in Stealers : \A j \in DOMAIN sb[s] :
           /\ states'[sb[s][j].slot] = "FULL" /\ Clear(sb'[Owner], sb[s][j].slot)
           /\ \A i \in Live' : SlotOf(i) # sb[s][j].slot
           /\ \A r \in Won' : SlotOf(t'[r]) # sb[s][j].slot
    BY <1>1, <1>2, <1>3, <2>1 DEF ReleaseInv
  <2>3. ReleaseInv'
    BY <1>1, <2>1, <2>2, ReleasesKept
  <2>4. \A s \in Won :
           /\ t'[s] = t[s] /\ t[s] < top' /\ LogicalBottom' <= t[s] + Capacity
           /\ states'[SlotOf(t[s])] = "FULL" /\ buffer'[SlotOf(t[s])] = at'[t[s]]
           /\ Clear(sb'[Owner], SlotOf(t[s]))
    BY <1>1, <1>3, <2>1 DEF WonInv
  <2> QED BY <1>1, <2>1, <2>3, <2>4, WinnersKept
<1>9. TaskInv'
  BY <1>1, <1>2, Basics, SameTasks
<1>10. OrderInv'
  BY <1>1, Basics DEF OrderInv
<1> QED BY <1>5, <1>6, <1>7, <1>8, <1>9, <1>10 DEF DequeIndInv, QuietStep

\* bottom as the owner sees it depends on its buffer and on memory only.
LEMMA OwnerBottomKept ==
  ASSUME sb'[Owner] = sb[Owner], bottom' = bottom
  PROVE  OwnerBottom' = OwnerBottom
BY DEF OwnerBottom, Load

\* Moving one thread leaves the others where they are.
LEMMA GotoMoves ==
  ASSUME DequeIndInv, NEW th \in Threads, NEW l, Goto(th, l)
  PROVE  pc'[th] = l /\ \A u \in Threads : u # th => pc'[u] = pc[u]
BY Basics DEF Goto

\* A stealer that moves between places outside a win changes nothing that is shared.
LEMMA StealerQuiet ==
  ASSUME DequeIndInv, NEW s \in Stealers, NEW l, Goto(s, l), ~dropped,
         l \in {"idle", "steal_bottom", "steal_cas", "steal_state", "steal_read"},
         s \in Won <=> l \in {"steal_state", "steal_read"},
         UNCHANGED <<top, bottom, states, buffer, sb, b, pushed, at, taken, dropped>>,
         t' = t \/ (s \notin Won /\ t' = [t EXCEPT ![s] = top]),
         l = "steal_cas" /\ t'[s] = top => top < LogicalBottom /\ Clear(sb[Owner], SlotOf(top))
  PROVE  DequeIndInv' /\ Invisible
<1>1. s \in Threads /\ Owner \in Threads /\ s # Owner
  BY Basics
<1>2. pc'[s] = l /\ \A u \in Threads : u # s => pc'[u] = pc[u]
  BY <1>1, GotoMoves
<1>3. pc'[Owner] = pc[Owner]
  BY <1>1, <1>2
<1>4. OwnerBottom' = OwnerBottom
  BY OwnerBottomKept
<1>5. LogicalBottom' = LogicalBottom
  BY <1>3, <1>4 DEF LogicalBottom
<1>6. \A u \in Stealers : u # s => pc'[u] = pc[u]
  BY <1>2, Basics
<1>7. Won' = Won
  BY <1>2, <1>6 DEF Won
<1>8. \A u \in Threads : u # s => t'[u] = t[u]
  BY <1>1, Basics
<1>9. \A u \in Won : t'[u] = t[u]
  <2> TAKE u \in Won
  <2>1. u \in Stealers /\ u \in Threads
    BY Basics DEF Won
  <2> QED BY <1>8, <2>1
<1>10. t' \in [Threads -> 0..MaxPush]
  BY <1>1, Basics DEF TypeOK
<1>11. pc' \in [Threads -> {"idle", "push_slot", "pop_top", "pop_cas", "steal_bottom",
                         "steal_cas", "steal_state", "steal_read"}]
  BY <1>1, Basics DEF Goto
<1>12. \A u \in Stealers : t'[u] <= top
  <2> TAKE u \in Stealers
  <2>1. u \in Threads /\ t[u] <= top /\ top \in Nat
    BY Basics DEF IndexInv
  <2>2. t'[u] = t[u] \/ t'[u] = top
    BY <2>1, Basics
  <2> QED BY <2>1, <2>2
<1>13. PlaceInv'
  <2>1. t'[Owner] = t[Owner]
    BY <1>1, <1>8
  <2>2. \A u \in Stealers :
          pc'[u] \in {"idle", "steal_bottom", "steal_cas", "steal_state", "steal_read"}
    BY <1>2, <1>6, Basics DEF PlaceInv
  <2> QED BY <1>3, <1>4, <2>1, <2>2, Basics DEF PlaceInv
<1>14. \A u \in Stealers : pc'[u] = "steal_cas" /\ t'[u] = top =>
         top < LogicalBottom /\ Clear(sb[Owner], SlotOf(top))
  <2> SUFFICES ASSUME NEW u \in Stealers, pc'[u] = "steal_cas", t'[u] = top
               PROVE  top < LogicalBottom /\ Clear(sb[Owner], SlotOf(top))
    OBVIOUS
  <2>1. CASE u = s
    BY <1>2, <2>1
  <2>2. CASE u # s
    BY <1>6, <1>8, <2>2, Basics DEF IndexInv
  <2> QED BY <2>1, <2>2
<1>15. b' \in -1..MaxPush
  BY Basics
<1>16. Invisible
  BY <1>5, <1>7, <1>9 DEF Invisible, SameWinners
<1> QED BY <1>16, <1>5, <1>7, <1>9, <1>10, <1>11, <1>12, <1>13, <1>14, <1>15, QuietKeeps DEF QuietStep

\* A stealer in the middle of an operation: the deque is not dropped.
LEMMA BusyNotDropped ==
  ASSUME DequeIndInv, NEW th \in Threads, pc[th] # "idle" \/ sb[th] # <<>>
  PROVE  ~dropped
BY Basics DEF PlaceInv, Quiescent

\* Loading top.
LEMMA StealLoadTopKeeps ==
  ASSUME DequeIndInv, NEW s \in Stealers, StealLoadTop(s)
  PROVE  DequeIndInv' /\ Invisible
<1>1. pc[s] = "idle" /\ s \notin Won
  BY DEF StealLoadTop, Won
<1>2. Goto(s, "steal_bottom")
  BY DEF StealLoadTop
<1> QED BY <1>1, <1>2, StealerQuiet DEF StealLoadTop

\* A bottom above the loaded top is not above the logical one, and what it publishes has
\* reached memory.
LEMMA StealLoadBottomKeeps ==
  ASSUME DequeIndInv, NEW s \in Stealers, StealLoadBottom(s)
  PROVE  DequeIndInv' /\ Invisible
<1>1. pc[s] = "steal_bottom" /\ s \notin Won /\ s \in Threads
  BY Basics DEF StealLoadBottom, Won
<1>2. ~dropped
  BY <1>1, BusyNotDropped
<1>3. CASE t[s] >= bottom
  <2>1. Goto(s, "idle")
    BY <1>3 DEF StealLoadBottom
  <2> QED BY <1>1, <1>2, <2>1, StealerQuiet DEF StealLoadBottom
<1>4. CASE ~(t[s] >= bottom)
  <2>1. Goto(s, "steal_cas")
    BY <1>4 DEF StealLoadBottom
  <2>2. t' = t
    BY DEF StealLoadBottom
  <2>3. t'[s] = top => top < LogicalBottom /\ Clear(sb[Owner], SlotOf(top))
    <3> HAVE t'[s] = top
    <3>1. top \in Nat /\ bottom \in Int /\ LogicalBottom \in Nat /\ bottom <= LogicalBottom
      BY Basics DEF IndexInv
    <3>2. top < bottom /\ top < LogicalBottom /\ top \in Live
      BY <1>4, <2>2, <3>1 DEF Live
    <3> QED BY <3>2, Basics DEF StoreInv
  <2> QED BY <1>1, <1>2, <2>1, <2>2, <2>3, StealerQuiet DEF StealLoadBottom
<1> QED BY <1>3, <1>4

\* The winner of an index always finds the slot FULL.
LEMMA StealLoadStateKeeps ==
  ASSUME DequeIndInv, NEW s \in Stealers, StealLoadState(s)
  PROVE  DequeIndInv' /\ Invisible
<1>1. pc[s] = "steal_state" /\ s \in Won /\ s \in Threads
  BY Basics DEF StealLoadState, Won
<1>2. ~dropped
  BY <1>1, BusyNotDropped
<1>3. Goto(s, "steal_read")
  BY <1>1, Basics DEF StealLoadState, WonInv
<1> QED BY <1>1, <1>2, <1>3, StealerQuiet DEF StealLoadState

\* A lost race for top.
LEMMA StealCasLost ==
  ASSUME DequeIndInv, NEW s \in Stealers, StealCas(s), top # t[s]
  PROVE  DequeIndInv' /\ Invisible
<1>1. pc[s] = "steal_cas" /\ s \notin Won /\ s \in Threads
  BY Basics DEF StealCas, Won
<1>2. ~dropped
  BY <1>1, BusyNotDropped
<1>3. Goto(s, "idle") /\ top' = top
  BY DEF StealCas
<1> QED BY <1>1, <1>2, <1>3, StealerQuiet DEF StealCas

-----------------------------------------------------------------------------
(* Steps of the owner that store nothing *)

\* The owner moves, and the deque stays as it is.
LEMMA OwnerQuiet ==
  ASSUME DequeIndInv, NEW l, Goto(Owner, l),
         l \in {"idle", "push_slot", "pop_top", "pop_cas"},
         UNCHANGED <<top, bottom, states, buffer, sb, pushed, at, taken, dropped>>,
         t' = t \/ t' = [t EXCEPT ![Owner] = top], b' \in -1..MaxPush,
         LogicalBottom' = LogicalBottom, ~dropped,
         l = "push_slot" => b' = OwnerBottom /\ b' - top < mask /\ pushed < MaxPush,
         l = "pop_top" => b' = OwnerBottom,
         l = "pop_cas" => sb[Owner] = <<>> /\ bottom = b' /\ t'[Owner] = b'
  PROVE  DequeIndInv' /\ Invisible
<1>1. Owner \in Threads /\ Owner \notin Stealers
  BY Basics
<1>2. pc'[Owner] = l /\ \A u \in Stealers : pc'[u] = pc[u]
  BY <1>1, GotoMoves, Basics
<1>3. \A u \in Stealers : t'[u] = t[u]
  BY <1>1, Basics
<1>4. Won' = Won /\ \A u \in Won : t'[u] = t[u]
  BY <1>2, <1>3 DEF Won
<1>5. OwnerBottom' = OwnerBottom
  BY OwnerBottomKept
<1>6. t' \in [Threads -> 0..MaxPush]
  BY <1>1, Basics DEF TypeOK
<1>7. pc' \in [Threads -> {"idle", "push_slot", "pop_top", "pop_cas", "steal_bottom",
                         "steal_cas", "steal_state", "steal_read"}]
  BY <1>1, Basics DEF Goto
<1>8. PlaceInv'
  BY <1>2, <1>5, Basics DEF PlaceInv
<1>9. /\ \A u \in Stealers : t'[u] <= top
      /\ \A u \in Stealers : pc'[u] = "steal_cas" /\ t'[u] = top =>
           top < LogicalBottom /\ Clear(sb[Owner], SlotOf(top))
  BY <1>2, <1>3, Basics DEF IndexInv
<1>10. Invisible
  BY <1>4 DEF Invisible, SameWinners
<1> QED BY <1>10, <1>4, <1>6, <1>7, <1>8, <1>9, QuietKeeps DEF QuietStep

\* The capacity test of push.
LEMMA PushLoadKeeps ==
  ASSUME DequeIndInv, PushLoad
  PROVE  DequeIndInv' /\ Invisible
<1>1. pc[Owner] = "idle" /\ ~dropped /\ pushed < MaxPush /\ b' = OwnerBottom
      /\ Owner \in Threads
  BY Basics DEF PushLoad
<1>2. LogicalBottom = OwnerBottom
  BY <1>1 DEF LogicalBottom
<1>3. OwnerBottom \in -1..MaxPush
  BY <1>2, Basics
<1>4. OwnerBottom' = OwnerBottom
  BY OwnerBottomKept DEF PushLoad
<1>5. PICK l : l \in {"idle", "push_slot"} /\ Goto(Owner, l)
               /\ (l = "push_slot" => OwnerBottom - top < mask)
  BY DEF PushLoad, HasRoom
<1>6. pc'[Owner] = l
  BY <1>1, <1>5, GotoMoves
<1>7. LogicalBottom' = LogicalBottom
  BY <1>2, <1>4, <1>5, <1>6 DEF LogicalBottom
<1> QED BY <1>1, <1>3, <1>5, <1>7, OwnerQuiet DEF PushLoad

\* A push that finds its slot not yet released.
LEMMA PushRefused ==
  ASSUME DequeIndInv, PushStore, ~SlotIsFree(SlotOf(b))
  PROVE  DequeIndInv' /\ Invisible
<1>1. pc[Owner] = "push_slot" /\ Goto(Owner, "idle") /\ Owner \in Threads
      /\ UNCHANGED <<top, bottom, states, buffer, sb, pushed, at, taken, dropped, t, b>>
  BY Basics DEF PushStore
<1>2. pc'[Owner] = "idle" /\ OwnerBottom' = OwnerBottom
  BY <1>1, GotoMoves, OwnerBottomKept
<1>3. LogicalBottom' = LogicalBottom
  BY <1>1, <1>2 DEF LogicalBottom
<1>4. ~dropped
  BY <1>1, BusyNotDropped
<1>5. b' \in -1..MaxPush
  BY <1>1, Basics
<1> QED BY <1>1, <1>3, <1>4, <1>5, OwnerQuiet

\* pop meets the last element and goes on to arbitrate.
LEMMA PopMeetsLast ==
  ASSUME DequeIndInv, PopLoadTop, top = b
  PROVE  DequeIndInv' /\ Invisible
<1>1. /\ pc[Owner] = "pop_top" /\ sb[Owner] = <<>> /\ t' = [t EXCEPT ![Owner] = top]
      /\ Owner \in Threads
      /\ UNCHANGED <<top, bottom, states, buffer, b, pushed, at, dropped>>
  BY Basics DEF PopLoadTop, PopFence, Fenced
<1>2. top \in Nat
  BY Basics
<1>3. Goto(Owner, "pop_cas") /\ UNCHANGED <<sb, taken>>
  BY <1>2 DEF PopLoadTop
<1>4. pc'[Owner] = "pop_cas"
  BY <1>1, <1>3, GotoMoves
<1>5. LogicalBottom' = LogicalBottom
  BY <1>1, <1>4 DEF LogicalBottom
<1>6. ~dropped
  BY <1>1, BusyNotDropped
<1>7. t'[Owner] = b'
  BY <1>1, Basics
<1>8. bottom = b
  <2>1. b = OwnerBottom
    BY <1>1, Basics DEF PlaceInv
  <2>2. DOMAIN sb[Owner] = {}
    BY <1>1
  <2>3. OwnerBottom = bottom
    BY <2>2, LoadIsSeen, SeenMemory DEF OwnerBottom
  <2> QED BY <2>1, <2>3
<1>9. b' \in -1..MaxPush
  BY <1>1, Basics
<1> QED BY <1>1, <1>3, <1>5, <1>6, <1>7, <1>8, <1>9, OwnerQuiet

-----------------------------------------------------------------------------
(* Steps of the owner that only store bottom *)

\* The positions of a buffer that a store has entered.
LEMMA AppendAt ==
  ASSUME NEW q \in Seq(StoreType), NEW w \in StoreType
  PROVE  /\ Append(q, w) \in Seq(StoreType)
         /\ Len(q) \in Nat /\ DOMAIN q = 1..Len(q) /\ DOMAIN Append(q, w) = 1..(Len(q) + 1)
         /\ Append(q, w)[Len(q) + 1] = w /\ \A j \in 1..Len(q) : Append(q, w)[j] = q[j]
BY AppendProperties

\* pop's reservation, and the store that takes a reservation back.
LEMMA BottomStoreKeeps ==
  ASSUME DequeIndInv, NEW v \in -1..MaxPush, v <= LogicalBottom, ~dropped,
         sb' = [sb EXCEPT ![Owner] = Append(@, BottomStore(v))],
         NEW l, Goto(Owner, l), l \in {"idle", "pop_top"}, l = "pop_top" => b' = v,
         UNCHANGED <<top, bottom, states, buffer, pushed, at, taken, dropped>>,
         t' = t \/ t' = [t EXCEPT ![Owner] = top], b' \in -1..MaxPush,
         l = "idle" => v = LogicalBottom, l = "pop_top" => v + 1 = LogicalBottom
  PROVE  DequeIndInv' /\ Invisible
<1> DEFINE q == sb[Owner]
<1> DEFINE Q == Append(q, BottomStore(v))
<1>1. Owner \in Threads /\ Owner \notin Stealers /\ q \in Seq(StoreType) /\ Ordered(q)
  BY Basics DEF OrderInv
<1>2. BottomStore(v) \in StoreType
  BY DEF BottomStore, StoreType
<1>3. sb'[Owner] = Q /\ \A u \in Stealers : sb'[u] = sb[u]
  BY <1>1, Basics
<1>4. PICK n \in Nat : /\ DOMAIN q = 1..n /\ DOMAIN Q = 1..(n + 1) /\ Q[n + 1] = BottomStore(v)
                       /\ \A j \in 1..n : Q[j] = q[j]
  BY <1>1, <1>2, AppendAt
<1>5. pc'[Owner] = l /\ \A u \in Stealers : pc'[u] = pc[u]
  BY <1>1, GotoMoves, Basics
<1>6. \A u \in Stealers : t'[u] = t[u]
  BY <1>1, Basics
<1>7. Won' = Won /\ \A u \in Won : t'[u] = t[u] /\ u \in Stealers
  BY <1>5, <1>6 DEF Won
<1>8. OwnerBottom' = v
  <2>1. Seen(Q, "bottom", 0, bottom) = v
    BY <1>1, <1>2, SeenAppend DEF BottomStore
  <2> QED BY <1>3, <2>1, OwnerSees
<1>9. LogicalBottom' = LogicalBottom /\ LogicalBottom \in Int
  <2>1. CASE l = "idle"
    BY <1>5, <1>8, <2>1, Basics DEF LogicalBottom
  <2>2. CASE l = "pop_top"
    BY <1>5, <2>2, Basics DEF LogicalBottom
  <2> QED BY <2>1, <2>2
<1>10. Live' = Live
  BY <1>9 DEF Live
<1>11. \A x : OwnerState(x)' = OwnerState(x) /\ OwnerData(x)' = OwnerData(x)
  <2> TAKE x
  <2>1. /\ Seen(Q, "state", x, states[x]) = Seen(q, "state", x, states[x])
        /\ Seen(Q, "data", x, buffer[x]) = Seen(q, "data", x, buffer[x])
    BY <1>1, <1>2, SeenAppend DEF BottomStore
  <2>2. states' = states /\ buffer' = buffer
    OBVIOUS
  <2> QED BY <1>3, <2>1, <2>2, OwnerSees
<1>12. \A x : Clear(sb'[Owner], x) <=> Clear(sb[Owner], x)
  BY <1>3, <1>4 DEF Clear, BottomStore
<1>13. TypeOK'
  <2>1. sb' \in [Threads -> Seq(StoreType)]
    BY <1>1, <1>2, AppendAt, Basics
  <2>2. pc' \in [Threads -> {"idle", "push_slot", "pop_top", "pop_cas", "steal_bottom",
                         "steal_cas", "steal_state", "steal_read"}]
    BY <1>1, Basics DEF Goto
  <2>3. t' \in [Threads -> 0..MaxPush]
    BY <1>1, Basics DEF TypeOK
  <2> QED BY <2>1, <2>2, <2>3, Basics DEF TypeOK
<1>14. PlaceInv'
  BY <1>5, <1>8, Basics DEF PlaceInv
<1>15. IndexInv'
  <2>1. \A j \in 1..(n + 1) : Q[j].loc = "bottom" => Q[j].val <= LogicalBottom
    <3> SUFFICES ASSUME NEW j \in 1..(n + 1), Q[j].loc = "bottom" PROVE Q[j].val <= LogicalBottom
      OBVIOUS
    <3>1. CASE j = n + 1
      BY <1>4, <3>1 DEF BottomStore
    <3>2. CASE j \in 1..n
      BY <1>4, <3>2, Basics DEF IndexInv
    <3> QED BY <1>4, <3>1, <3>2
  <2> QED BY <1>3, <1>4, <1>5, <1>6, <1>9, <1>12, <2>1, Basics DEF IndexInv
<1>16. StoreInv'
  <2>1. \A i \in Live : \A j, k \in 1..(n + 1) :
          j < k /\ Q[j].loc = "bottom" /\ i < Q[j].val /\ Q[k].loc # "bottom" => Q[k].slot # SlotOf(i)
    <3> SUFFICES ASSUME NEW i \in Live, NEW j \in 1..(n + 1), NEW k \in 1..(n + 1), j < k,
                        Q[j].loc = "bottom", i < Q[j].val, Q[k].loc # "bottom"
                 PROVE  Q[k].slot # SlotOf(i)
      OBVIOUS
    <3>1. k # n + 1
      BY <1>4 DEF BottomStore
    <3>2. j \in 1..n /\ k \in 1..n
      BY <1>4, <3>1
    <3>3. q[j].loc = "bottom" /\ i < q[j].val /\ q[k].loc # "bottom" /\ Q[k].slot = q[k].slot
      BY <1>4, <3>2
    <3>4. StoreInv
      BY Basics
    <3> QED BY <1>4, <3>2, <3>3, <3>4 DEF StoreInv
  <2>2. StoreInv
    BY Basics
  <2>3. \A i \in Live : OwnerState(SlotOf(i))' = "FULL" /\ OwnerData(SlotOf(i))' = at[i]
    BY <1>11, <2>2 DEF StoreInv
  <2>4. \A i \in Live : i < bottom => Clear(sb'[Owner], SlotOf(i))
    BY <1>12, <2>2 DEF StoreInv
  <2> QED BY <1>3, <1>4, <1>10, <2>1, <2>3, <2>4 DEF StoreInv
<1>17. ReleaseInv'
  <2>1. \A s \in Stealers : sb'[s] = sb[s]
    BY <1>3
  <2>2. ReleaseInv
    BY Basics
  <2>3. \A s \in Stealers : \A j \in DOMAIN sb[s] :
           /\ states'[sb[s][j].slot] = "FULL" /\ Clear(sb'[Owner], sb[s][j].slot)
           /\ \A i \in Live' : SlotOf(i) # sb[s][j].slot
           /\ \A r \in Won' : SlotOf(t'[r]) # sb[s][j].slot
    BY <1>7, <1>10, <1>12, <2>2 DEF ReleaseInv
  <2> QED BY <2>1, <2>2, <2>3, ReleasesKept
<1>18. WonInv'
  <2>1. WonInv
    BY Basics
  <2>2. \A s \in Won :
           /\ t'[s] = t[s] /\ t[s] < top' /\ LogicalBottom' <= t[s] + Capacity
           /\ states'[SlotOf(t[s])] = "FULL" /\ buffer'[SlotOf(t[s])] = at'[t[s]]
           /\ Clear(sb'[Owner], SlotOf(t[s]))
    BY <1>7, <1>9, <1>12, <2>1 DEF WonInv
  <2> QED BY <1>7, <2>1, <2>2, WinnersKept
<1>19. TaskInv'
  BY <1>7, <1>10, Basics, SameTasks
<1>20. OrderInv'
  BY <1>1, <1>2, <1>3, OrderedAppend DEF OrderInv
<1>21. Invisible
  BY <1>7, <1>9 DEF Invisible, SameWinners
<1> QED BY <1>21, <1>13, <1>14, <1>15, <1>16, <1>17, <1>18, <1>19, <1>20 DEF DequeIndInv

\* Issuing one store appends it.
LEMMA IssueOne ==
  ASSUME DequeIndInv, NEW th \in Threads, NEW w \in StoreType, Issue(th, <<w>>)
  PROVE  sb' = [sb EXCEPT ![th] = Append(@, w)]
<1>1. sb[th] \in Seq(StoreType)
  BY Basics
<1>2. sb[th] \o <<w>> = Append(sb[th], w)
  BY <1>1
<1> QED BY <1>2 DEF Issue

\* A bottom store that fits is a store.
LEMMA BottomStoreType ==
  ASSUME NEW v \in -1..MaxPush
  PROVE  BottomStore(v) \in StoreType
BY DEF BottomStore, StoreType

\* pop reserves index b by lowering bottom.
LEMMA PopReserveKeeps ==
  ASSUME DequeIndInv, PopReserve
  PROVE  DequeIndInv' /\ Invisible
<1>1. pc[Owner] = "idle" /\ ~dropped /\ Owner \in Threads /\ Goto(Owner, "pop_top")
      /\ b' = OwnerBottom - 1 /\ Issue(Owner, <<BottomStore(OwnerBottom - 1)>>)
      /\ UNCHANGED <<top, bottom, states, buffer, t, pushed, at, taken, dropped>>
  BY Basics DEF PopReserve
<1>2. LogicalBottom = OwnerBottom
  BY <1>1 DEF LogicalBottom
<1>3. PICK v : v = OwnerBottom - 1
  OBVIOUS
<1>4. v \in -1..MaxPush /\ v <= LogicalBottom /\ v + 1 = LogicalBottom
  BY <1>2, <1>3, Bounds
<1>5. sb' = [sb EXCEPT ![Owner] = Append(@, BottomStore(v))]
  BY <1>1, <1>3, <1>4, BottomStoreType, IssueOne
<1>6. b' = v /\ b' \in -1..MaxPush
  BY <1>1, <1>3, <1>4
<1> QED BY <1>1, <1>4, <1>5, <1>6, BottomStoreKeeps

\* A pop that takes its reservation back.
LEMMA RestoreKeeps ==
  ASSUME DequeIndInv, pc[Owner] \in {"pop_top", "pop_cas"}, Goto(Owner, "idle"),
         Issue(Owner, RestoreBottom), t' = t \/ t' = [t EXCEPT ![Owner] = top],
         UNCHANGED <<top, bottom, states, buffer, b, pushed, at, taken, dropped>>
  PROVE  DequeIndInv' /\ Invisible
<1>1. Owner \in Threads /\ LogicalBottom = b + 1
  BY Basics DEF LogicalBottom
<1>2. ~dropped
  BY <1>1, BusyNotDropped
<1>3. b + 1 \in -1..MaxPush /\ b + 1 <= LogicalBottom
  BY <1>1, Bounds
<1>4. sb' = [sb EXCEPT ![Owner] = Append(@, BottomStore(b + 1))]
  BY <1>1, <1>3, BottomStoreType, IssueOne DEF RestoreBottom
<1>5. b' \in -1..MaxPush
  BY Basics
<1>6. PICK v : v = b + 1 
  OBVIOUS
<1> QED BY <1>1, <1>2, <1>3, <1>4, <1>5, <1>6, BottomStoreKeeps

-----------------------------------------------------------------------------
(* A pop that takes its element *)

\* The element at b leaves the deque; its slot is released by a store behind which the
\* last-element path stores bottom.
LEMMA OwnerTakes ==
  ASSUME DequeIndInv, NEW q \in Seq(StoreType), Ordered(q), b \in Live,
         pc[Owner] \in {"pop_top", "pop_cas"}, sb[Owner] = <<>>, Goto(Owner, "idle"),
         sb' = [sb EXCEPT ![Owner] = q],
         \A j \in DOMAIN q : q[j] = BottomStore(b + 1) \/ q[j] = StateStore(SlotOf(b), "FREE"),
         \A j, k \in DOMAIN q : j < k => q[k].loc = "bottom",
         Take(buffer[SlotOf(b)]),
         t' = t \/ t' = [t EXCEPT ![Owner] = top],
         UNCHANGED <<bottom, states, buffer, b, pushed, at, dropped>>,
         top' \in {top, top + 1}, LogicalBottom' \in {b, b + 1}, bottom <= LogicalBottom',
         \A j \in DOMAIN q : q[j].loc = "bottom" => LogicalBottom' = b + 1,
         \/ top' = top /\ LogicalBottom' = b /\ top < b
         \/ top' = b + 1 /\ top = b /\ LogicalBottom' = b + 1
  PROVE  DequeIndInv' /\ Pops
<1>1. Owner \in Threads /\ Owner \notin Stealers /\ top \in Nat /\ b \in Int /\ LogicalBottom = b + 1
      /\ bottom \in Int
  BY Basics DEF LogicalBottom
<1>2. ~dropped
  BY <1>1, BusyNotDropped
<1>3. sb'[Owner] = q /\ \A u \in Stealers : sb'[u] = sb[u]
  BY <1>1, Basics
<1>4. pc'[Owner] = "idle" /\ \A u \in Stealers : pc'[u] = pc[u]
  BY <1>1, GotoMoves, Basics
<1>5. \A u \in Stealers : t'[u] = t[u]
  BY <1>1, Basics
<1>6. Won' = Won /\ \A u \in Won : t'[u] = t[u] /\ u \in Stealers
  BY <1>4, <1>5 DEF Won
<1>7. Live' = Live \ {b}
  BY <1>1 DEF Live
<1>8. LogicalBottom' \in Nat /\ top' \in Nat /\ top' <= LogicalBottom' /\ LogicalBottom' <= LogicalBottom
      /\ LogicalBottom' - top' <= mask /\ top <= top'
  BY <1>1, Bounds
<1>9. SlotOf(b) \in Slots
  BY LiveSlots
<1>10. \A x : x # SlotOf(b) => Clear(q, x)
  BY DEF Clear, BottomStore, StateStore
<1>11. \A x : x # SlotOf(b) => OwnerState(x)' = states[x] /\ OwnerData(x)' = buffer[x]
  <2> SUFFICES ASSUME NEW x, x # SlotOf(b)
               PROVE  OwnerState(x)' = states[x] /\ OwnerData(x)' = buffer[x]
    OBVIOUS
  <2>1. /\ \A j \in DOMAIN q : ~(q[j].loc = "state" /\ q[j].slot = x)
        /\ \A j \in DOMAIN q : ~(q[j].loc = "data" /\ q[j].slot = x)
    BY DEF BottomStore, StateStore
  <2>2. Seen(q, "state", x, states[x]) = states[x] /\ Seen(q, "data", x, buffer[x]) = buffer[x]
    BY <2>1, SeenMemory
  <2>3. states' = states /\ buffer' = buffer
    OBVIOUS
  <2> QED BY <1>3, <2>2, <2>3, OwnerSees
<1>12. \A x : OwnerState(x) = states[x] /\ OwnerData(x) = buffer[x]
  <2>1. DOMAIN sb[Owner] = {}
    OBVIOUS
  <2> QED BY <2>1, SeenMemory, OwnerSees
<1>13. buffer[SlotOf(b)] = at[b]
  BY <1>12, Basics DEF StoreInv
<1>14. TypeOK'
  <2>1. sb' \in [Threads -> Seq(StoreType)]
    BY <1>1, Basics
  <2>2. pc' \in [Threads -> {"idle", "push_slot", "pop_top", "pop_cas", "steal_bottom",
                         "steal_cas", "steal_state", "steal_read"}]
    BY <1>1, Basics DEF Goto
  <2>3. t' \in [Threads -> 0..MaxPush]
    BY <1>1, Basics DEF TypeOK
  <2>4. taken' \in [Tasks \union {None} -> Nat]
    <3>1. taken \in [Tasks \union {None} -> Nat] /\ buffer[SlotOf(b)] \in Tasks \union {None}
      BY <1>9, Basics DEF TypeOK
    <3> QED BY <3>1 DEF Take
  <2>5. top' \in 0..MaxPush
    BY <1>8, Bounds
  <2> QED BY <2>1, <2>2, <2>3, <2>4, <2>5, Basics DEF TypeOK
<1>15. PlaceInv'
  BY <1>2, <1>4, Basics DEF PlaceInv
<1>16. IndexInv'
  <2>1. IndexInv
    BY Basics
  <2>2. LogicalBottom' \in top'..pushed /\ LogicalBottom' - top' <= mask
    BY <1>8, Bounds
  <2>3. \A j \in DOMAIN q : q[j].loc = "bottom" => q[j].val <= LogicalBottom'
    BY <1>1 DEF BottomStore, StateStore
  <2>4. \A s \in Stealers : t'[s] <= top' /\ t[s] \in Nat
    <3> TAKE s \in Stealers
    <3>1. t[s] \in Nat /\ t[s] <= top /\ t'[s] = t[s]
      BY <1>5, <2>1, Basics DEF IndexInv
    <3> QED BY <1>1, <1>8, <3>1
  <2>5. \A s \in Stealers : pc'[s] = "steal_cas" /\ t'[s] = top' =>
          top' < LogicalBottom' /\ Clear(q, SlotOf(top'))
    <3> SUFFICES ASSUME NEW s \in Stealers, pc'[s] = "steal_cas", t'[s] = top'
                 PROVE  top' < LogicalBottom' /\ Clear(q, SlotOf(top'))
      OBVIOUS
    <3>1. t[s] <= top /\ t[s] = top' /\ t[s] \in Nat
      BY <1>5, <2>1, <2>4 DEF IndexInv
    <3>2. top' = top /\ LogicalBottom' = b /\ top < b
      BY <1>1, <3>1
    <3>3. top \in Live /\ top # b
      BY <1>1, <3>2 DEF Live
    <3>4. SlotOf(top) # SlotOf(b)
      BY <3>3, LiveSlots
    <3> QED BY <1>10, <3>2, <3>4
  <2> QED BY <1>3, <2>2, <2>3, <2>4, <2>5 DEF IndexInv
<1>17. \A i \in Live' : i \in Live /\ SlotOf(i) # SlotOf(b)
  BY <1>7, LiveSlots
<1>18. StoreInv'
  <2>1. StoreInv
    BY Basics
  <2>2. \A i \in Live' : OwnerState(SlotOf(i))' = "FULL" /\ OwnerData(SlotOf(i))' = at[i]
    BY <1>11, <1>12, <1>17, <2>1 DEF StoreInv
  <2>3. \A i \in Live' : Clear(q, SlotOf(i))
    BY <1>10, <1>17
  <2> QED BY <1>3, <2>2, <2>3 DEF StoreInv
<1>19. ReleaseInv'
  <2>1. ReleaseInv
    BY Basics
  <2>2. \A s \in Stealers : \A j \in DOMAIN sb[s] :
           /\ states'[sb[s][j].slot] = "FULL" /\ Clear(sb'[Owner], sb[s][j].slot)
           /\ \A i \in Live' : SlotOf(i) # sb[s][j].slot
           /\ \A r \in Won' : SlotOf(t'[r]) # sb[s][j].slot
    <3> TAKE s \in Stealers
    <3> TAKE j \in DOMAIN sb[s]
    <3>1. /\ states[sb[s][j].slot] = "FULL" /\ \A i \in Live : SlotOf(i) # sb[s][j].slot
          /\ \A r \in Won : SlotOf(t[r]) # sb[s][j].slot
      BY <2>1 DEF ReleaseInv
    <3>2. Clear(q, sb[s][j].slot)
      BY <1>10, <3>1
    <3> QED BY <1>3, <1>6, <1>17, <3>1, <3>2
  <2> QED BY <1>3, <2>1, <2>2, ReleasesKept
<1>20. WonInv'
  <2>1. WonInv
    BY Basics
  <2>2. \A s \in Won : SlotOf(t[s]) # SlotOf(b)
    BY LiveSlots
  <2>3. \A s \in Won : t[s] \in Nat /\ t[s] < top /\ LogicalBottom <= t[s] + Capacity
    BY <1>6, <2>1, Basics DEF WonInv
  <2>4. \A s \in Won : t[s] < top' /\ LogicalBottom' <= t[s] + Capacity
    <3> TAKE s \in Won
    <3>1. t[s] \in Nat /\ t[s] < top /\ LogicalBottom <= t[s] + Capacity /\ Capacity \in Nat
      BY <2>3, Basics
    <3> QED BY <1>1, <1>8, <3>1
  <2>5. \A s \in Won :
           /\ t'[s] = t[s] /\ t[s] < top' /\ LogicalBottom' <= t[s] + Capacity
           /\ states'[SlotOf(t[s])] = "FULL" /\ buffer'[SlotOf(t[s])] = at'[t[s]]
           /\ Clear(sb'[Owner], SlotOf(t[s]))
    BY <1>3, <1>6, <1>10, <2>1, <2>2, <2>4 DEF WonInv
  <2> QED BY <1>6, <2>1, <2>5, WinnersKept
<1>21. TaskInv'
  BY <1>2, <1>6, <1>7, <1>13, Basics, TaskLeaves
<1>22. OrderInv'
  BY <1>3 DEF OrderInv
<1>23. Pops
  BY <1>1, <1>2, <1>6, <1>13 DEF Pops, SameWinners
<1> QED BY <1>23, <1>14, <1>15, <1>16, <1>18, <1>19, <1>20, <1>21, <1>22 DEF DequeIndInv

\* The youngest store of bottom is what the owner sees of it.
LEMMA SeenBottom ==
  ASSUME NEW q \in Seq(StoreType), Ordered(q), NEW v \in -1..MaxPush, NEW memory
  PROVE  Seen(Append(q, BottomStore(v)), "bottom", 0, memory) = v
<1>1. BottomStore(v) \in StoreType
  BY BottomStoreType
<1> QED BY <1>1, SeenAppend DEF BottomStore

\* One store, and two stores, are ordered.
LEMMA OrderedShort ==
  ASSUME NEW w \in StoreType, NEW u \in StoreType
  PROVE  /\ <<w>> \in Seq(StoreType) /\ Ordered(<<w>>) /\ DOMAIN <<w>> = {1} /\ <<w>>[1] = w
         /\ <<w, u>> \in Seq(StoreType) /\ Ordered(<<w, u>>) /\ DOMAIN <<w, u>> = {1, 2}
         /\ <<w, u>>[1] = w /\ <<w, u>>[2] = u /\ Append(<<w>>, u) = <<w, u>>
<1>1. <<>> \in Seq(StoreType) /\ Ordered(<<>>)
  BY DEF Ordered
<1>2. <<w>> \in Seq(StoreType) /\ <<w>> = Append(<<>>, w) /\ <<w, u>> = Append(<<w>>, u)
  OBVIOUS
<1>3. Ordered(<<w>>)
  BY <1>1, <1>2, OrderedAppend
<1>4. Ordered(<<w, u>>)
  BY <1>2, <1>3, OrderedAppend
<1>5. DOMAIN <<w>> = {1} /\ <<w>>[1] = w /\ DOMAIN <<w, u>> = {1, 2} /\ <<w, u>>[1] = w
      /\ <<w, u>>[2] = u /\ <<w, u>> \in Seq(StoreType)
  OBVIOUS
<1> QED BY <1>2, <1>3, <1>4, <1>5

\* The fast path of pop: the element at b is above top, so no stealer gets it.
LEMMA PopFastKeeps ==
  ASSUME DequeIndInv, PopLoadTop, top < b
  PROVE  DequeIndInv' /\ Pops
<1>1. /\ pc[Owner] = "pop_top" /\ sb[Owner] = <<>> /\ t' = [t EXCEPT ![Owner] = top]
      /\ Owner \in Threads
      /\ UNCHANGED <<top, bottom, states, buffer, b, pushed, at, dropped>>
  BY Basics DEF PopLoadTop, PopFence, Fenced
<1>2. top \in Nat /\ b \in Int /\ LogicalBottom = b + 1 /\ bottom \in Int
  BY <1>1, Basics DEF LogicalBottom
<1>3. PopTake(<<>>) /\ Goto(Owner, "idle")
  BY <1>2 DEF PopLoadTop
<1>4. b \in Live
  BY <1>2 DEF Live
<1>5. PICK w : w = StateStore(SlotOf(b), "FREE")
  OBVIOUS
<1>6. w \in StoreType
  BY <1>4, <1>5, LiveSlots DEF StateStore, StoreType
<1>7. /\ <<w>> \in Seq(StoreType) /\ Ordered(<<w>>) /\ DOMAIN <<w>> = {1} /\ <<w>>[1] = w
  BY <1>6, OrderedShort
<1>8. sb' = [sb EXCEPT ![Owner] = <<w>>]
  <2>1. <<w>> \o <<>> = <<w>> /\ sb[Owner] \o <<w>> = <<w>>
    BY <1>1, <1>7
  <2> QED BY <1>3, <1>5, <2>1 DEF PopTake, Issue
<1>9. sb'[Owner] = <<w>>
  BY <1>1, <1>8, Basics
<1>10. bottom = b
  <2>1. DOMAIN sb[Owner] = {}
    BY <1>1
  <2> QED BY <1>1, <2>1, SeenMemory, OwnerSees, Basics DEF PlaceInv
<1>11. LogicalBottom' = b
  <2>1. Seen(<<w>>, "bottom", 0, bottom) = bottom
    BY <1>5, <1>7, SeenMemory DEF StateStore
  <2>2. OwnerBottom' = b
    BY <1>1, <1>9, <1>10, <2>1, OwnerSees
  <2>3. pc'[Owner] = "idle"
    BY <1>1, <1>3, GotoMoves
  <2> QED BY <2>2, <2>3 DEF LogicalBottom
<1>12. Take(buffer[SlotOf(b)])
  BY <1>3 DEF PopTake
<1>13. /\ \A j \in DOMAIN <<w>> : <<w>>[j] = BottomStore(b + 1) \/ <<w>>[j] = StateStore(SlotOf(b), "FREE")
       /\ \A j, k \in DOMAIN <<w>> : j < k => <<w>>[k].loc = "bottom"
       /\ \A j \in DOMAIN <<w>> : <<w>>[j].loc = "bottom" => LogicalBottom' = b + 1
  BY <1>5, <1>7 DEF StateStore
<1>14. bottom <= LogicalBottom'
  BY <1>2, <1>10, <1>11
<1>15. PICK q \in Seq(StoreType) : q = <<w>>
  BY <1>7
<1>16. /\ \A j \in DOMAIN q : q[j] = BottomStore(b + 1) \/ q[j] = StateStore(SlotOf(b), "FREE")
       /\ \A j, k \in DOMAIN q : j < k => q[k].loc = "bottom"
       /\ \A j \in DOMAIN q : q[j].loc = "bottom" => LogicalBottom' = b + 1
  BY <1>13, <1>15
<1>17. Ordered(q) /\ sb' = [sb EXCEPT ![Owner] = q]
  BY <1>7, <1>8, <1>15
<1>18. /\ top' \in {top, top + 1} /\ LogicalBottom' \in {b, b + 1}
       /\ top' = top /\ LogicalBottom' = b /\ top < b
  BY <1>1, <1>11
<1> QED BY <1>1, <1>3, <1>4, <1>12, <1>14, <1>16, <1>17, <1>18, OwnerTakes

\* The last element, won against the stealers by the compare-exchange on top.
LEMMA PopLastKeeps ==
  ASSUME DequeIndInv, PopCas, top = t[Owner]
  PROVE  DequeIndInv' /\ Pops
<1>1. /\ pc[Owner] = "pop_cas" /\ sb[Owner] = <<>> /\ top' = top + 1 /\ PopTake(RestoreBottom)
      /\ Goto(Owner, "idle") /\ Owner \in Threads
      /\ UNCHANGED <<bottom, states, buffer, t, b, pushed, at, dropped>>
  BY Basics DEF PopCas, Fenced
<1>2. top \in Nat /\ b \in Int /\ LogicalBottom = b + 1 /\ bottom \in Int /\ b + 1 \in -1..MaxPush
  BY <1>1, Basics DEF LogicalBottom
<1>3. bottom = b /\ top = b
  BY <1>1, Basics DEF PlaceInv
<1>4. b \in Live
  BY <1>2, <1>3 DEF Live
<1>5. PICK w, u : w = StateStore(SlotOf(b), "FREE") /\ u = BottomStore(b + 1)
  OBVIOUS
<1>6. w \in StoreType /\ u \in StoreType
  <2>1. w \in StoreType
    BY <1>4, <1>5, LiveSlots DEF StateStore, StoreType
  <2>2. u \in StoreType
    BY <1>2, <1>5, BottomStoreType
  <2> QED BY <2>1, <2>2
<1>7. /\ <<w, u>> \in Seq(StoreType) /\ Ordered(<<w, u>>) /\ DOMAIN <<w, u>> = {1, 2}
      /\ <<w, u>>[1] = w /\ <<w, u>>[2] = u
  BY <1>6, OrderedShort
<1>8. sb' = [sb EXCEPT ![Owner] = <<w, u>>]
  <2>1. PICK p \in Seq(StoreType) : p = <<w>>
    BY <1>6, OrderedShort
  <2>2. <<w>> \o <<u>> = <<w, u>>
    <3>1. p \o <<u>> = Append(p, u)
      BY <1>6, <2>1
    <3>2. Append(<<w>>, u) = <<w, u>>
      BY <1>6, OrderedShort
    <3> QED BY <2>1, <3>1, <3>2
  <2>3. sb[Owner] \o <<w, u>> = <<w, u>>
    BY <1>1, <1>7, ConcatEmptySeq
  <2> QED BY <1>1, <1>5, <2>2, <2>3 DEF PopTake, Issue, RestoreBottom
<1>9. sb'[Owner] = <<w, u>>
  BY <1>1, <1>8, Basics
<1>10. LogicalBottom' = b + 1
  <2>1. <<w>> \in Seq(StoreType) /\ Ordered(<<w>>) /\ <<w, u>> = Append(<<w>>, u)
    BY <1>6, OrderedShort
  <2>2. Seen(Append(<<w>>, u), "bottom", 0, bottom) = b + 1
    <3>1. PICK p \in Seq(StoreType) : p = <<w>> /\ Ordered(p)
      BY <2>1
    <3> QED BY <1>2, <1>5, <3>1, SeenBottom
  <2>3. OwnerBottom' = b + 1
    BY <1>1, <1>9, <2>1, <2>2, OwnerSees
  <2>4. pc'[Owner] = "idle"
    BY <1>1, GotoMoves
  <2> QED BY <2>3, <2>4 DEF LogicalBottom
<1>11. Take(buffer[SlotOf(b)])
  BY <1>1 DEF PopTake
<1>12. PICK q \in Seq(StoreType) : q = <<w, u>>
  BY <1>7
<1>13. /\ \A j \in DOMAIN q : q[j] = BottomStore(b + 1) \/ q[j] = StateStore(SlotOf(b), "FREE")
       /\ \A j \in DOMAIN q : q[j].loc = "bottom" => LogicalBottom' = b + 1
  BY <1>5, <1>7, <1>10, <1>12
<1>14. \A j, k \in DOMAIN q : j < k => q[k].loc = "bottom"
  BY <1>5, <1>7, <1>12 DEF BottomStore
<1>15. bottom <= LogicalBottom' /\ top' = b + 1
  BY <1>1, <1>2, <1>3, <1>10
<1> QED BY <1>1, <1>3, <1>4, <1>7, <1>8, <1>10, <1>11, <1>12, <1>13, <1>14, <1>15, OwnerTakes

-----------------------------------------------------------------------------
(* A steal that wins its index *)

\* The oldest index leaves the deque for the stealer that moved top past it.
LEMMA StealCasWon ==
  ASSUME DequeIndInv, NEW s \in Stealers, StealCas(s), top = t[s]
  PROVE  DequeIndInv' /\ Wins(s)
<1>1. /\ pc[s] = "steal_cas" /\ top' = top + 1 /\ Goto(s, "steal_state")
      /\ UNCHANGED <<bottom, states, buffer, sb, t, b, pushed, at, taken, dropped>>
  BY DEF StealCas
<1>2. s \in Threads /\ Owner \in Threads /\ s # Owner /\ top \in Nat /\ LogicalBottom \in Nat
      /\ Capacity \in Nat /\ mask = Capacity - 1 /\ LogicalBottom - top <= mask
  BY Basics
<1>3. ~dropped
  BY <1>1, <1>2, BusyNotDropped
<1>4. pc'[s] = "steal_state" /\ \A u \in Threads : u # s => pc'[u] = pc[u]
  BY <1>1, <1>2, GotoMoves
<1>5. pc'[Owner] = pc[Owner] /\ \A u \in Stealers : u # s => pc'[u] = pc[u]
  BY <1>2, <1>4, Basics
<1>6. LogicalBottom' = LogicalBottom /\ OwnerBottom' = OwnerBottom
  BY <1>1, <1>5, OwnerBottomKept DEF LogicalBottom
<1>7. top < LogicalBottom /\ Clear(sb[Owner], SlotOf(top))
  BY <1>1, Basics DEF IndexInv
<1>8. top \in Live /\ Live' = Live \ {top}
  BY <1>1, <1>2, <1>6, <1>7 DEF Live
<1>9. Won' = Won \union {s} /\ s \notin Won
  BY <1>1, <1>4, <1>5 DEF Won
<1>10. states[SlotOf(top)] = "FULL" /\ buffer[SlotOf(top)] = at[top]
  <2>1. /\ \A j \in DOMAIN sb[Owner] : ~(sb[Owner][j].loc = "state" /\ sb[Owner][j].slot = SlotOf(top))
        /\ \A j \in DOMAIN sb[Owner] : ~(sb[Owner][j].loc = "data" /\ sb[Owner][j].slot = SlotOf(top))
    BY <1>7 DEF Clear
  <2>2. OwnerState(SlotOf(top)) = states[SlotOf(top)] /\ OwnerData(SlotOf(top)) = buffer[SlotOf(top)]
    BY <2>1, SeenMemory, OwnerSees
  <2> QED BY <1>8, <2>2, Basics DEF StoreInv
<1>11. \A x : OwnerState(x)' = OwnerState(x) /\ OwnerData(x)' = OwnerData(x)
  BY <1>1, OwnerSees
<1>12. TypeOK'
  <2>1. pc' \in [Threads -> {"idle", "push_slot", "pop_top", "pop_cas", "steal_bottom",
                         "steal_cas", "steal_state", "steal_read"}]
    BY <1>1, <1>2, Basics DEF Goto
  <2>2. top' \in 0..MaxPush
    BY <1>1, <1>2, <1>7, Bounds
  <2> QED BY <1>1, <2>1, <2>2, Basics DEF TypeOK
<1>13. PlaceInv'
  <2>1. PlaceInv
    BY Basics
  <2>2. \A u \in Stealers :
          pc'[u] \in {"idle", "steal_bottom", "steal_cas", "steal_state", "steal_read"}
    BY <1>4, <1>5, <2>1 DEF PlaceInv
  <2>3. b - top < mask => b - top' < mask
    BY <1>1, <1>2, Bounds
  <2> QED BY <1>1, <1>3, <1>5, <1>6, <2>1, <2>2, <2>3 DEF PlaceInv
<1>14. IndexInv'
  <2>1. IndexInv
    BY Basics
  <2>2. LogicalBottom' \in top'..pushed' /\ LogicalBottom' - top' <= mask
    BY <1>1, <1>2, <1>6, <1>7, Bounds
  <2>3. \A u \in Stealers : t'[u] <= top' /\ t'[u] # top'
    <3> TAKE u \in Stealers
    <3>1. t[u] \in Nat /\ t[u] <= top
      BY <2>1, Basics DEF IndexInv
    <3> QED BY <1>1, <1>2, <3>1
  <2> QED BY <1>1, <1>6, <2>1, <2>2, <2>3 DEF IndexInv
<1>15. StoreInv'
  <2>1. StoreInv
    BY Basics
  <2>2. \A i \in Live' : i \in Live
    BY <1>8
  <2>3. \A i \in Live' : OwnerState(SlotOf(i))' = "FULL" /\ OwnerData(SlotOf(i))' = at'[i]
    BY <1>1, <1>11, <2>1, <2>2 DEF StoreInv
  <2>4. \A i \in Live' : i < bottom' => Clear(sb'[Owner], SlotOf(i))
    BY <1>1, <2>1, <2>2 DEF StoreInv
  <2>5. \A i \in Live' : \A j, k \in DOMAIN sb'[Owner] :
          j < k /\ sb'[Owner][j].loc = "bottom" /\ i < sb'[Owner][j].val /\ sb'[Owner][k].loc # "bottom"
            => sb'[Owner][k].slot # SlotOf(i)
    BY <1>1, <2>1, <2>2 DEF StoreInv
  <2> QED BY <2>3, <2>4, <2>5 DEF StoreInv
<1>16. ReleaseInv'
  <2>1. ReleaseInv
    BY Basics
  <2>2. \A u \in Stealers : \A j \in DOMAIN sb[u] :
           /\ states'[sb[u][j].slot] = "FULL" /\ Clear(sb'[Owner], sb[u][j].slot)
           /\ \A i \in Live' : SlotOf(i) # sb[u][j].slot
           /\ \A r \in Won' : SlotOf(t'[r]) # sb[u][j].slot
    <3> TAKE u \in Stealers
    <3> TAKE j \in DOMAIN sb[u]
    <3>1. /\ states[sb[u][j].slot] = "FULL" /\ Clear(sb[Owner], sb[u][j].slot)
          /\ \A i \in Live : SlotOf(i) # sb[u][j].slot
          /\ \A r \in Won : SlotOf(t[r]) # sb[u][j].slot
      BY <2>1 DEF ReleaseInv
    <3>2. SlotOf(t[s]) # sb[u][j].slot
      BY <1>8, <3>1
    <3> QED BY <1>1, <1>8, <1>9, <3>1, <3>2
  <2> QED BY <1>1, <2>1, <2>2, ReleasesKept
<1>17. WonInv'
  <2>1. WonInv
    BY Basics
  <2>2. \A u \in Won : t[u] < top' /\ t[u] # top
    <3> TAKE u \in Won
    <3>1. t[u] < top /\ t[u] \in Nat
      BY <2>1, Basics DEF WonInv, Won
    <3> QED BY <1>1, <1>2, <3>1
  <2>3. t[s] < top' /\ LogicalBottom <= t[s] + Capacity
    BY <1>1, <1>2
  <2>4. \A u \in Won' : /\ t[u] < top' /\ LogicalBottom <= t[u] + Capacity
                        /\ states[SlotOf(t[u])] = "FULL" /\ buffer[SlotOf(t[u])] = at[t[u]]
                        /\ Clear(sb[Owner], SlotOf(t[u]))
    <3> TAKE u \in Won'
    <3>1. CASE u = s
      BY <1>7, <1>10, <2>3, <3>1
    <3>2. CASE u \in Won
      BY <2>1, <2>2, <3>2 DEF WonInv
    <3> QED BY <1>9, <3>1, <3>2
  <2>5. \A u, r \in Won' : t[u] = t[r] => u = r
    BY <1>9, <2>1, <2>2 DEF WonInv
  <2> QED BY <1>1, <1>6, <2>4, <2>5 DEF WonInv
<1>18. TaskInv'
  <2>1. TaskInv
    BY Basics
  <2>2. \A i \in Live' : i \in Live /\ i # top
    BY <1>8
  <2>3. \A u \in Won' : u \in Won \/ at[t[u]] = at[top]
    BY <1>9
  <2>4. /\ \A i \in Live' : at[i] \in 1..pushed /\ taken[at[i]] = 0 /\ at[i] # at[top]
        /\ \A i, j \in Live' : at[i] = at[j] => i = j
    BY <1>3, <1>8, <2>1, <2>2 DEF TaskInv
  <2>5. /\ at[top] \in 1..pushed /\ taken[at[top]] = 0
        /\ \A u \in Won : at[t[u]] # at[top]
    BY <1>3, <1>8, <2>1 DEF TaskInv
  <2>6. \A u \in Won' : at[t[u]] \in 1..pushed /\ taken[at[t[u]]] = 0
    BY <1>3, <2>1, <2>3, <2>5 DEF TaskInv
  <2>7. \A u \in Won' : \A i \in Live' : at[i] # at[t[u]]
    BY <1>3, <2>1, <2>2, <2>3, <2>4 DEF TaskInv
  <2>8. \A u, r \in Won' : at[t[u]] = at[t[r]] => u = r
    <3>1. \A u, r \in Won : at[t[u]] = at[t[r]] => u = r
      BY <1>3, <2>1 DEF TaskInv
    <3> QED BY <1>9, <2>5, <3>1
  <2>9. \A x \in 1..pushed : taken[x] = 0 =>
          (\E i \in Live' : at[i] = x) \/ (\E u \in Won' : at[t[u]] = x)
    <3> SUFFICES ASSUME NEW x \in 1..pushed, taken[x] = 0, x # at[top]
                 PROVE  (\E i \in Live' : at[i] = x) \/ (\E u \in Won' : at[t[u]] = x)
      BY <1>9
    <3>1. (\E i \in Live : at[i] = x) \/ (\E u \in Won : at[t[u]] = x)
      BY <1>3, <2>1 DEF TaskInv
    <3> QED BY <1>8, <1>9, <3>1
  <2>10. taken[None] = 0 /\ \A x \in Tasks : taken[x] \in {0, 1} /\ (taken[x] = 1 => x <= pushed)
    BY <2>1 DEF TaskInv
  <2>11. pushed' = pushed /\ at' = at /\ taken' = taken /\ t' = t /\ ~dropped'
    BY <1>1, <1>3
  <2> QED BY <2>4, <2>6, <2>7, <2>8, <2>9, <2>10, <2>11 DEF TaskInv
<1>19. OrderInv'
  BY <1>1, Basics DEF OrderInv
<1>20. Wins(s)
  BY <1>1, <1>3, <1>6, <1>7, <1>9 DEF Wins
<1> QED BY <1>20, <1>12, <1>13, <1>14, <1>15, <1>16, <1>17, <1>18, <1>19 DEF DequeIndInv

-----------------------------------------------------------------------------
(* The winner reads its slot and releases it *)

\* The task of a winner is handed out.
LEMMA WinnerLeaves ==
  ASSUME DequeIndInv, ~dropped, NEW s \in Won, Won' = Won \ {s}, Live' = Live,
         UNCHANGED <<t, pushed, at, dropped>>, Take(at[t[s]])
  PROVE  TaskInv'
<1>1. TaskInv /\ pushed \in 0..MaxPush
  BY Basics DEF TypeOK
<1>2. at[t[s]] \in 1..pushed /\ at[t[s]] \in Tasks /\ taken[at[t[s]]] = 0
  <2>1. at[t[s]] \in 1..pushed /\ taken[at[t[s]]] = 0
    BY <1>1 DEF TaskInv
  <2> QED BY <2>1, Bounds DEF Tasks
<1>3. taken \in [Tasks \union {None} -> Nat] /\ None \notin Tasks
  BY ChaseLevAssumption, Basics DEF TypeOK, Tasks
<1>4. PICK y : y = at[t[s]]
  OBVIOUS
<1>5. /\ taken'[y] = 1
      /\ \A x \in Tasks \union {None} : x # y => taken'[x] = taken[x]
  BY <1>2, <1>3, <1>4 DEF Take
<1>6. \A x \in 1..pushed : x \in Tasks
  BY <1>1, Basics DEF Tasks
<1>7. taken'[None] = 0
  BY <1>1, <1>2, <1>3, <1>4, <1>5 DEF TaskInv
<1>8. \A x \in Tasks : taken'[x] \in {0, 1} /\ (taken'[x] = 1 => x <= pushed)
  BY <1>1, <1>2, <1>4, <1>5 DEF TaskInv
<1>9. /\ \A i \in Live : at[i] \in 1..pushed /\ taken'[at[i]] = 0
      /\ \A i, j \in Live : at[i] = at[j] => i = j
  <2>1. \A i \in Live : at[i] # y /\ at[i] \in 1..pushed /\ taken[at[i]] = 0
    BY <1>1, <1>4 DEF TaskInv
  <2>2. \A i, j \in Live : at[i] = at[j] => i = j
    BY <1>1 DEF TaskInv
  <2> QED BY <1>5, <1>6, <2>1, <2>2
<1>10. /\ \A r \in Won' : at[t[r]] \in 1..pushed /\ taken'[at[t[r]]] = 0
       /\ \A r \in Won' : \A i \in Live : at[i] # at[t[r]]
       /\ \A r, u \in Won' : at[t[r]] = at[t[u]] => r = u
  <2>1. \A r \in Won' : r \in Won /\ at[t[r]] # y /\ at[t[r]] \in 1..pushed /\ taken[at[t[r]]] = 0
    BY <1>1, <1>4 DEF TaskInv
  <2>2. \A r, u \in Won' : at[t[r]] = at[t[u]] => r = u
    BY <1>1, <2>1 DEF TaskInv
  <2>3. \A r \in Won' : \A i \in Live : at[i] # at[t[r]]
    BY <1>1, <2>1 DEF TaskInv
  <2> QED BY <1>5, <1>6, <2>1, <2>2, <2>3
<1>11. \A x \in 1..pushed : taken'[x] = 0 =>
         (\E i \in Live : at[i] = x) \/ (\E r \in Won' : at[t[r]] = x)
  <2> SUFFICES ASSUME NEW x \in 1..pushed, taken'[x] = 0
               PROVE  (\E i \in Live : at[i] = x) \/ (\E r \in Won' : at[t[r]] = x)
    OBVIOUS
  <2>1. x # y /\ x \in Tasks
    BY <1>5, <1>6
  <2>2. taken[x] = 0
    BY <1>5, <2>1
  <2>3. (\E i \in Live : at[i] = x) \/ (\E r \in Won : at[t[r]] = x)
    BY <1>1, <2>2 DEF TaskInv
  <2> QED BY <1>4, <2>1, <2>3
<1>12. pushed' = pushed /\ at' = at /\ t' = t /\ ~dropped'
  OBVIOUS
<1> QED BY <1>7, <1>8, <1>9, <1>10, <1>11, <1>12 DEF TaskInv

\* The winner hands its task out and gives the slot back by a store of its own.
LEMMA StealerReleases ==
  ASSUME DequeIndInv, NEW s \in Stealers, StealRead(s)
  PROVE  DequeIndInv' /\ Reads(s)
<1> DEFINE x == SlotOf(t[s])
<1> DEFINE w == StateStore(x, "FREE")
<1> DEFINE q == sb[s]
<1>1. /\ pc[s] = "steal_read" /\ Goto(s, "idle") /\ Take(buffer[x]) /\ Issue(s, <<w>>)
      /\ UNCHANGED <<top, bottom, states, buffer, t, b, pushed, at, dropped>>
  BY DEF StealRead
<1>2. s \in Threads /\ Owner \in Threads /\ s # Owner /\ s \in Won /\ q \in Seq(StoreType)
  BY <1>1, Basics DEF Won
<1>3. ~dropped
  BY <1>1, <1>2, BusyNotDropped
<1>4. pc'[s] = "idle" /\ \A u \in Threads : u # s => pc'[u] = pc[u]
  BY <1>1, <1>2, GotoMoves
<1>5. pc'[Owner] = pc[Owner] /\ \A u \in Stealers : u # s => pc'[u] = pc[u]
  BY <1>2, <1>4, Basics
<1>6. t[s] \in Int /\ x \in Slots
  BY <1>2, SlotLemma, Basics
<1>7. w \in StoreType
  BY <1>6 DEF StateStore, StoreType
<1>8. sb' = [sb EXCEPT ![s] = Append(@, w)]
  BY <1>1, <1>2, <1>7, IssueOne
<1>9. sb'[Owner] = sb[Owner] /\ sb'[s] = Append(q, w) /\ \A u \in Stealers : u # s => sb'[u] = sb[u]
  BY <1>2, <1>8, Basics
<1>10. LogicalBottom' = LogicalBottom /\ OwnerBottom' = OwnerBottom
  BY <1>1, <1>5, <1>9, OwnerBottomKept DEF LogicalBottom
<1>11. Live' = Live /\ Won' = Won \ {s}
  BY <1>1, <1>4, <1>5, <1>10 DEF Live, Won
<1>12. \A y : OwnerState(y)' = OwnerState(y) /\ OwnerData(y)' = OwnerData(y)
  BY <1>1, <1>9, OwnerSees
<1>13. buffer[x] = at[t[s]] /\ states[x] = "FULL" /\ Clear(sb[Owner], x)
  BY <1>2, Basics DEF WonInv
<1>14. TypeOK'
  <2>1. pc' \in [Threads -> {"idle", "push_slot", "pop_top", "pop_cas", "steal_bottom",
                         "steal_cas", "steal_state", "steal_read"}]
    BY <1>1, <1>2, Basics DEF Goto
  <2>2. sb' \in [Threads -> Seq(StoreType)]
    BY <1>2, <1>7, <1>8, AppendAt, Basics
  <2>3. taken' \in [Tasks \union {None} -> Nat]
    <3>1. taken \in [Tasks \union {None} -> Nat] /\ buffer[x] \in Tasks \union {None}
      BY <1>6, Basics DEF TypeOK
    <3> QED BY <1>1, <3>1 DEF Take
  <2> QED BY <1>1, <2>1, <2>2, <2>3, Basics DEF TypeOK
<1>15. PlaceInv'
  <2>1. PlaceInv
    BY Basics
  <2>2. \A u \in Stealers :
          pc'[u] \in {"idle", "steal_bottom", "steal_cas", "steal_state", "steal_read"}
    BY <1>4, <1>5, <2>1 DEF PlaceInv
  <2> QED BY <1>1, <1>3, <1>5, <1>9, <1>10, <2>1, <2>2 DEF PlaceInv
<1>16. IndexInv'
  <2>1. IndexInv
    BY Basics
  <2>2. \A u \in Stealers : pc'[u] = "steal_cas" => pc[u] = "steal_cas"
    BY <1>4, <1>5
  <2> QED BY <1>1, <1>9, <1>10, <2>1, <2>2 DEF IndexInv
<1>17. StoreInv'
  <2>1. StoreInv
    BY Basics
  <2>2. \A i \in Live : OwnerState(SlotOf(i))' = "FULL" /\ OwnerData(SlotOf(i))' = at[i]
    BY <1>12, <2>1 DEF StoreInv
  <2> QED BY <1>1, <1>9, <1>11, <2>1, <2>2 DEF StoreInv
<1>18. ReleaseInv'
  <2>1. ReleaseInv
    BY Basics
  <2>2. PICK n \in Nat : /\ DOMAIN q = 1..n /\ DOMAIN sb'[s] = 1..(n + 1) /\ sb'[s][n + 1] = w
                         /\ \A j \in 1..n : sb'[s][j] = q[j]
    BY <1>2, <1>7, <1>9, AppendAt
  <2>3. \A u \in Stealers : \A j \in DOMAIN sb'[u] :
          \/ j \in DOMAIN sb[u] /\ sb'[u][j] = sb[u][j]
          \/ u = s /\ j = n + 1 /\ sb'[u][j] = w
    <3> TAKE u \in Stealers
    <3> TAKE j \in DOMAIN sb'[u]
    <3>1. CASE u # s
      BY <1>9, <3>1
    <3>2. CASE u = s
      <4>1. j \in 1..(n + 1)
        BY <2>2, <3>2
      <4>2. j \in 1..n \/ j = n + 1
        BY <4>1
      <4> QED BY <2>2, <3>2, <4>2
    <3> QED BY <3>1, <3>2
  <2>4. w.loc = "state" /\ w.val = "FREE" /\ w.slot = x
    BY DEF StateStore
  <2>5. /\ \A i \in Live : SlotOf(i) # x
        /\ \A r \in Won' : SlotOf(t[r]) # x
    BY <1>2, <1>11, LiveSlots
  <2>6. \A u \in Stealers : \A j \in DOMAIN sb[u] : sb[u][j].slot # x
    BY <1>2, <2>1 DEF ReleaseInv
  <2>7. \A u \in Stealers : \A j \in DOMAIN sb'[u] :
          /\ sb'[u][j].loc = "state" /\ sb'[u][j].val = "FREE" /\ states[sb'[u][j].slot] = "FULL"
          /\ Clear(sb[Owner], sb'[u][j].slot)
          /\ \A i \in Live : SlotOf(i) # sb'[u][j].slot
          /\ \A r \in Won' : SlotOf(t[r]) # sb'[u][j].slot
    <3> TAKE u \in Stealers
    <3> TAKE j \in DOMAIN sb'[u]
    <3>1. CASE j \in DOMAIN sb[u] /\ sb'[u][j] = sb[u][j]
      BY <1>11, <2>1, <3>1 DEF ReleaseInv
    <3>2. CASE sb'[u][j] = w
      BY <1>13, <2>4, <2>5, <3>2
    <3> QED BY <2>3, <3>1, <3>2
  <2>8. \A u, r \in Stealers : \A j \in DOMAIN sb'[u], k \in DOMAIN sb'[r] :
          sb'[u][j].slot = sb'[r][k].slot => u = r /\ j = k
    <3> SUFFICES ASSUME NEW u \in Stealers, NEW r \in Stealers, NEW j \in DOMAIN sb'[u],
                        NEW k \in DOMAIN sb'[r], sb'[u][j].slot = sb'[r][k].slot
                 PROVE  u = r /\ j = k
      OBVIOUS
    <3>1. CASE /\ j \in DOMAIN sb[u] /\ sb'[u][j] = sb[u][j]
               /\ k \in DOMAIN sb[r] /\ sb'[r][k] = sb[r][k]
      BY <2>1, <3>1 DEF ReleaseInv
    <3>2. CASE /\ u = s /\ j = n + 1 /\ sb'[u][j] = w
               /\ k \in DOMAIN sb[r] /\ sb'[r][k] = sb[r][k]
      BY <2>4, <2>6, <3>2
    <3>3. CASE /\ j \in DOMAIN sb[u] /\ sb'[u][j] = sb[u][j]
               /\ r = s /\ k = n + 1 /\ sb'[r][k] = w
      BY <2>4, <2>6, <3>3
    <3>4. CASE u = s /\ j = n + 1 /\ r = s /\ k = n + 1
      BY <3>4
    <3> QED BY <2>3, <3>1, <3>2, <3>3, <3>4
  <2> QED BY <1>1, <1>9, <1>11, <2>7, <2>8 DEF ReleaseInv
<1>19. WonInv'
  <2>1. WonInv
    BY Basics
  <2> QED BY <1>1, <1>9, <1>10, <1>11, <2>1 DEF WonInv
<1>20. TaskInv'
  BY <1>1, <1>2, <1>3, <1>11, <1>13, WinnerLeaves
<1>21. OrderInv'
  BY <1>9, Basics DEF OrderInv
<1>22. Reads(s)
  BY <1>1, <1>2, <1>3, <1>10, <1>11, <1>13 DEF Reads
<1> QED BY <1>22, <1>14, <1>15, <1>16, <1>17, <1>18, <1>19, <1>20, <1>21 DEF DequeIndInv

-----------------------------------------------------------------------------
(* The memory system retires stores *)

\* The positions of a buffer whose oldest store has left.
LEMMA TailAt ==
  ASSUME NEW q \in Seq(StoreType), q # <<>>
  PROVE  /\ Tail(q) \in Seq(StoreType) /\ Head(q) = q[1] /\ Head(q) \in StoreType
         /\ 1 \in DOMAIN q
         /\ \A j \in DOMAIN Tail(q) : j \in Int /\ j + 1 \in DOMAIN q /\ Tail(q)[j] = q[j + 1] /\ j + 1 > 1
<1>1. PICK n \in Nat \ {0} : n = Len(q) /\ DOMAIN q = 1..n
  OBVIOUS
<1>2. Tail(q) \in Seq(StoreType) /\ Head(q) = q[1] /\ DOMAIN Tail(q) = 1..(n - 1)
      /\ \A j \in 1..(n - 1) : Tail(q)[j] = q[j + 1]
  BY <1>1, HeadTailProperties
<1>3. 1 \in DOMAIN q /\ q[1] \in StoreType
  BY <1>1
<1> QED BY <1>1, <1>2, <1>3

\* A released slot becomes FREE in memory.
LEMMA FlushStealer ==
  ASSUME DequeIndInv, NEW s \in Stealers, Flush(s)
  PROVE  DequeIndInv' /\ Invisible
<1> DEFINE q == sb[s]
<1> DEFINE w == Head(q)
<1>1. q # <<>> /\ sb' = [sb EXCEPT ![s] = Tail(@)]
      /\ UNCHANGED <<top, pc, t, b, pushed, at, taken, dropped>>
  BY DEF Flush
<1>2. s \in Threads /\ Owner \in Threads /\ s # Owner /\ q \in Seq(StoreType)
  BY Basics
<1>3. ~dropped
  BY <1>1, <1>2, BusyNotDropped
<1>4. w = q[1] /\ w \in StoreType /\ 1 \in DOMAIN q
  BY <1>1, <1>2, TailAt
<1>5. /\ w.loc = "state" /\ w.val = "FREE"
      /\ \A i \in Live : SlotOf(i) # w.slot
      /\ \A r \in Won : SlotOf(t[r]) # w.slot
      /\ \A r \in Stealers : \A k \in DOMAIN sb[r] : sb[r][k].slot = w.slot => r = s /\ k = 1
  <2>1. ReleaseInv
    BY Basics
  <2> QED BY <1>4, <2>1 DEF ReleaseInv
<1>6. w.slot \in Slots
  BY <1>4, <1>5 DEF StoreType
<1>7. bottom' = bottom /\ buffer' = buffer /\ states' = [states EXCEPT ![w.slot] = "FREE"]
  BY <1>5 DEF Flush
<1>8. states \in [Slots -> {"FREE", "FULL"}]
  BY Basics DEF TypeOK
<1>9. \A x \in Slots : x # w.slot => states'[x] = states[x]
  BY <1>6, <1>7, <1>8
<1>10. sb'[Owner] = sb[Owner] /\ sb'[s] = Tail(q) /\ \A u \in Stealers : u # s => sb'[u] = sb[u]
  BY <1>1, <1>2, Basics
<1>11. LogicalBottom' = LogicalBottom /\ OwnerBottom' = OwnerBottom
  BY <1>1, <1>7, <1>10, OwnerBottomKept DEF LogicalBottom
<1>12. Live' = Live /\ Won' = Won
  BY <1>1, <1>11 DEF Live, Won
<1>13. TypeOK'
  <2>1. sb' \in [Threads -> Seq(StoreType)]
    BY <1>1, <1>2, TailAt, Basics
  <2>2. states' \in [Slots -> {"FREE", "FULL"}]
    BY <1>7, <1>8
  <2> QED BY <1>1, <1>7, <2>1, <2>2, Basics DEF TypeOK
<1>14. PlaceInv'
  BY <1>1, <1>3, <1>7, <1>10, <1>11, Basics DEF PlaceInv
<1>15. IndexInv'
  BY <1>1, <1>7, <1>10, <1>11, Basics DEF IndexInv
<1>16. StoreInv'
  <2>1. StoreInv
    BY Basics
  <2>2. \A i \in Live : OwnerState(SlotOf(i))' = "FULL" /\ OwnerData(SlotOf(i))' = at[i]
    <3> TAKE i \in Live
    <3>1. states'[SlotOf(i)] = states[SlotOf(i)]
      BY <1>5, <1>9, LiveSlots
    <3>2. OwnerState(SlotOf(i))' = OwnerState(SlotOf(i)) /\ OwnerData(SlotOf(i))' = OwnerData(SlotOf(i))
      BY <1>7, <1>10, <3>1, OwnerSees
    <3> QED BY <2>1, <3>2 DEF StoreInv
  <2>3. \A i \in Live : i < bottom => Clear(sb'[Owner], SlotOf(i))
    BY <1>10, <2>1 DEF StoreInv
  <2>4. \A i \in Live : \A j, k \in DOMAIN sb'[Owner] :
          j < k /\ sb'[Owner][j].loc = "bottom" /\ i < sb'[Owner][j].val /\ sb'[Owner][k].loc # "bottom"
            => sb'[Owner][k].slot # SlotOf(i)
    BY <1>10, <2>1 DEF StoreInv
  <2>5. bottom' = bottom /\ at' = at /\ Live' = Live
    BY <1>1, <1>7, <1>12
  <2> QED BY <2>2, <2>3, <2>4, <2>5 DEF StoreInv
<1>17. ReleaseInv'
  <2>1. ReleaseInv
    BY Basics
  <2>2. \A u \in Stealers : \A j \in DOMAIN sb'[u] :
          \E k \in DOMAIN sb[u] : sb'[u][j] = sb[u][k] /\ (u = s => k = j + 1) /\ (u # s => k = j)
    <3> TAKE u \in Stealers
    <3> TAKE j \in DOMAIN sb'[u]
    <3>1. CASE u # s
      BY <1>10, <3>1
    <3>2. CASE u = s
      <4>1. j \in DOMAIN Tail(q)
        BY <1>10, <3>2
      <4>2. j + 1 \in DOMAIN q /\ Tail(q)[j] = q[j + 1]
        BY <1>1, <1>2, <4>1, TailAt
      <4>3. sb'[u][j] = sb[u][j + 1] /\ j + 1 \in DOMAIN sb[u]
        BY <1>10, <3>2, <4>2
      <4> QED BY <3>2, <4>3
    <3> QED BY <3>1, <3>2
  <2>3. \A j \in DOMAIN sb'[s] : j \in Int /\ j >= 1 /\ j + 1 # 1
    BY <1>1, <1>2, <1>10, TailAt
  <2>4. \A u \in Stealers : \A j \in DOMAIN sb'[u] :
          /\ sb'[u][j].loc = "state" /\ sb'[u][j].val = "FREE" /\ states'[sb'[u][j].slot] = "FULL"
          /\ Clear(sb[Owner], sb'[u][j].slot)
          /\ \A i \in Live : SlotOf(i) # sb'[u][j].slot
          /\ \A r \in Won : SlotOf(t[r]) # sb'[u][j].slot
    <3> TAKE u \in Stealers
    <3> TAKE j \in DOMAIN sb'[u]
    <3>1. PICK k \in DOMAIN sb[u] :
            sb'[u][j] = sb[u][k] /\ (u = s => k = j + 1) /\ (u # s => k = j)
      BY <2>2
    <3>2. /\ sb[u][k].loc = "state" /\ sb[u][k].val = "FREE" /\ states[sb[u][k].slot] = "FULL"
          /\ Clear(sb[Owner], sb[u][k].slot)
          /\ \A i \in Live : SlotOf(i) # sb[u][k].slot
          /\ \A r \in Won : SlotOf(t[r]) # sb[u][k].slot
      BY <2>1 DEF ReleaseInv
    <3>3. ~(u = s /\ k = 1)
      BY <2>3, <3>1
    <3>4. sb[u][k].slot # w.slot
      BY <1>5, <3>3
    <3>5. sb[u][k].slot \in Slots
      <4>1. sb[u] \in Seq(StoreType)
        BY Basics
      <4>2. sb[u][k] \in StoreType
        BY <4>1
      <4> QED BY <3>2, <4>2 DEF StoreType
    <3> QED BY <1>9, <3>1, <3>2, <3>4, <3>5
  <2>5. \A u, r \in Stealers : \A j \in DOMAIN sb'[u], k \in DOMAIN sb'[r] :
          sb'[u][j].slot = sb'[r][k].slot => u = r /\ j = k
    <3> SUFFICES ASSUME NEW u \in Stealers, NEW r \in Stealers, NEW j \in DOMAIN sb'[u],
                        NEW k \in DOMAIN sb'[r], sb'[u][j].slot = sb'[r][k].slot
                 PROVE  u = r /\ j = k
      OBVIOUS
    <3>1. PICK jj \in DOMAIN sb[u] :
            sb'[u][j] = sb[u][jj] /\ (u = s => jj = j + 1) /\ (u # s => jj = j)
      BY <2>2
    <3>2. PICK kk \in DOMAIN sb[r] :
            sb'[r][k] = sb[r][kk] /\ (r = s => kk = k + 1) /\ (r # s => kk = k)
      BY <2>2
    <3>3. u = r /\ jj = kk
      BY <2>1, <3>1, <3>2 DEF ReleaseInv
    <3>4. CASE u # s
      BY <3>1, <3>2, <3>3, <3>4
    <3>5. CASE u = s
      <4>1. j \in Int /\ k \in Int /\ j + 1 = k + 1
        BY <2>3, <3>1, <3>2, <3>3, <3>5
      <4> QED BY <3>3, <4>1
    <3> QED BY <3>4, <3>5
  <2> QED BY <1>1, <1>10, <1>12, <2>4, <2>5 DEF ReleaseInv
<1>18. WonInv'
  <2>1. WonInv
    BY Basics
  <2>2. \A r \in Won : states'[SlotOf(t[r])] = "FULL"
    <3> TAKE r \in Won
    <3>1. SlotOf(t[r]) \in Slots /\ SlotOf(t[r]) # w.slot /\ states[SlotOf(t[r])] = "FULL"
      <4>1. r \in Threads
        BY Basics DEF Won
      <4>2. t[r] \in Int
        BY <4>1, Basics
      <4> QED BY <1>5, <2>1, <4>2, SlotLemma DEF WonInv
    <3> QED BY <1>9, <3>1
  <2> QED BY <1>1, <1>7, <1>10, <1>11, <1>12, <2>1, <2>2 DEF WonInv
<1>19. TaskInv'
  BY <1>1, <1>12, SameTasks, Basics
<1>20. OrderInv'
  BY <1>10, Basics DEF OrderInv
<1>21. Invisible
  BY <1>1, <1>11, <1>12 DEF Invisible, SameWinners
<1> QED BY <1>21, <1>13, <1>14, <1>15, <1>16, <1>17, <1>18, <1>19, <1>20 DEF DequeIndInv

\* A store of the owner reaches memory: the owner sees what it saw.
LEMMA FlushOwner ==
  ASSUME DequeIndInv, Flush(Owner)
  PROVE  DequeIndInv' /\ Invisible
<1> DEFINE q == sb[Owner]
<1> DEFINE w == Head(q)
<1>1. q # <<>> /\ sb' = [sb EXCEPT ![Owner] = Tail(@)]
      /\ UNCHANGED <<top, pc, t, b, pushed, at, taken, dropped>>
  BY DEF Flush
<1>2. Owner \in Threads /\ Owner \notin Stealers /\ q \in Seq(StoreType) /\ Ordered(q)
  BY Basics DEF OrderInv
<1>3. ~dropped
  BY <1>1, <1>2, BusyNotDropped
<1>4. w = q[1] /\ w \in StoreType /\ 1 \in DOMAIN q
  BY <1>1, <1>2, TailAt
<1>5. /\ bottom' = IF w.loc = "bottom" THEN w.val ELSE bottom
      /\ states' = IF w.loc = "state" THEN [states EXCEPT ![w.slot] = w.val] ELSE states
      /\ buffer' = IF w.loc = "data" THEN [buffer EXCEPT ![w.slot] = w.val] ELSE buffer
  BY DEF Flush
<1>6. /\ states \in [Slots -> {"FREE", "FULL"}] /\ buffer \in [Slots -> Tasks \union {None}]
      /\ bottom \in -1..MaxPush
  BY Basics DEF TypeOK
<1>7. /\ \A x \in Slots : states'[x] = IF w.loc = "state" /\ w.slot = x THEN w.val ELSE states[x]
      /\ \A x \in Slots : buffer'[x] = IF w.loc = "data" /\ w.slot = x THEN w.val ELSE buffer[x]
  BY <1>5, <1>6
<1>8. bottom' = IF w.loc = "bottom" /\ w.slot = 0 THEN w.val ELSE bottom
  BY <1>4, <1>5 DEF StoreType
<1>9. sb'[Owner] = Tail(q) /\ \A u \in Stealers : sb'[u] = sb[u]
  BY <1>1, <1>2, Basics
<1>10. OwnerBottom' = OwnerBottom
  <2>1. Seen(Tail(q), "bottom", 0, IF w.loc = "bottom" /\ w.slot = 0 THEN w.val ELSE bottom)
          = Seen(q, "bottom", 0, bottom)
    BY <1>1, <1>2, SeenTail
  <2> QED BY <1>8, <1>9, <2>1, OwnerSees
<1>11. LogicalBottom' = LogicalBottom
  BY <1>1, <1>10 DEF LogicalBottom
<1>12. Live' = Live /\ Won' = Won
  BY <1>1, <1>11 DEF Live, Won
<1>13. \A x \in Slots : OwnerState(x)' = OwnerState(x) /\ OwnerData(x)' = OwnerData(x)
  <2> TAKE x \in Slots
  <2>1. Seen(Tail(q), "state", x, IF w.loc = "state" /\ w.slot = x THEN w.val ELSE states[x])
          = Seen(q, "state", x, states[x])
    BY <1>1, <1>2, SeenTail
  <2>2. Seen(Tail(q), "data", x, IF w.loc = "data" /\ w.slot = x THEN w.val ELSE buffer[x])
          = Seen(q, "data", x, buffer[x])
    BY <1>1, <1>2, SeenTail
  <2>3. OwnerState(x)' = OwnerState(x)
    BY <1>7, <1>9, <2>1, OwnerSees
  <2>4. OwnerData(x)' = OwnerData(x)
    BY <1>7, <1>9, <2>2, OwnerSees
  <2> QED BY <2>3, <2>4
<1>14. \A j \in DOMAIN Tail(q) : j \in Int /\ j + 1 \in DOMAIN q /\ Tail(q)[j] = q[j + 1] /\ 1 < j + 1
  BY <1>1, <1>2, TailAt
<1>15. \A x : Clear(q, x) => Clear(Tail(q), x)
  BY <1>14 DEF Clear
<1>16. \A x \in Slots : Clear(q, x) => states'[x] = states[x] /\ buffer'[x] = buffer[x]
  BY <1>4, <1>7 DEF Clear
<1>17. TypeOK'
  <2>1. sb' \in [Threads -> Seq(StoreType)]
    BY <1>1, <1>2, TailAt, Basics
  <2>2. states' \in [Slots -> {"FREE", "FULL"}]
    BY <1>4, <1>5, <1>6 DEF StoreType
  <2>3. buffer' \in [Slots -> Tasks \union {None}]
    BY <1>4, <1>5, <1>6 DEF StoreType
  <2>4. bottom' \in -1..MaxPush
    BY <1>4, <1>5, <1>6 DEF StoreType
  <2> QED BY <1>1, <2>1, <2>2, <2>3, <2>4, Basics DEF TypeOK
<1>18. PlaceInv'
  BY <1>1, <1>3, <1>10, Basics DEF PlaceInv
<1>19. IndexInv'
  <2>1. IndexInv
    BY Basics
  <2>2. bottom' <= LogicalBottom
    BY <1>4, <1>5, <2>1 DEF IndexInv
  <2>3. \A j \in DOMAIN Tail(q) : Tail(q)[j].loc = "bottom" => Tail(q)[j].val <= LogicalBottom
    BY <1>14, <2>1 DEF IndexInv
  <2>4. \A s \in Stealers : pc[s] = "steal_cas" /\ t[s] = top =>
          top < LogicalBottom /\ Clear(Tail(q), SlotOf(top))
    BY <1>15, <2>1 DEF IndexInv
  <2>5. LogicalBottom \in top..pushed /\ LogicalBottom - top <= mask /\ \A s \in Stealers : t[s] <= top
    BY <2>1 DEF IndexInv
  <2> QED BY <1>1, <1>9, <1>11, <2>2, <2>3, <2>4, <2>5 DEF IndexInv
<1>20. StoreInv'
  <2>1. StoreInv
    BY Basics
  <2>2. \A i \in Live : OwnerState(SlotOf(i))' = "FULL" /\ OwnerData(SlotOf(i))' = at[i]
    BY <1>13, <2>1, LiveSlots DEF StoreInv
  <2>3. \A i \in Live : i < bottom' => Clear(Tail(q), SlotOf(i))
    <3> SUFFICES ASSUME NEW i \in Live, i < bottom' PROVE Clear(Tail(q), SlotOf(i))
      OBVIOUS
    <3>1. CASE w.loc = "bottom"
      <4> SUFFICES ASSUME NEW j \in DOMAIN Tail(q), Tail(q)[j].loc # "bottom"
                   PROVE  Tail(q)[j].slot # SlotOf(i)
        BY DEF Clear
      <4>1. j + 1 \in DOMAIN q /\ Tail(q)[j] = q[j + 1] /\ 1 < j + 1
        BY <1>14
      <4>2. q[1].loc = "bottom" /\ i < q[1].val
        BY <1>4, <1>5, <3>1
      <4> QED BY <1>4, <2>1, <4>1, <4>2 DEF StoreInv
    <3>2. CASE w.loc # "bottom"
      BY <1>5, <1>15, <2>1, <3>2 DEF StoreInv
    <3> QED BY <3>1, <3>2
  <2>4. \A i \in Live : \A j, k \in DOMAIN Tail(q) :
          j < k /\ Tail(q)[j].loc = "bottom" /\ i < Tail(q)[j].val /\ Tail(q)[k].loc # "bottom"
            => Tail(q)[k].slot # SlotOf(i)
    <3> SUFFICES ASSUME NEW i \in Live, NEW j \in DOMAIN Tail(q), NEW k \in DOMAIN Tail(q), j < k,
                        Tail(q)[j].loc = "bottom", i < Tail(q)[j].val, Tail(q)[k].loc # "bottom"
                 PROVE  Tail(q)[k].slot # SlotOf(i)
      OBVIOUS
    <3>1. /\ j + 1 \in DOMAIN q /\ Tail(q)[j] = q[j + 1] /\ k + 1 \in DOMAIN q /\ Tail(q)[k] = q[k + 1]
          /\ j + 1 < k + 1
      BY <1>14
    <3> QED BY <2>1, <3>1 DEF StoreInv
  <2>5. at' = at /\ Live' = Live /\ sb'[Owner] = Tail(q)
    BY <1>1, <1>9, <1>12
  <2>6. /\ \A i \in Live' : i < bottom' => Clear(sb'[Owner], SlotOf(i))
        /\ \A i \in Live' : \A j, k \in DOMAIN sb'[Owner] :
             j < k /\ sb'[Owner][j].loc = "bottom" /\ i < sb'[Owner][j].val /\ sb'[Owner][k].loc # "bottom"
               => sb'[Owner][k].slot # SlotOf(i)
    BY <2>3, <2>4, <2>5
  <2>7. \A i \in Live' : OwnerState(SlotOf(i))' = "FULL" /\ OwnerData(SlotOf(i))' = at'[i]
    BY <2>2, <2>5
  <2> QED BY <2>6, <2>7 DEF StoreInv
<1>21. ReleaseInv'
  <2>1. ReleaseInv
    BY Basics
  <2>2. \A s \in Stealers : \A j \in DOMAIN sb[s] :
           /\ states'[sb[s][j].slot] = "FULL" /\ Clear(sb'[Owner], sb[s][j].slot)
           /\ \A i \in Live' : SlotOf(i) # sb[s][j].slot
           /\ \A r \in Won' : SlotOf(t'[r]) # sb[s][j].slot
    <3> TAKE s \in Stealers
    <3> TAKE j \in DOMAIN sb[s]
    <3>1. /\ sb[s][j].loc = "state" /\ states[sb[s][j].slot] = "FULL" /\ Clear(q, sb[s][j].slot)
          /\ \A i \in Live : SlotOf(i) # sb[s][j].slot
          /\ \A r \in Won : SlotOf(t[r]) # sb[s][j].slot
      BY <2>1 DEF ReleaseInv
    <3>2. sb[s][j].slot \in Slots
      <4>1. sb[s] \in Seq(StoreType)
        BY Basics
      <4>2. sb[s][j] \in StoreType
        BY <4>1
      <4> QED BY <3>1, <4>2 DEF StoreType
    <3> QED BY <1>1, <1>9, <1>12, <1>15, <1>16, <3>1, <3>2
  <2> QED BY <1>9, <2>1, <2>2, ReleasesKept
<1>22. WonInv'
  <2>1. WonInv
    BY Basics
  <2>2. \A r \in Won : SlotOf(t[r]) \in Slots
    <3> TAKE r \in Won
    <3>1. r \in Threads
      BY Basics DEF Won
    <3>2. t[r] \in Int
      BY <3>1, Basics
    <3> QED BY <3>2, SlotLemma
  <2>3. \A s \in Won :
           /\ t'[s] = t[s] /\ t[s] < top' /\ LogicalBottom' <= t[s] + Capacity
           /\ states'[SlotOf(t[s])] = "FULL" /\ buffer'[SlotOf(t[s])] = at'[t[s]]
           /\ Clear(sb'[Owner], SlotOf(t[s]))
    BY <1>1, <1>9, <1>11, <1>15, <1>16, <2>1, <2>2 DEF WonInv
  <2> QED BY <1>12, <2>1, <2>3, WinnersKept
<1>23. TaskInv'
  BY <1>1, <1>12, SameTasks, Basics
<1>24. OrderInv'
  BY <1>1, <1>2, <1>9, OrderedTail DEF OrderInv
<1>25. Invisible
  BY <1>1, <1>11, <1>12 DEF Invisible, SameWinners
<1> QED BY <1>25, <1>17, <1>18, <1>19, <1>20, <1>21, <1>22, <1>23, <1>24 DEF DequeIndInv

-----------------------------------------------------------------------------
(* The destructor, and the initial state *)

\* With every buffer drained and nobody inside an operation, the deque is what memory
\* holds between the indices, and draining it hands out what was left.
LEMMA DropKeeps ==
  ASSUME DequeIndInv, Drop
  PROVE  DequeIndInv' /\ Drains
<1> DEFINE left == {buffer[SlotOf(i)] : i \in top..(bottom - 1)}
<1>1. /\ Quiescent /\ ~dropped /\ dropped'
      /\ taken' = [x \in Tasks \union {None} |-> taken[x] + (IF x \in left THEN 1 ELSE 0)]
      /\ UNCHANGED <<top, bottom, states, buffer, sb, pc, t, b, pushed, at>>
  BY DEF Drop
<1>2. Owner \in Threads /\ sb[Owner] = <<>> /\ pc[Owner] = "idle" /\ \A th \in Threads : pc[th] = "idle"
  BY <1>1, Basics DEF Quiescent
<1>3. \A x : OwnerBottom = bottom /\ OwnerState(x) = states[x] /\ OwnerData(x) = buffer[x]
  <2>1. DOMAIN sb[Owner] = {}
    BY <1>2
  <2> QED BY <2>1, SeenMemory, OwnerSees
<1>4. LogicalBottom = bottom /\ Live = top..(bottom - 1)
  BY <1>2, <1>3 DEF LogicalBottom, Live
<1>5. Won = {}
  BY <1>2, Basics DEF Won
<1>6. OwnerBottom' = OwnerBottom /\ LogicalBottom' = LogicalBottom /\ Live' = Live /\ Won' = Won
  <2>1. OwnerBottom' = OwnerBottom
    BY <1>1, OwnerBottomKept
  <2> QED BY <1>1, <2>1 DEF LogicalBottom, Live, Won
<1>7. \A i \in Live : buffer[SlotOf(i)] = at[i]
  BY <1>3, Basics DEF StoreInv
<1>8. left = {at[i] : i \in Live}
  BY <1>4, <1>7
<1>9. TaskInv /\ pushed \in 0..MaxPush /\ MaxPush \in Nat
  BY Basics DEF TypeOK
<1>10. \A y \in left : y \in 1..pushed /\ y \in Tasks /\ taken[y] = 0
  <2>1. \A i \in Live : at[i] \in 1..pushed /\ taken[at[i]] = 0
    BY <1>1, <1>9 DEF TaskInv
  <2>2. \A y \in 1..pushed : y \in Tasks
    BY <1>9 DEF Tasks
  <2> QED BY <1>8, <2>1, <2>2
<1>11. taken \in [Tasks \union {None} -> Nat] /\ None \notin Tasks
  BY ChaseLevAssumption, Basics DEF TypeOK, Tasks
<1>12. \A x \in Tasks \union {None} : taken'[x] = taken[x] + (IF x \in left THEN 1 ELSE 0)
  BY <1>1
<1>13. TypeOK'
  <2>1. taken' \in [Tasks \union {None} -> Nat]
    BY <1>1, <1>11
  <2> QED BY <1>1, <2>1, Basics DEF TypeOK
<1>14. PlaceInv'
  <2>1. Quiescent'
    BY <1>1 DEF Quiescent
  <2> QED BY <1>1, <1>6, <2>1, Basics DEF PlaceInv
<1>15. IndexInv'
  BY <1>1, <1>6, Basics DEF IndexInv
<1>16. StoreInv'
  <2>1. \A x : OwnerState(x)' = OwnerState(x) /\ OwnerData(x)' = OwnerData(x)
    BY <1>1, OwnerSees
  <2> QED BY <1>1, <1>6, <2>1, Basics DEF StoreInv
<1>17. ReleaseInv' /\ WonInv'
  <2>1. ReleaseInv /\ WonInv
    BY Basics
  <2>2. ReleaseInv'
    BY <1>1, <1>6, <2>1 DEF ReleaseInv
  <2> QED BY <1>5, <1>6, <2>2 DEF WonInv
<1>18. TaskInv'
  <2>1. taken'[None] = 0
    <3>1. None \notin left /\ taken[None] = 0
      BY <1>9, <1>10, <1>11 DEF TaskInv
    <3> QED BY <1>11, <1>12, <3>1
  <2>2. \A x \in Tasks : taken'[x] \in {0, 1} /\ (taken'[x] = 1 => x <= pushed)
    <3> TAKE x \in Tasks
    <3>1. taken[x] \in {0, 1} /\ (taken[x] = 1 => x <= pushed)
      BY <1>9 DEF TaskInv
    <3>2. CASE x \in left
      BY <1>10, <1>12, <3>1, <3>2
    <3>3. CASE x \notin left
      BY <1>12, <3>1, <3>3
    <3> QED BY <3>2, <3>3
  <2>3. \A x \in 1..pushed : taken'[x] = 1
    <3> TAKE x \in 1..pushed
    <3>1. x \in Tasks
      BY <1>9 DEF Tasks
    <3>2. CASE taken[x] = 0
      <4>1. \E i \in Live : at[i] = x
        BY <1>1, <1>5, <1>9, <3>2 DEF TaskInv
      <4>2. x \in left
        BY <1>8, <4>1
      <4> QED BY <1>12, <3>1, <3>2, <4>2
    <3>3. CASE taken[x] = 1
      <4>1. x \notin left
        BY <1>10, <3>3
      <4> QED BY <1>12, <3>1, <3>3, <4>1
    <3> QED BY <1>9, <3>1, <3>2, <3>3 DEF TaskInv
  <2> QED BY <1>1, <2>1, <2>2, <2>3 DEF TaskInv
<1>19. OrderInv'
  BY <1>1, Basics DEF OrderInv
<1>20. Drains
  BY <1>1, <1>5, <1>6, <1>8, <1>12 DEF Drains
<1> QED BY <1>20, <1>13, <1>14, <1>15, <1>16, <1>17, <1>18, <1>19 DEF DequeIndInv

\* Deque::with_capacity: everything empty.
LEMMA DequeInit == Init => DequeIndInv
<1> SUFFICES ASSUME Init PROVE DequeIndInv
  OBVIOUS
<1>1. MaxPush \in Nat /\ Capacity \in Nat /\ Capacity >= 2 /\ Owner \notin Stealers /\ None \notin 1..MaxPush
  BY ChaseLevAssumption
<1>2. /\ top = 0 /\ bottom = 0 /\ b = 0 /\ pushed = 0 /\ dropped = FALSE
      /\ sb = [th \in Threads |-> <<>>] /\ pc = [th \in Threads |-> "idle"] /\ t = [th \in Threads |-> 0]
      /\ taken = [x \in Tasks \union {None} |-> 0]
      /\ states = [s \in Slots |-> "FREE"] /\ buffer = [s \in Slots |-> None]
      /\ at = [i \in Indices |-> None]
  BY DEF Init
<1>3. Owner \in Threads /\ \A s \in Stealers : s \in Threads
  BY DEF Threads
<1>4. \A th \in Threads : sb[th] = <<>> /\ pc[th] = "idle" /\ t[th] = 0
  BY <1>2
<1>5. LogicalBottom = 0 /\ Live = {}
  <2>1. DOMAIN sb[Owner] = {}
    BY <1>3, <1>4
  <2>2. OwnerBottom = 0
    BY <1>2, <2>1, SeenMemory, OwnerSees
  <2>3. LogicalBottom = 0
    BY <1>3, <1>4, <2>2 DEF LogicalBottom
  <2> QED BY <1>2, <2>3 DEF Live
<1>6. Won = {}
  BY <1>3, <1>4 DEF Won
<1>7. TypeOK
  <2>1. sb \in [Threads -> Seq(StoreType)]
    BY <1>2
  <2>2. top \in 0..MaxPush /\ bottom \in -1..MaxPush /\ b \in -1..MaxPush /\ pushed \in 0..MaxPush
    BY <1>1, <1>2
  <2>3. t \in [Threads -> 0..MaxPush] /\ taken \in [Tasks \union {None} -> Nat]
    <3>1. 0 \in 0..MaxPush
      BY <1>1
    <3>2. t \in [Threads -> 0..MaxPush]
      BY <1>2, <3>1
    <3> QED BY <1>2, <3>2
  <2>4. states \in [Slots -> {"FREE", "FULL"}] /\ buffer \in [Slots -> Tasks \union {None}]
        /\ at \in [Indices -> Tasks \union {None}]
    BY <1>2
  <2>5. pc \in [Threads -> {"idle", "push_slot", "pop_top", "pop_cas", "steal_bottom",
                         "steal_cas", "steal_state", "steal_read"}]
    BY <1>2
  <2>6. dropped \in BOOLEAN
    BY <1>2
  <2> QED BY <2>1, <2>2, <2>3, <2>4, <2>5, <2>6 DEF TypeOK
<1>8. PlaceInv
  BY <1>2, <1>3, <1>4 DEF PlaceInv
<1>9. IndexInv
  BY <1>1, <1>2, <1>3, <1>4, <1>5 DEF IndexInv, mask
<1>10. StoreInv
  BY <1>5 DEF StoreInv
<1>11. ReleaseInv
  BY <1>3, <1>4 DEF ReleaseInv
<1>12. WonInv
  BY <1>6 DEF WonInv
<1>13. TaskInv
  <2>1. taken[None] = 0 /\ \A x \in Tasks : taken[x] = 0
    BY <1>2
  <2> QED BY <1>2, <1>5, <1>6, <2>1 DEF TaskInv
<1>14. OrderInv
  BY <1>3, <1>4 DEF OrderInv, Ordered
<1> QED BY <1>7, <1>8, <1>9, <1>10, <1>11, <1>12, <1>13, <1>14 DEF DequeIndInv

-----------------------------------------------------------------------------
(* A push that stores its task *)

\* The buffer q after three stores.
Behind(q, w1, w2, w3) == Append(Append(Append(q, w1), w2), w3)

\* Q is the buffer q of length n with three more stores, position by position.
IsBehind(Q, q, n, w1, w2, w3) ==
  /\ q \o <<w1, w2, w3>> = Q
  /\ Q \in Seq(StoreType) /\ Ordered(Q) /\ DOMAIN q = 1..n /\ DOMAIN Q = 1..(n + 3)
  /\ Q[n + 1] = w1 /\ Q[n + 2] = w2 /\ Q[n + 3] = w3
  /\ \A j \in 1..n : Q[j] = q[j]

\* Three stores at the end of a buffer.
LEMMA ThreeStores ==
  ASSUME NEW q \in Seq(StoreType), NEW w1 \in StoreType, NEW w2 \in StoreType, NEW w3 \in StoreType,
         Ordered(q)
  PROVE  IsBehind(Behind(q, w1, w2, w3), q, Len(q), w1, w2, w3)
<1>0. PICK n \in Nat : n = Len(q)
  OBVIOUS
<1>1. DOMAIN q = 1..n
  BY <1>0
<1>2. PICK q1 \in Seq(StoreType) : q1 = Append(q, w1)
  BY AppendAt
<1>3. PICK q2 \in Seq(StoreType) : q2 = Append(q1, w2)
  BY AppendAt
<1>4. PICK q3 \in Seq(StoreType) : q3 = Append(q2, w3)
  BY AppendAt
<1>5. Len(q1) = n + 1 /\ DOMAIN q1 = 1..(n + 1) /\ q1[n + 1] = w1 /\ \A j \in 1..n : q1[j] = q[j]
  BY <1>0, <1>1, <1>2, AppendProperties
<1>6. Len(q2) = n + 2 /\ DOMAIN q2 = 1..(n + 2) /\ q2[n + 2] = w2 /\ \A j \in 1..(n + 1) : q2[j] = q1[j]
  <2>1. Len(q1) + 1 = n + 2
    BY <1>1, <1>5
  <2> QED BY <1>3, <1>5, <2>1, AppendProperties
<1>7. Len(q3) = n + 3 /\ DOMAIN q3 = 1..(n + 3) /\ q3[n + 3] = w3 /\ \A j \in 1..(n + 2) : q3[j] = q2[j]
  <2>1. Len(q2) + 1 = n + 3
    BY <1>1, <1>6
  <2> QED BY <1>4, <1>6, <2>1, AppendProperties
<1>8. /\ q3[n + 1] = w1 /\ q3[n + 2] = w2 /\ q3[n + 3] = w3
      /\ \A j \in 1..n : q3[j] = q[j]
  <2>1. n + 1 \in 1..(n + 1) /\ n + 1 \in 1..(n + 2) /\ n + 2 \in 1..(n + 2)
    BY <1>1
  <2>2. \A j \in 1..n : j \in 1..(n + 1) /\ j \in 1..(n + 2)
    BY <1>1
  <2> QED BY <1>5, <1>6, <1>7, <2>1, <2>2
<1>9. q \o <<w1, w2, w3>> = q3
  <2>1. PICK r \in Seq(StoreType) : r = <<w1, w2, w3>> /\ Len(r) = 3 /\ r[1] = w1 /\ r[2] = w2 /\ r[3] = w3
    <3>1. <<w1, w2, w3>> \in Seq(StoreType)
      OBVIOUS
    <3>2. Len(<<w1, w2, w3>>) = 3 /\ <<w1, w2, w3>>[1] = w1 /\ <<w1, w2, w3>>[2] = w2
          /\ <<w1, w2, w3>>[3] = w3
      OBVIOUS
    <3> QED BY <3>1, <3>2
  <2>2. PICK p : p = q \o r
    OBVIOUS
  <2>3. /\ p \in Seq(StoreType) /\ Len(p) = n + 3
        /\ \A j \in 1..(n + 3) : p[j] = IF j <= n THEN q[j] ELSE r[j - n]
    BY <1>0, <1>1, <2>1, <2>2, ConcatProperties
  <2>4. \A j \in 1..(n + 3) : p[j] = q3[j]
    <3> TAKE j \in 1..(n + 3)
    <3>1. CASE j \in 1..n
      BY <1>1, <1>8, <2>3, <3>1
    <3>2. CASE j = n + 1
      <4>1. j - n = 1 /\ ~(j <= n)
        BY <1>1, <3>2
      <4> QED BY <1>8, <2>1, <2>3, <3>2, <4>1
    <3>3. CASE j = n + 2
      <4>1. j - n = 2 /\ ~(j <= n)
        BY <1>1, <3>3
      <4> QED BY <1>8, <2>1, <2>3, <3>3, <4>1
    <3>4. CASE j = n + 3
      <4>1. j - n = 3 /\ ~(j <= n)
        BY <1>1, <3>4
      <4> QED BY <1>8, <2>1, <2>3, <3>4, <4>1
    <3> QED BY <1>1, <3>1, <3>2, <3>3, <3>4
  <2>5. p = q3
    BY <1>7, <2>3, <2>4, SeqEqual
  <2> QED BY <2>1, <2>2, <2>5
<1>10. Ordered(q1)
  BY <1>2, OrderedAppend
<1>11. Ordered(q2)
  BY <1>3, <1>10, OrderedAppend
<1>12. Ordered(q3)
  BY <1>4, <1>11, OrderedAppend
<1>13. Behind(q, w1, w2, w3) = q3
  BY <1>2, <1>3, <1>4 DEF Behind
<1>14. IsBehind(q3, q, n, w1, w2, w3)
  BY <1>1, <1>7, <1>8, <1>9, <1>12 DEF IsBehind
<1> QED BY <1>0, <1>13, <1>14

\* What the owner sees after the three stores of a push.
LEMMA PushSeen ==
  ASSUME NEW q \in Seq(StoreType), Ordered(q), NEW x, NEW y, NEW v,
         NEW w1 \in StoreType, NEW w2 \in StoreType, NEW w3 \in StoreType,
         w1.loc = "data" /\ w1.slot = x /\ w1.val = y,
         w2.loc = "state" /\ w2.slot = x /\ w2.val = "FULL",
         w3.loc = "bottom" /\ w3.slot = 0 /\ w3.val = v,
         NEW Q, Q = Behind(q, w1, w2, w3), NEW memory
  PROVE  /\ Seen(Q, "bottom", 0, memory) = v
         /\ Seen(Q, "state", x, memory) = "FULL" /\ Seen(Q, "data", x, memory) = y
         /\ \A z : z # x => /\ Seen(Q, "state", z, memory) = Seen(q, "state", z, memory)
                            /\ Seen(Q, "data", z, memory) = Seen(q, "data", z, memory)
<1>1. PICK q1 \in Seq(StoreType) : q1 = Append(q, w1)
  BY AppendAt
<1>2. PICK q2 \in Seq(StoreType) : q2 = Append(q1, w2)
  BY AppendAt
<1>3. Q = Append(q2, w3)
  BY <1>1, <1>2 DEF Behind
<1>4. Ordered(q1)
  BY <1>1, OrderedAppend
<1>5. Ordered(q2)
  BY <1>2, <1>4, OrderedAppend
<1>6. /\ \A z : Seen(q1, "state", z, memory) = Seen(q, "state", z, memory)
      /\ \A z : z # x => Seen(q1, "data", z, memory) = Seen(q, "data", z, memory)
      /\ Seen(q1, "data", x, memory) = y
  BY <1>1, SeenAppend
<1>7. /\ \A z : z # x => Seen(q2, "state", z, memory) = Seen(q1, "state", z, memory)
      /\ \A z : Seen(q2, "data", z, memory) = Seen(q1, "data", z, memory)
      /\ Seen(q2, "state", x, memory) = "FULL"
  BY <1>2, <1>4, SeenAppend
<1>8. PICK q3 : q3 = Append(q2, w3)
  OBVIOUS
<1>9. /\ \A z : Seen(q3, "state", z, memory) = Seen(q2, "state", z, memory)
      /\ \A z : Seen(q3, "data", z, memory) = Seen(q2, "data", z, memory)
      /\ Seen(q3, "bottom", 0, memory) = v
  BY <1>5, <1>8, SeenAppend
<1>10. Q = q3
  BY <1>3, <1>8
<1> QED BY <1>6, <1>7, <1>9, <1>10

\* A task enters the deque at the bottom.
LEMMA PushKeeps ==
  ASSUME DequeIndInv, PushStore, SlotIsFree(SlotOf(b))
  PROVE  DequeIndInv' /\ Pushes
<1> DEFINE q == sb[Owner]
<1> DEFINE x == SlotOf(b)
<1>1. /\ pc[Owner] = "push_slot" /\ Goto(Owner, "idle") /\ Issue(Owner, PushStores(x, pushed + 1))
      /\ pushed' = pushed + 1 /\ at' = [at EXCEPT ![b] = pushed + 1]
      /\ UNCHANGED <<top, bottom, states, buffer, t, b, taken, dropped>>
  BY DEF PushStore
<1>2. Owner \in Threads /\ Owner \notin Stealers /\ q \in Seq(StoreType) /\ Ordered(q)
      /\ top \in Nat /\ b \in Int /\ pushed \in Nat /\ MaxPush \in Nat /\ bottom \in Int
      /\ Capacity \in Nat /\ mask = Capacity - 1
  BY Basics DEF OrderInv
<1>3. ~dropped
  BY <1>1, <1>2, BusyNotDropped
<1>4. b = OwnerBottom /\ b = LogicalBottom /\ b - top < mask /\ pushed < MaxPush
  BY <1>1, Basics DEF PlaceInv, LogicalBottom
<1>5. top <= b /\ b <= pushed /\ b \in Indices /\ pushed + 1 \in Tasks /\ b + 1 \in -1..MaxPush
  BY <1>2, <1>4, Basics DEF Indices, Tasks
<1>6. x \in Slots
  BY <1>2, SlotLemma
<1>7. OwnerState(x) = "FREE"
  BY DEF SlotIsFree, OwnerState
<1>8. PICK w1 \in StoreType, w2 \in StoreType, w3 \in StoreType :
          /\ w1 = DataStore(x, pushed + 1) /\ w2 = StateStore(x, "FULL") /\ w3 = BottomStore(b + 1)
          /\ w1.loc = "data" /\ w1.slot = x /\ w1.val = pushed + 1
          /\ w2.loc = "state" /\ w2.slot = x /\ w2.val = "FULL"
          /\ w3.loc = "bottom" /\ w3.slot = 0 /\ w3.val = b + 1
  <2>1. DataStore(x, pushed + 1) \in StoreType
    BY <1>5, <1>6 DEF DataStore, StoreType
  <2>2. StateStore(x, "FULL") \in StoreType
    BY <1>6 DEF StateStore, StoreType
  <2>3. BottomStore(b + 1) \in StoreType
    BY <1>5, BottomStoreType
  <2> QED BY <2>1, <2>2, <2>3 DEF DataStore, StateStore, BottomStore
<1>9. w1 \in StoreType /\ w2 \in StoreType /\ w3 \in StoreType
  BY <1>8
<1>10. PICK Q : Q = Behind(q, w1, w2, w3)
  OBVIOUS
<1>11. PICK n \in Nat : n = Len(q)
  BY <1>2
<1>12. /\ q \o <<w1, w2, w3>> = Q
       /\ Q \in Seq(StoreType) /\ Ordered(Q) /\ DOMAIN q = 1..n /\ DOMAIN Q = 1..(n + 3)
       /\ Q[n + 1] = w1 /\ Q[n + 2] = w2 /\ Q[n + 3] = w3
       /\ \A j \in 1..n : Q[j] = q[j]
  <2>1. IsBehind(Behind(q, w1, w2, w3), q, Len(q), w1, w2, w3)
    BY <1>2, <1>9, ThreeStores, Zenon
  <2>2. IsBehind(Q, q, n, w1, w2, w3)
    BY <1>11, <1>10, <2>1, Zenon
  <2> QED BY <2>2, Zenon DEF IsBehind
<1>13. sb' = [sb EXCEPT ![Owner] = Q]
  BY <1>1, <1>12, <1>8 DEF Issue, PushStores
<1>14. sb'[Owner] = Q /\ \A u \in Stealers : sb'[u] = sb[u]
  BY <1>2, <1>13, Basics
<1>15. \A m : /\ Seen(Q, "bottom", 0, m) = b + 1
              /\ Seen(Q, "state", x, m) = "FULL" /\ Seen(Q, "data", x, m) = pushed + 1
              /\ \A z : z # x => /\ Seen(Q, "state", z, m) = Seen(q, "state", z, m)
                                 /\ Seen(Q, "data", z, m) = Seen(q, "data", z, m)
  <2> TAKE m
  <2>1. PICK xx, y, v : xx = x /\ y = pushed + 1 /\ v = b + 1
    OBVIOUS
  <2>2. /\ w1.loc = "data" /\ w1.slot = xx /\ w1.val = y
        /\ w2.loc = "state" /\ w2.slot = xx /\ w2.val = "FULL"
        /\ w3.loc = "bottom" /\ w3.slot = 0 /\ w3.val = v
    BY <1>8, <2>1
  <2>3. /\ Seen(Q, "bottom", 0, m) = v
        /\ Seen(Q, "state", xx, m) = "FULL" /\ Seen(Q, "data", xx, m) = y
        /\ \A z : z # xx => /\ Seen(Q, "state", z, m) = Seen(q, "state", z, m)
                            /\ Seen(Q, "data", z, m) = Seen(q, "data", z, m)
    BY <1>2, <1>10, <1>9, <2>2, PushSeen
  <2> QED BY <2>1, <2>3
<1>16. pc'[Owner] = "idle" /\ \A u \in Stealers : pc'[u] = pc[u]
  BY <1>1, <1>2, GotoMoves, Basics
<1>17. LogicalBottom' = b + 1
  <2>1. OwnerBottom' = b + 1
    BY <1>1, <1>14, <1>15, OwnerSees
  <2> QED BY <1>16, <2>1 DEF LogicalBottom
<1>18. Live' = Live \union {b} /\ b \notin Live
  <2>1. Live = top..(b - 1)
    BY <1>4 DEF Live
  <2>2. Live' = top..b
    BY <1>1, <1>2, <1>17 DEF Live
  <2> QED BY <1>2, <1>5, <2>1, <2>2
<1>19. Won' = Won /\ \A s \in Won : s \in Stealers
  BY <1>16 DEF Won
<1>20. \A i \in Live : i \in Int /\ top <= i /\ i < b /\ SlotOf(i) # x /\ SlotOf(i) \in Slots
  BY <1>4, LiveSlots
<1>21. at'[b] = pushed + 1 /\ \A i \in Indices : i # b => at'[i] = at[i]
  BY <1>1, <1>5, Basics DEF TypeOK
<1>22. \A i \in Live : at'[i] = at[i]
  <2> TAKE i \in Live
  <2>1. i \in Int /\ 0 <= i /\ i < b /\ b \in 0..(MaxPush - 1)
    BY <1>2, <1>5, <1>20 DEF Indices
  <2>2. i \in Indices /\ i # b
    BY <1>2, <2>1 DEF Indices
  <2> QED BY <1>21, <2>2
<1>23. \A z \in Slots : states[z] = "FULL" /\ Clear(q, z) => z # x
  <2> SUFFICES ASSUME states[x] = "FULL", Clear(q, x) PROVE FALSE
    OBVIOUS
  <2>1. \A j \in DOMAIN q : ~(q[j].loc = "state" /\ q[j].slot = x)
    BY DEF Clear
  <2>2. OwnerState(x) = states[x]
    BY <2>1, SeenMemory, OwnerSees
  <2> QED BY <1>7, <2>2
<1>24. \A z : Clear(q, z) /\ z # x => Clear(Q, z)
  <2> SUFFICES ASSUME NEW z, Clear(q, z), z # x, NEW j \in 1..(n + 3), Q[j].loc # "bottom"
               PROVE  Q[j].slot # z
    BY <1>12 DEF Clear
  <2>1. CASE j \in 1..n
    BY <1>12, <2>1 DEF Clear
  <2>2. CASE j = n + 1
    BY <1>12, <1>8, <2>2
  <2>3. CASE j = n + 2
    BY <1>12, <1>8, <2>3
  <2>4. CASE j = n + 3
    BY <1>12, <1>8, <2>4
  <2> QED BY <1>12, <2>1, <2>2, <2>3, <2>4
<1>25. \A s \in Won : /\ t[s] \in Int /\ t[s] \in Nat /\ t[s] < top /\ SlotOf(t[s]) \in Slots
                         /\ SlotOf(t[s]) # x /\ at'[t[s]] = at[t[s]] /\ b < t[s] + Capacity
  <2> TAKE s \in Won
  <2>1. /\ t[s] < top /\ LogicalBottom <= t[s] + Capacity /\ states[SlotOf(t[s])] = "FULL"
        /\ Clear(q, SlotOf(t[s]))
    BY Basics DEF WonInv
  <2>2. t[s] \in Nat /\ t[s] \in Int
    BY <1>19, Basics
  <2>3. SlotOf(t[s]) \in Slots
    BY <2>2, SlotLemma
  <2>4. SlotOf(t[s]) # x
    BY <1>23, <2>1, <2>3
  <2>5. b # t[s] + Capacity
    BY <2>2, <2>4, SlotLemma
  <2>6. t[s] < b /\ t[s] # b /\ b < t[s] + Capacity
    <3>1. b <= t[s] + Capacity
      BY <1>4, <2>1
    <3> QED BY <1>2, <1>5, <2>1, <2>2, <2>5, <3>1
  <2>7. t[s] \in Indices
    BY <1>2, <1>5, <2>2, <2>6 DEF Indices
  <2> QED BY <1>21, <2>1, <2>2, <2>3, <2>4, <2>6, <2>7
<1>26. TypeOK'
  <2>1. sb' \in [Threads -> Seq(StoreType)]
    BY <1>2, <1>13, <1>12, Basics
  <2>2. pc' \in [Threads -> {"idle", "push_slot", "pop_top", "pop_cas", "steal_bottom",
                         "steal_cas", "steal_state", "steal_read"}]
    BY <1>1, <1>2, Basics DEF Goto
  <2>3. pushed' \in 0..MaxPush
    BY <1>1, <1>2, <1>4
  <2>4. at' \in [Indices -> Tasks \union {None}]
    BY <1>1, <1>5, Basics DEF TypeOK
  <2> QED BY <1>1, <2>1, <2>2, <2>3, <2>4, Basics DEF TypeOK
<1>27. PlaceInv'
  <2>1. PlaceInv
    BY Basics
  <2> QED BY <1>1, <1>3, <1>16, <2>1 DEF PlaceInv
<1>28. IndexInv'
  <2>1. IndexInv
    BY Basics
  <2>2. LogicalBottom' \in top'..pushed' /\ LogicalBottom' - top' <= mask /\ bottom' <= LogicalBottom'
    <3>1. bottom <= b
      BY <1>4, <2>1 DEF IndexInv
    <3>2. top' = top /\ pushed' = pushed + 1 /\ bottom' = bottom /\ LogicalBottom' = b + 1
      BY <1>1, <1>17
    <3> QED BY <1>2, <1>4, <1>5, <3>1, <3>2
  <2>3. \A j \in 1..(n + 3) : Q[j].loc = "bottom" => Q[j].val <= LogicalBottom'
    <3> SUFFICES ASSUME NEW j \in 1..(n + 3), Q[j].loc = "bottom" PROVE Q[j].val <= b + 1
      BY <1>17
    <3>1. CASE j \in 1..n
      <4>1. q[j].loc = "bottom" /\ q[j].val <= b
        BY <1>4, <1>12, <2>1, <3>1 DEF IndexInv
      <4>2. q[j].val \in Int
        <5>1. q[j] \in StoreType
          BY <1>2, <1>12, <3>1
        <5> QED BY <4>1, <5>1 DEF StoreType
      <4> QED BY <1>2, <1>12, <3>1, <4>1, <4>2
    <3>2. CASE j = n + 1
      BY <1>12, <1>8, <3>2
    <3>3. CASE j = n + 2
      BY <1>12, <1>8, <3>3
    <3>4. CASE j = n + 3
      BY <1>2, <1>12, <1>8, <3>4
    <3> QED BY <1>12, <3>1, <3>2, <3>3, <3>4
  <2>4. \A s \in Stealers : pc[s] = "steal_cas" /\ t[s] = top =>
          top < LogicalBottom' /\ Clear(Q, SlotOf(top))
    <3> SUFFICES ASSUME NEW s \in Stealers, pc[s] = "steal_cas", t[s] = top
                 PROVE  top < LogicalBottom' /\ Clear(Q, SlotOf(top))
      OBVIOUS
    <3>1. top < LogicalBottom /\ Clear(q, SlotOf(top))
      BY <2>1 DEF IndexInv
    <3>2. top \in Live
      BY <1>2, <1>4, <3>1 DEF Live
    <3> QED BY <1>2, <1>4, <1>17, <1>20, <1>24, <3>1, <3>2
  <2>5. \A s \in Stealers : t[s] <= top
    BY <2>1 DEF IndexInv
  <2> QED BY <1>1, <1>14, <1>12, <1>16, <2>2, <2>3, <2>4, <2>5 DEF IndexInv
<1>29. StoreInv'
  <2>1. StoreInv
    BY Basics
  <2>2. \A i \in Live' : OwnerState(SlotOf(i))' = "FULL" /\ OwnerData(SlotOf(i))' = at'[i]
    <3> TAKE i \in Live'
    <3>1. CASE i = b
      <4>1. Seen(Q, "state", x, states[x]) = "FULL"
        BY <1>15
      <4>2. Seen(Q, "data", x, buffer[x]) = pushed + 1
        BY <1>15
      <4> QED BY <1>1, <1>14, <1>21, <3>1, <4>1, <4>2, OwnerSees
    <3>2. CASE i \in Live
      <4>1. SlotOf(i) # x
        BY <1>20, <3>2
      <4>2. Seen(Q, "state", SlotOf(i), states[SlotOf(i)]) = Seen(q, "state", SlotOf(i), states[SlotOf(i)])
        BY <1>15, <4>1
      <4>3. Seen(Q, "data", SlotOf(i), buffer[SlotOf(i)]) = Seen(q, "data", SlotOf(i), buffer[SlotOf(i)])
        BY <1>15, <4>1
      <4>4. OwnerState(SlotOf(i))' = OwnerState(SlotOf(i)) /\ OwnerData(SlotOf(i))' = OwnerData(SlotOf(i))
        BY <1>1, <1>14, <4>2, <4>3, OwnerSees
      <4> QED BY <1>22, <2>1, <3>2, <4>4 DEF StoreInv
    <3> QED BY <1>18, <3>1, <3>2
  <2>3. \A i \in Live' : i < bottom => Clear(Q, SlotOf(i))
    <3> SUFFICES ASSUME NEW i \in Live', i < bottom PROVE Clear(Q, SlotOf(i))
      OBVIOUS
    <3>1. bottom <= b
      BY <1>4, Basics DEF IndexInv
    <3>2. i \in Live
      BY <1>2, <1>18, <3>1
    <3> QED BY <1>20, <1>24, <2>1, <3>2 DEF StoreInv
  <2>4. \A i \in Live' : \A j, k \in 1..(n + 3) :
          j < k /\ Q[j].loc = "bottom" /\ i < Q[j].val /\ Q[k].loc # "bottom" => Q[k].slot # SlotOf(i)
    <3> SUFFICES ASSUME NEW i \in Live', NEW j \in 1..(n + 3), NEW k \in 1..(n + 3), j < k,
                        Q[j].loc = "bottom", i < Q[j].val, Q[k].loc # "bottom"
                 PROVE  Q[k].slot # SlotOf(i)
      OBVIOUS
    <3>1. j # n + 1 /\ j # n + 2 /\ k # n + 3
      BY <1>12, <1>8
    <3>2. j \in 1..n /\ (k \in 1..n \/ k = n + 1 \/ k = n + 2)
      BY <1>12, <3>1
    <3>3. q[j].loc = "bottom" /\ q[j].val <= b /\ i < q[j].val
      BY <1>4, <1>12, <3>2, Basics DEF IndexInv
    <3>4. q[j].val \in Int
      <4>1. j \in DOMAIN q
        BY <1>12, <3>2
      <4>2. q[j] \in StoreType
        BY <1>2, <4>1
      <4> QED BY <3>3, <4>2 DEF StoreType
    <3>5. i \in Live
      BY <1>2, <1>18, <3>3, <3>4
    <3>6. CASE k \in 1..n
      BY <1>12, <2>1, <3>2, <3>3, <3>5, <3>6 DEF StoreInv
    <3>7. CASE k = n + 1
      BY <1>12, <1>20, <1>8, <3>5, <3>7
    <3>8. CASE k = n + 2
      BY <1>12, <1>20, <1>8, <3>5, <3>8
    <3> QED BY <3>2, <3>6, <3>7, <3>8
  <2>5. bottom' = bottom
    BY <1>1
  <2> QED BY <1>14, <1>12, <2>2, <2>3, <2>4, <2>5 DEF StoreInv
<1>30. ReleaseInv'
  <2>1. ReleaseInv
    BY Basics
  <2>2. \A s \in Stealers : \A j \in DOMAIN sb[s] :
           /\ states'[sb[s][j].slot] = "FULL" /\ Clear(sb'[Owner], sb[s][j].slot)
           /\ \A i \in Live' : SlotOf(i) # sb[s][j].slot
           /\ \A r \in Won' : SlotOf(t'[r]) # sb[s][j].slot
    <3> TAKE s \in Stealers
    <3> TAKE j \in DOMAIN sb[s]
    <3>1. /\ sb[s][j].loc = "state" /\ states[sb[s][j].slot] = "FULL" /\ Clear(q, sb[s][j].slot)
          /\ \A i \in Live : SlotOf(i) # sb[s][j].slot
          /\ \A r \in Won : SlotOf(t[r]) # sb[s][j].slot
      BY <2>1 DEF ReleaseInv
    <3>2. sb[s][j].slot \in Slots
      <4>1. sb[s] \in Seq(StoreType)
        BY Basics
      <4>2. sb[s][j] \in StoreType
        BY <4>1
      <4> QED BY <3>1, <4>2 DEF StoreType
    <3>3. sb[s][j].slot # x
      BY <1>23, <3>1, <3>2
    <3> QED BY <1>1, <1>14, <1>18, <1>19, <1>24, <3>1, <3>3
  <2> QED BY <1>14, <2>1, <2>2, ReleasesKept
<1>31. WonInv'
  <2>1. WonInv
    BY Basics
  <2>2. \A s \in Won : b + 1 <= t[s] + Capacity
    BY <1>2, <1>25
  <2>3. \A s \in Won :
           /\ t'[s] = t[s] /\ t[s] < top' /\ LogicalBottom' <= t[s] + Capacity
           /\ states'[SlotOf(t[s])] = "FULL" /\ buffer'[SlotOf(t[s])] = at'[t[s]]
           /\ Clear(sb'[Owner], SlotOf(t[s]))
    BY <1>1, <1>14, <1>17, <1>24, <1>25, <2>1, <2>2 DEF WonInv
  <2> QED BY <1>19, <2>1, <2>3, WinnersKept
<1>32. TaskInv'
  <2>1. TaskInv
    BY Basics
  <2>2. taken[pushed + 1] = 0
    <3>1. taken[pushed + 1] \in {0, 1} /\ (taken[pushed + 1] = 1 => pushed + 1 <= pushed)
      BY <1>5, <2>1 DEF TaskInv
    <3> QED BY <1>2, <3>1
  <2>3. \A i \in Live : at[i] \in 1..pushed /\ taken[at[i]] = 0
    BY <1>3, <2>1 DEF TaskInv
  <2>4. \A s \in Won : at[t[s]] \in 1..pushed /\ taken[at[t[s]]] = 0
    BY <1>3, <2>1 DEF TaskInv
  <2>5. \A y \in 1..pushed : y \in 1..(pushed + 1) /\ y # pushed + 1
    BY <1>2
  <2>6. \A i \in Live' : at'[i] \in 1..pushed' /\ taken[at'[i]] = 0
    <3>1. pushed + 1 \in 1..(pushed + 1)
      BY <1>2
    <3> QED BY <1>1, <1>18, <1>21, <1>22, <2>2, <2>3, <2>5, <3>1
  <2>7. \A i, j \in Live' : at'[i] = at'[j] => i = j
    <3>1. \A i, j \in Live : at[i] = at[j] => i = j
      BY <1>3, <2>1 DEF TaskInv
    <3>2. \A i \in Live : at'[i] # pushed + 1
      BY <1>22, <2>3, <2>5
    <3> QED BY <1>18, <1>21, <1>22, <3>1, <3>2
  <2>8. \A s \in Won : at'[t[s]] \in 1..pushed' /\ taken[at'[t[s]]] = 0
    BY <1>1, <1>25, <2>4, <2>5
  <2>9. \A s \in Won : \A i \in Live' : at'[i] # at'[t[s]]
    <3>1. \A s \in Won : \A i \in Live : at[i] # at[t[s]]
      BY <1>3, <2>1 DEF TaskInv
    <3>2. \A s \in Won : at'[t[s]] # pushed + 1
      BY <1>25, <2>4, <2>5
    <3> QED BY <1>18, <1>21, <1>22, <1>25, <3>1, <3>2
  <2>10. \A s, r \in Won : at'[t[s]] = at'[t[r]] => s = r
    <3>1. \A s, r \in Won : at[t[s]] = at[t[r]] => s = r
      BY <1>3, <2>1 DEF TaskInv
    <3> QED BY <1>25, <3>1
  <2>11. \A y \in 1..pushed' : taken[y] = 0 =>
           (\E i \in Live' : at'[i] = y) \/ (\E s \in Won : at'[t[s]] = y)
    <3> SUFFICES ASSUME NEW y \in 1..pushed', taken[y] = 0
                 PROVE  (\E i \in Live' : at'[i] = y) \/ (\E s \in Won : at'[t[s]] = y)
      OBVIOUS
    <3>1. CASE y = pushed + 1
      BY <1>18, <1>21, <3>1
    <3>2. CASE y \in 1..pushed
      <4>1. (\E i \in Live : at[i] = y) \/ (\E s \in Won : at[t[s]] = y)
        BY <1>3, <2>1, <3>2 DEF TaskInv
      <4> QED BY <1>18, <1>22, <1>25, <4>1
    <3> QED BY <1>1, <1>2, <3>1, <3>2
  <2>12. /\ taken[None] = 0
         /\ \A y \in Tasks : taken[y] \in {0, 1} /\ (taken[y] = 1 => y <= pushed')
    <3>1. /\ taken[None] = 0
          /\ \A y \in Tasks : taken[y] \in {0, 1} /\ (taken[y] = 1 => y <= pushed)
      BY <2>1 DEF TaskInv
    <3>2. \A y \in Tasks : y <= pushed => y <= pushed'
      BY <1>1, <1>2 DEF Tasks
    <3> QED BY <3>1, <3>2
  <2>13. taken' = taken /\ t' = t /\ ~dropped'
    BY <1>1, <1>3
  <2> QED BY <1>19, <2>6, <2>7, <2>8, <2>9, <2>10, <2>11, <2>12, <2>13 DEF TaskInv
<1>33. OrderInv'
  BY <1>14, <1>12 DEF OrderInv
<1>34. Pushes
  BY <1>1, <1>3, <1>4, <1>5, <1>17, <1>19 DEF Pushes
<1> QED BY <1>34, <1>26, <1>27, <1>28, <1>29, <1>30, <1>31, <1>32, <1>33 DEF DequeIndInv

-----------------------------------------------------------------------------
(* Every step *)

\* Each step of the owner keeps the invariant.
LEMMA OwnerKeeps ==
  ASSUME DequeIndInv, OwnerStep
  PROVE  DequeIndInv' /\ (Invisible \/ Pushes \/ Pops)
<1>1. CASE PushLoad
  BY <1>1, PushLoadKeeps
<1>2. CASE PushStore
  <2>1. CASE SlotIsFree(SlotOf(b))
    BY <1>2, <2>1, PushKeeps
  <2>2. CASE ~SlotIsFree(SlotOf(b))
    BY <1>2, <2>2, PushRefused
  <2> QED BY <2>1, <2>2
<1>3. CASE PopReserve
  BY <1>3, PopReserveKeeps
<1>4. CASE PopLoadTop
  <2>1. CASE top < b
    BY <1>4, <2>1, PopFastKeeps
  <2>2. CASE top = b
    BY <1>4, <2>2, PopMeetsLast
  <2>3. CASE top > b
    <3>1. top \in Int /\ b \in Int
      BY Basics
    <3>2. ~(top < b) /\ top # b
      BY <2>3, <3>1
    <3>3. /\ Goto(Owner, "idle") /\ Issue(Owner, RestoreBottom) /\ t' = [t EXCEPT ![Owner] = top]
          /\ UNCHANGED <<top, bottom, states, buffer, b, pushed, at, taken, dropped>>
      BY <1>4, <3>2 DEF PopLoadTop
    <3>4. pc[Owner] = "pop_top"
      BY <1>4 DEF PopLoadTop
    <3> QED BY <3>3, <3>4, RestoreKeeps
  <2>4. top < b \/ top = b \/ top > b
    BY <1>4 DEF PopLoadTop
  <2> QED BY <2>1, <2>2, <2>3, <2>4
<1>5. CASE PopCas
  <2>1. CASE top = t[Owner]
    BY <1>5, <2>1, PopLastKeeps
  <2>2. CASE top # t[Owner]
    <3>1. /\ Goto(Owner, "idle") /\ Issue(Owner, RestoreBottom) /\ t' = t
          /\ UNCHANGED <<top, bottom, states, buffer, b, pushed, at, taken, dropped>>
      BY <1>5, <2>2 DEF PopCas
    <3>2. pc[Owner] = "pop_cas"
      BY <1>5 DEF PopCas
    <3> QED BY <3>1, <3>2, RestoreKeeps
  <2> QED BY <2>1, <2>2
<1> QED BY <1>1, <1>2, <1>3, <1>4, <1>5 DEF OwnerStep

\* Each step of a stealer keeps the invariant.
LEMMA StealerKeeps ==
  ASSUME DequeIndInv, NEW s \in Stealers, StealStep(s)
  PROVE  DequeIndInv' /\ (Invisible \/ Wins(s) \/ Reads(s))
<1>1. CASE StealCas(s)
  <2>1. CASE top = t[s]
    BY <1>1, <2>1, StealCasWon
  <2>2. CASE top # t[s]
    BY <1>1, <2>2, StealCasLost
  <2> QED BY <2>1, <2>2
<1>2. CASE StealLoadTop(s)
  BY <1>2, StealLoadTopKeeps
<1>3. CASE StealLoadBottom(s)
  BY <1>3, StealLoadBottomKeeps
<1>4. CASE StealLoadState(s)
  BY <1>4, StealLoadStateKeeps
<1>5. CASE StealRead(s)
  BY <1>5, StealerReleases
<1> QED BY <1>1, <1>2, <1>3, <1>4, <1>5 DEF StealStep

\* A step that changes nothing keeps the invariant.
LEMMA StutterKeeps ==
  ASSUME DequeIndInv, UNCHANGED vars
  PROVE  DequeIndInv' /\ Invisible
<1>1. UNCHANGED <<top, bottom, states, buffer, sb, pc, t, b, pushed, at, taken, dropped>>
  BY DEF vars
<1>2. OwnerBottom' = OwnerBottom
  BY <1>1 DEF OwnerBottom, Load
<1>3. \A x : OwnerState(x)' = OwnerState(x) /\ OwnerData(x)' = OwnerData(x)
  BY <1>1 DEF OwnerState, OwnerData, Load
<1>4. LogicalBottom' = LogicalBottom /\ Live' = Live /\ Won' = Won /\ (Quiescent' <=> Quiescent)
  BY <1>1, <1>2 DEF LogicalBottom, Live, Won, Quiescent
<1>5. TypeOK'
  BY <1>1 DEF DequeIndInv, TypeOK
<1>6. PlaceInv' /\ IndexInv' /\ StoreInv'
  BY <1>1, <1>2, <1>3, <1>4 DEF DequeIndInv, PlaceInv, IndexInv, StoreInv
<1>7. ReleaseInv' /\ WonInv' /\ OrderInv'
  BY <1>1, <1>4 DEF DequeIndInv, ReleaseInv, WonInv, OrderInv
<1>8. TaskInv'
  BY <1>1, <1>4 DEF DequeIndInv, TaskInv
<1>9. Invisible
  BY <1>1, <1>4 DEF Invisible, SameWinners
<1> QED BY <1>5, <1>6, <1>7, <1>8, <1>9 DEF DequeIndInv

\* Every step keeps the invariant and does one of these things to the deque.
LEMMA StepKeeps ==
  ASSUME DequeIndInv, [Next]_vars
  PROVE  /\ DequeIndInv'
         /\ Invisible \/ Pushes \/ Pops \/ (\E s \in Stealers : Wins(s) \/ Reads(s)) \/ Drains
<1>1. CASE OwnerStep
  BY <1>1, OwnerKeeps
<1>2. ASSUME NEW s \in Stealers, StealStep(s)
      PROVE  DequeIndInv' /\ (Invisible \/ Wins(s) \/ Reads(s))
  BY <1>2, StealerKeeps
<1>3. ASSUME NEW th \in Threads, Flush(th)
      PROVE  DequeIndInv' /\ Invisible
  <2>1. CASE th \in Stealers
    BY <1>3, <2>1, FlushStealer
  <2>2. CASE th = Owner
    BY <1>3, <2>2, FlushOwner
  <2> QED BY <2>1, <2>2 DEF Threads
<1>4. CASE Drop
  BY <1>4, DropKeeps
<1>5. CASE UNCHANGED vars
  BY <1>5, StutterKeeps
<1> QED BY <1>1, <1>2, <1>3, <1>4, <1>5 DEF Next

\* The invariant is inductive.
THEOREM DequeIndInvHolds == Spec => []DequeIndInv
<1>1. Init => DequeIndInv
  BY DequeInit
<1>2. DequeIndInv /\ [Next]_vars => DequeIndInv'
  BY StepKeeps
<1> QED BY <1>1, <1>2, PTL DEF Spec

\* No task is handed out twice, and no never-written slot is ever read as a task: the races of
\* pop with steal on the last element, and of push with a slow reader a lap behind, have one
\* winner each.
THEOREM TasksHandedOutOnce == Spec => []HandedOutOnce
<1>1. DequeIndInv => HandedOutOnce
  <2> SUFFICES ASSUME DequeIndInv PROVE HandedOutOnce
    OBVIOUS
  <2>1. taken[None] = 0 /\ \A x \in Tasks : taken[x] \in {0, 1}
    BY DEF DequeIndInv, TaskInv
  <2> QED BY <2>1 DEF HandedOutOnce
<1> QED BY <1>1, DequeIndInvHolds, PTL

\* A winner owns its slot until it has read it (the Busy branch of steal is unreachable), and
\* the drop of a joined deque finds every task that no pop and no steal has taken.
THEOREM DequeInvHolds == Spec => []DequeInv
<1>1. DequeIndInv => DequeInv
  <2> SUFFICES ASSUME DequeIndInv PROVE DequeInv
    OBVIOUS
  <2>1. TypeOK
    BY DEF DequeIndInv
  <2>2. NothingLost
    BY DEF DequeIndInv, TaskInv, NothingLost
  <2>3. WinnerOwnsSlot
    <3>1. \A s \in Won : states[SlotOf(t[s])] = "FULL" /\ buffer[SlotOf(t[s])] = at[t[s]]
      BY DEF DequeIndInv, WonInv
    <3>2. \A s \in Won : \A j \in DOMAIN sb[Owner] :
            sb[Owner][j].loc # "bottom" => sb[Owner][j].slot # SlotOf(t[s])
      BY DEF DequeIndInv, WonInv, Clear
    <3>3. \A s \in Won : \A r \in Stealers : \A j \in DOMAIN sb[r] : sb[r][j].slot # SlotOf(t[s])
      BY DEF DequeIndInv, ReleaseInv
    <3> QED BY <3>1, <3>2, <3>3 DEF WinnerOwnsSlot, Won, Threads
  <2> QED BY <2>1, <2>2, <2>3 DEF DequeInv
<1> QED BY <1>1, DequeIndInvHolds, PTL

-----------------------------------------------------------------------------
(* The deque implements WorkDeque *)

\* The n values of f from position a on.
Run(f, a, n) == [i \in 1..n |-> f[a + i - 1]]

\* p is such a run, of values in X.
IsRun(p, X, f, a, n) == p \in Seq(X) /\ Len(p) = n /\ \A i \in 1..n : p[i] = f[a + i - 1]

\* A run is a sequence of its length.
LEMMA RunType ==
  ASSUME NEW X, NEW f, NEW a \in Int, NEW n \in Nat, \A i \in a..(a + n - 1) : f[i] \in X
  PROVE  IsRun(Run(f, a, n), X, f, a, n)
<1>1. \A i \in 1..n : a + i - 1 \in a..(a + n - 1)
  OBVIOUS
<1>2. Run(f, a, n) \in [1..n -> X]
  BY <1>1 DEF Run
<1>3. Run(f, a, n) \in Seq(X) /\ Len(Run(f, a, n)) = n
  BY <1>2
<1> QED BY <1>3 DEF Run, IsRun

\* g extends by y the n values in X of f from position a on.
ExtendsRun(g, y, X, f, a, n) ==
  y \in X /\ g[a + n] = y /\ \A i \in a..(a + n - 1) : f[i] \in X /\ g[i] = f[i]

\* One more value extends a run on the right.
LEMMA RunAppend ==
  ASSUME NEW X, NEW f, NEW g, NEW y, NEW a \in Int, NEW n \in Nat, ExtendsRun(g, y, X, f, a, n)
  PROVE  Run(g, a, n + 1) = Append(Run(f, a, n), y)
<1>0. y \in X /\ g[a + n] = y /\ \A i \in a..(a + n - 1) : f[i] \in X /\ g[i] = f[i]
  BY DEF ExtendsRun
<1>1. PICK p \in Seq(X) : p = Run(f, a, n) /\ IsRun(p, X, f, a, n)
  <2>1. IsRun(Run(f, a, n), X, f, a, n)
    BY <1>0, RunType
  <2> QED BY <2>1 DEF IsRun
<1>2. \A i \in a..(a + (n + 1) - 1) : g[i] \in X
  <2> TAKE i \in a..(a + (n + 1) - 1)
  <2>1. i \in a..(a + n - 1) \/ i = a + n
    OBVIOUS
  <2> QED BY <1>0, <2>1
<1>3. n + 1 \in Nat
  OBVIOUS
<1>4. PICK r \in Seq(X) : r = Run(g, a, n + 1) /\ IsRun(r, X, g, a, n + 1)
  <2>1. IsRun(Run(g, a, n + 1), X, g, a, n + 1)
    BY <1>2, <1>3, RunType
  <2> QED BY <2>1 DEF IsRun
<1>5. PICK z \in Seq(X) : /\ z = Append(p, y) /\ Len(z) = n + 1 /\ z[n + 1] = y
                          /\ \A i \in 1..n : z[i] = p[i]
  <2>1. Len(p) = n
    BY <1>1 DEF IsRun
  <2>2. Append(p, y) \in Seq(X) /\ Len(Append(p, y)) = Len(p) + 1 /\ Append(p, y)[Len(p) + 1] = y
    BY <1>0, AppendProperties
  <2>3. \A i \in 1..Len(p) : Append(p, y)[i] = p[i]
    BY <1>0, AppendProperties
  <2> QED BY <2>1, <2>2, <2>3
<1>6. \A i \in 1..(n + 1) : r[i] = z[i]
  <2> TAKE i \in 1..(n + 1)
  <2>1. CASE i = n + 1
    <3>1. a + i - 1 = a + n
      BY <2>1
    <3> QED BY <1>0, <1>4, <1>5, <2>1, <3>1 DEF IsRun
  <2>2. CASE i \in 1..n
    <3>1. a + i - 1 \in a..(a + n - 1)
      BY <2>2
    <3>2. i \in 1..(n + 1)
      OBVIOUS
    <3> QED BY <1>0, <1>1, <1>4, <1>5, <2>2, <3>1, <3>2 DEF IsRun
  <2> QED BY <2>1, <2>2
<1>7. r = z
  BY <1>4, <1>5, <1>6, SeqEqual DEF IsRun
<1> QED BY <1>1, <1>4, <1>5, <1>7

\* The n values of f from position a on are in X.
Within(X, f, a, n) == \A i \in a..(a + n - 1) : f[i] \in X

\* A run without its last value.
LEMMA RunFront ==
  ASSUME NEW X, NEW f, NEW a \in Int, NEW n \in Nat, n > 0, Within(X, f, a, n)
  PROVE  /\ SubSeq(Run(f, a, n), 1, n - 1) = Run(f, a, n - 1)
         /\ Run(f, a, n)[n] = f[a + n - 1] /\ Run(f, a, n) # <<>>
<1>1. PICK m \in Nat : m = n - 1
  OBVIOUS
<1>2. \A i \in a..(a + m - 1) : f[i] \in X
  BY <1>1 DEF Within
<1>3. PICK p \in Seq(X) : p = Run(f, a, m) /\ IsRun(p, X, f, a, m)
  <2>1. IsRun(Run(f, a, m), X, f, a, m)
    BY <1>2, RunType
  <2> QED BY <2>1 DEF IsRun
<1>4. PICK r \in Seq(X) : r = Run(f, a, n) /\ IsRun(r, X, f, a, n)
  <2>1. IsRun(Run(f, a, n), X, f, a, n)
    BY RunType DEF Within
  <2> QED BY <2>1 DEF IsRun
<1>5. PICK z : z = SubSeq(r, 1, m)
  OBVIOUS
<1>6. z \in Seq(X) /\ Len(z) = m /\ \A i \in 1..m : z[i] = r[i]
  BY <1>1, <1>4, <1>5 DEF IsRun
<1>7. \A i \in 1..m : z[i] = p[i]
  <2> TAKE i \in 1..m
  <2>1. i \in 1..n
    BY <1>1
  <2> QED BY <1>3, <1>4, <1>6, <2>1 DEF IsRun
<1>8. z = p
  BY <1>3, <1>6, <1>7, SeqEqual DEF IsRun
<1>9. r[n] = f[a + n - 1] /\ r # <<>>
  BY <1>4 DEF IsRun
<1> QED BY <1>1, <1>3, <1>4, <1>5, <1>8, <1>9

\* A run without its first value.
LEMMA RunTail ==
  ASSUME NEW X, NEW f, NEW a \in Int, NEW n \in Nat, n > 0, Within(X, f, a, n)
  PROVE  /\ Tail(Run(f, a, n)) = Run(f, a + 1, n - 1)
         /\ Head(Run(f, a, n)) = f[a] /\ Run(f, a, n) # <<>>
<1>1. PICK m \in Nat : m = n - 1
  OBVIOUS
<1>2. \A i \in (a + 1)..((a + 1) + m - 1) : f[i] \in X
  BY <1>1 DEF Within
<1>3. PICK p \in Seq(X) : p = Run(f, a + 1, m) /\ IsRun(p, X, f, a + 1, m)
  <2>1. IsRun(Run(f, a + 1, m), X, f, a + 1, m)
    BY <1>2, RunType
  <2> QED BY <2>1 DEF IsRun
<1>4. PICK r \in Seq(X) : r = Run(f, a, n) /\ IsRun(r, X, f, a, n)
  <2>1. IsRun(Run(f, a, n), X, f, a, n)
    BY RunType DEF Within
  <2> QED BY <2>1 DEF IsRun
<1>5. PICK z : z = Tail(r)
  OBVIOUS
<1>6. z \in Seq(X) /\ Len(z) = m /\ \A i \in 1..m : z[i] = r[i + 1]
  BY <1>1, <1>4, <1>5 DEF IsRun
<1>7. \A i \in 1..m : z[i] = p[i]
  <2> TAKE i \in 1..m
  <2>1. i + 1 \in 1..n /\ a + (i + 1) - 1 = (a + 1) + i - 1
    BY <1>1
  <2> QED BY <1>3, <1>4, <1>6, <2>1 DEF IsRun
<1>8. z = p
  BY <1>3, <1>6, <1>7, SeqEqual DEF IsRun
<1>9. Head(r) = f[a] /\ r # <<>>
  BY <1>4 DEF IsRun
<1> QED BY <1>1, <1>3, <1>4, <1>5, <1>8, <1>9

\* Whether one of the stealers W holds task x.
Held(W, T, A, x) == IF \E s \in W : A[T[s]] = x THEN 1 ELSE 0

\* Winners of different tasks count each task at most once.
LEMMA HeldIsCount ==
  ASSUME NEW W, NEW T, NEW A, NEW x, \A s, r \in W : A[T[s]] = A[T[r]] => s = r
  PROVE  Cardinality({s \in W : A[T[s]] = x}) = Held(W, T, A, x)
<1>1. CASE \E s \in W : A[T[s]] = x
  <2>1. PICK s \in W : A[T[s]] = x
    BY <1>1
  <2>2. {r \in W : A[T[r]] = x} = {s}
    BY <2>1
  <2>3. Cardinality({s}) = 1
    BY FS_Singleton
  <2> QED BY <1>1, <2>2, <2>3 DEF Held
<1>2. CASE ~\E s \in W : A[T[s]] = x
  <2>1. {r \in W : A[T[r]] = x} = {}
    BY <1>2
  <2>2. Cardinality({}) = 0
    BY FS_EmptySet
  <2> QED BY <1>2, <2>1, <2>2 DEF Held
<1> QED BY <1>1, <1>2

\* Out adds up what was handed out and what is held.
LEMMA OutIs ==
  ASSUME DequeIndInv
  PROVE  Out = [x \in Tasks |-> taken[x] + Held(Won, t, at, x)]
<1>1. \A s, r \in Won : at[t[s]] = at[t[r]] => s = r
  <2>1. CASE dropped
    BY <2>1, Basics DEF PlaceInv, Quiescent, Won
  <2>2. CASE ~dropped
    BY <2>2, Basics DEF TaskInv
  <2> QED BY <2>1, <2>2
<1>2. \A x : Winners(x) = {s \in Won : at[t[s]] = x}
  BY DEF Winners, Won
<1>3. \A x : Cardinality(Winners(x)) = Held(Won, t, at, x)
  BY <1>1, <1>2, HeldIsCount
<1> QED BY <1>3 DEF Out

\* The same of the state after a step.
LEMMA OutAfter ==
  ASSUME DequeIndInv'
  PROVE  Out' = [x \in Tasks |-> taken'[x] + Held(Won', t', at', x)]
<1>1. \A s, r \in Won' : at'[t'[s]] = at'[t'[r]] => s = r
  <2>1. CASE dropped'
    <3>1. \A s \in Stealers : s \in Threads
      BY DEF Threads
    <3> QED BY <2>1, <3>1 DEF DequeIndInv, PlaceInv, Quiescent, Won
  <2>2. CASE ~dropped'
    BY <2>2 DEF DequeIndInv, TaskInv
  <2> QED BY <2>1, <2>2
<1>2. \A x : Winners(x)' = {s \in Won' : at'[t'[s]] = x}
  BY DEF Winners, Won
<1>3. \A x : Cardinality(Winners(x)') = Held(Won', t', at', x)
  BY <1>1, <1>2, HeldIsCount
<1> QED BY <1>3 DEF Out

\* The items are a run of tasks.
LEMMA ItemsAre ==
  ASSUME DequeIndInv, ~dropped
  PROVE  /\ Items = Run(at, top, LogicalBottom - top)
         /\ LogicalBottom - top \in Nat /\ top \in Int
         /\ \A i \in top..(top + (LogicalBottom - top) - 1) : at[i] \in Tasks
         /\ Len(Items) = LogicalBottom - top
<1>1. LogicalBottom - top \in Nat /\ top \in Int /\ top + (LogicalBottom - top) - 1 = LogicalBottom - 1
  BY Bounds
<1>2. \A i \in Live : at[i] \in Tasks
  <2>1. \A i \in Live : at[i] \in 1..pushed
    BY Basics DEF TaskInv
  <2> QED BY <2>1, Bounds DEF Tasks
<1>3. \A i \in top..(top + (LogicalBottom - top) - 1) : at[i] \in Tasks
  BY <1>1, <1>2 DEF Live
<1>4. Items = Run(at, top, LogicalBottom - top)
  BY DEF Items, Run
<1>5. PICK n \in Nat : n = LogicalBottom - top
  BY <1>1
<1>6. IsRun(Run(at, top, n), Tasks, at, top, n)
  BY <1>1, <1>3, <1>5, RunType
<1> QED BY <1>1, <1>3, <1>4, <1>5, <1>6 DEF IsRun

\* A winner's index is no longer in the deque.
LEMMA WonIndex ==
  ASSUME DequeIndInv, NEW s \in Won
  PROVE  t[s] \in Indices /\ t[s] < LogicalBottom
<1>1. t[s] < top /\ s \in Stealers
  BY Basics DEF WonInv, Won
<1>2. t[s] \in Nat
  BY <1>1, Basics
<1> QED BY <1>1, <1>2, Bounds DEF Indices

\* Held looks at the winners' tasks only.
LEMMA HeldSame ==
  ASSUME NEW W, NEW T, NEW A, NEW U, NEW B, \A s \in W : A[T[s]] = B[U[s]]
  PROVE  \A x : Held(W, T, A, x) = Held(W, U, B, x)
BY DEF Held

\* A step that hands out task y and no other.
LEMMA HandsOut ==
  ASSUME DequeIndInv, DequeIndInv', NEW y \in Tasks,
         taken'[y] + Held(Won', t', at', y) = taken[y] + Held(Won, t, at, y) + 1,
         \A x \in Tasks : x # y =>
           taken'[x] + Held(Won', t', at', x) = taken[x] + Held(Won, t, at, x)
  PROVE  Abstract!HandOut(y)
<1>1. Out = [x \in Tasks |-> taken[x] + Held(Won, t, at, x)]
  BY OutIs
<1>2. Out' = [x \in Tasks |-> taken'[x] + Held(Won', t', at', x)]
  BY OutAfter
<1>3. Out' = [Out EXCEPT ![y] = @ + 1]
  BY <1>1, <1>2
<1> QED BY <1>3 DEF Abstract!HandOut

\* A step that hands out nothing.
LEMMA HandsOutNothing ==
  ASSUME DequeIndInv, DequeIndInv',
         \A x \in Tasks : taken'[x] + Held(Won', t', at', x) = taken[x] + Held(Won, t, at, x)
  PROVE  Out' = Out
<1>1. Out = [x \in Tasks |-> taken[x] + Held(Won, t, at, x)]
  BY OutIs
<1>2. Out' = [x \in Tasks |-> taken'[x] + Held(Won', t', at', x)]
  BY OutAfter
<1> QED BY <1>1, <1>2

\* Take counts one task.
LEMMA TakeOne ==
  ASSUME DequeIndInv, NEW y \in Tasks, Take(y)
  PROVE  taken'[y] = taken[y] + 1 /\ \A x \in Tasks : x # y => taken'[x] = taken[x]
<1>1. taken \in [Tasks \union {None} -> Nat]
  BY Basics DEF TypeOK
<1> QED BY <1>1 DEF Take

\* Loads, refused and lost operations and the memory system are invisible to WorkDeque.
LEMMA InvisibleRefines ==
  ASSUME DequeIndInv, DequeIndInv', Invisible
  PROVE  UNCHANGED <<Items, pushed, Out>>
<1>1. /\ UNCHANGED <<top, pushed, at, taken, dropped>> /\ LogicalBottom' = LogicalBottom
      /\ Won' = Won /\ \A u \in Won : at'[t'[u]] = at[t[u]]
  BY DEF Invisible, SameWinners
<1>2. Items' = Items
  BY <1>1 DEF Items
<1>3. \A x : Held(Won, t', at', x) = Held(Won, t, at, x)
  BY <1>1, HeldSame
<1>4. Out' = Out
  BY <1>1, <1>3, HandsOutNothing
<1> QED BY <1>1, <1>2, <1>4

\* The stores of a push are WorkDeque's Push.
LEMMA PushRefines ==
  ASSUME DequeIndInv, DequeIndInv', Pushes
  PROVE  Abstract!Push
<1>1. /\ ~dropped /\ LogicalBottom - top < mask /\ LogicalBottom \in Indices
      /\ UNCHANGED <<top, t, taken, dropped>> /\ LogicalBottom' = LogicalBottom + 1
      /\ pushed' = pushed + 1 /\ at' = [at EXCEPT ![LogicalBottom] = pushed + 1] /\ Won' = Won
  BY DEF Pushes
<1>2. PICK n \in Nat : n = LogicalBottom - top
  BY <1>1, ItemsAre
<1>3. /\ Items = Run(at, top, n) /\ Len(Items) = n /\ top \in Int
      /\ \A i \in top..(top + n - 1) : at[i] \in Tasks
  BY <1>1, <1>2, ItemsAre
<1>4. at'[LogicalBottom] = pushed + 1 /\ \A i \in Indices : i # LogicalBottom => at'[i] = at[i]
  BY <1>1, Basics DEF TypeOK
<1>5. \A i \in top..(top + n - 1) : at'[i] = at[i]
  <2> TAKE i \in top..(top + n - 1)
  <2>1. i \in Indices /\ i # LogicalBottom
    BY <1>1, <1>2, Bounds DEF Indices
  <2> QED BY <1>4, <2>1
<1>6. top + n = LogicalBottom /\ LogicalBottom' - top' = n + 1
  BY <1>1, <1>2, Bounds
<1>7. Items' = Run(at', top, n + 1)
  <2>1. ~dropped' /\ top' = top
    BY <1>1
  <2> QED BY <1>6, <2>1 DEF Items, Run
<1>8. pushed + 1 \in Tasks
  <2>1. pushed' \in 0..MaxPush
    BY DEF DequeIndInv, TypeOK
  <2> QED BY <1>1, <2>1, Bounds DEF Tasks
<1>9. PICK A, y : A = at' /\ y = pushed + 1
  OBVIOUS
<1>10. Run(A, top, n + 1) = Append(Run(at, top, n), y)
  <2>1. \A i \in top..(top + n - 1) : at[i] \in Tasks /\ A[i] = at[i]
    BY <1>3, <1>5, <1>9
  <2>2. A[top + n] = y /\ y \in Tasks
    BY <1>4, <1>6, <1>8, <1>9
  <2>3. ExtendsRun(A, y, Tasks, at, top, n)
    BY <2>1, <2>2 DEF ExtendsRun
  <2> QED BY <1>3, <2>3, RunAppend
<1>11. Items' = Append(Items, pushed + 1)
  BY <1>3, <1>7, <1>9, <1>10
<1>12. Out' = Out
  <2>1. \A s \in Won : at'[t'[s]] = at[t[s]]
    <3> TAKE s \in Won
    <3>1. t[s] \in Indices /\ t[s] # LogicalBottom
      <4>1. t[s] \in Indices /\ t[s] < LogicalBottom
        BY WonIndex
      <4> QED BY <4>1, Bounds DEF Indices
    <3> QED BY <1>1, <1>4, <3>1
  <2>2. \A x : Held(Won, t', at', x) = Held(Won, t, at, x)
    BY <2>1, HeldSame
  <2> QED BY <1>1, <2>2, HandsOutNothing
<1>13. Len(Items) < mask
  BY <1>1, <1>2, <1>3
<1> QED BY <1>1, <1>11, <1>12, <1>13 DEF Abstract!Push

\* The task at an end of the deque.
LEMMA EndTask ==
  ASSUME DequeIndInv, ~dropped, top < LogicalBottom, NEW i \in {top, LogicalBottom - 1}
  PROVE  i \in Live /\ at[i] \in Tasks
<1>1. i \in Live
  BY Bounds DEF Live
<1>2. at[i] \in 1..pushed
  BY <1>1, Basics DEF TaskInv
<1> QED BY <1>1, <1>2, Bounds DEF Tasks

\* A pop that takes a task is WorkDeque's PopRight, whether it takes the last one through
\* the CAS on top or not.
LEMMA PopRefines ==
  ASSUME DequeIndInv, DequeIndInv', Pops
  PROVE  Abstract!PopRight
<1>1. /\ ~dropped /\ top < LogicalBottom /\ Take(at[LogicalBottom - 1])
      /\ UNCHANGED <<pushed, at, dropped>> /\ Won' = Won /\ \A u \in Won : at'[t'[u]] = at[t[u]]
  BY DEF Pops, SameWinners
<1>2. PICK n \in Nat : n = LogicalBottom - top /\ n > 0
  BY <1>1, Bounds
<1>3. Items = Run(at, top, n) /\ Len(Items) = n /\ top \in Int /\ Within(Tasks, at, top, n)
  BY <1>1, <1>2, ItemsAre DEF Within
<1>4. /\ SubSeq(Run(at, top, n), 1, n - 1) = Run(at, top, n - 1)
      /\ Run(at, top, n)[n] = at[top + n - 1] /\ Run(at, top, n) # <<>>
  BY <1>2, <1>3, RunFront
<1>5. PICK y : y = at[LogicalBottom - 1]
  OBVIOUS
<1>6. y \in Tasks
  BY <1>1, <1>5, EndTask
<1>7. top + n - 1 = LogicalBottom - 1
  BY <1>2, Bounds
<1>8. Abstract!HandOut(y)
  <2>1. \A x : Held(Won', t', at', x) = Held(Won, t, at, x)
    BY <1>1, HeldSame
  <2>2. taken'[y] = taken[y] + 1 /\ \A x \in Tasks : x # y => taken'[x] = taken[x]
    BY <1>1, <1>5, <1>6, TakeOne
  <2>3. \A x \in Tasks : taken[x] \in Int /\ Held(Won, t, at, x) \in Int
    BY Basics DEF TypeOK, Held
  <2>4. taken'[y] + Held(Won', t', at', y) = taken[y] + Held(Won, t, at, y) + 1
    BY <1>6, <2>1, <2>2, <2>3
  <2>5. \A x \in Tasks : x # y =>
          taken'[x] + Held(Won', t', at', x) = taken[x] + Held(Won, t, at, x)
    BY <2>1, <2>2
  <2> QED BY <1>6, <2>4, <2>5, HandsOut
<1>9. Items' = Run(at, top, n - 1)
  <2>1. CASE top' = top /\ LogicalBottom' = LogicalBottom - 1
    <3>1. LogicalBottom' - top' = n - 1
      BY <1>2, <2>1, Bounds
    <3> QED BY <1>1, <2>1, <3>1 DEF Items, Run
  <2>2. CASE top' = LogicalBottom /\ LogicalBottom' = LogicalBottom /\ top = LogicalBottom - 1
    <3>1. LogicalBottom' - top' = 0 /\ n - 1 = 0
      BY <1>2, <2>2, Bounds
    <3>2. \A a : [i \in 1..0 |-> at[a + i - 1]] = <<>>
      OBVIOUS
    <3> QED BY <1>1, <3>1, <3>2 DEF Items, Run
  <2> QED BY <2>1, <2>2 DEF Pops
<1>10. Items # <<>> /\ Items' = SubSeq(Items, 1, Len(Items) - 1) /\ Items[Len(Items)] = y
  BY <1>3, <1>4, <1>5, <1>7, <1>9
<1> QED BY <1>1, <1>8, <1>10 DEF Abstract!PopRight, Abstract!Last, Abstract!Front

\* A winning CAS of steal is WorkDeque's StealLeft.
LEMMA WinRefines ==
  ASSUME DequeIndInv, DequeIndInv', NEW s \in Stealers, Wins(s)
  PROVE  Abstract!StealLeft
<1>1. /\ ~dropped /\ top < LogicalBottom /\ t[s] = top /\ s \notin Won
      /\ top' = top + 1 /\ LogicalBottom' = LogicalBottom /\ Won' = Won \union {s}
      /\ UNCHANGED <<t, pushed, at, taken, dropped>>
  BY DEF Wins
<1>2. PICK n \in Nat : n = LogicalBottom - top /\ n > 0
  BY <1>1, Bounds
<1>3. Items = Run(at, top, n) /\ Len(Items) = n /\ top \in Int /\ Within(Tasks, at, top, n)
  BY <1>1, <1>2, ItemsAre DEF Within
<1>4. /\ Tail(Run(at, top, n)) = Run(at, top + 1, n - 1)
      /\ Head(Run(at, top, n)) = at[top] /\ Run(at, top, n) # <<>>
  BY <1>2, <1>3, RunTail
<1>5. PICK y : y = at[top]
  OBVIOUS
<1>6. y \in Tasks /\ top \in Live
  BY <1>1, <1>5, EndTask
<1>7. Items' = Run(at, top + 1, n - 1)
  <2>1. LogicalBottom' - top' = n - 1
    BY <1>1, <1>2, Bounds
  <2> QED BY <1>1, <2>1 DEF Items, Run
<1>8. Abstract!HandOut(y)
  <2>1. Held(Won', t', at', y) = 1
    BY <1>1, <1>5 DEF Held
  <2>2. \A r \in Won : at[t[r]] # y
    BY <1>1, <1>5, <1>6, Basics DEF TaskInv
  <2>3. Held(Won, t, at, y) = 0
    BY <2>2 DEF Held
  <2>4. \A x : x # y => Held(Won', t', at', x) = Held(Won, t, at, x)
    BY <1>1, <1>5 DEF Held
  <2>5. taken' = taken /\ taken[y] \in Int
    BY <1>1, <1>6, Basics DEF TypeOK
  <2>6. taken'[y] + Held(Won', t', at', y) = taken[y] + Held(Won, t, at, y) + 1
    BY <2>1, <2>3, <2>5
  <2>7. \A x \in Tasks : x # y =>
          taken'[x] + Held(Won', t', at', x) = taken[x] + Held(Won, t, at, x)
    BY <2>4, <2>5
  <2> QED BY <1>6, <2>6, <2>7, HandsOut
<1>9. Items # <<>> /\ Items' = Tail(Items) /\ Head(Items) = y
  BY <1>3, <1>4, <1>5, <1>7
<1> QED BY <1>1, <1>8, <1>9 DEF Abstract!StealLeft

\* The read of a won slot is invisible: WorkDeque has handed the task out at the CAS.
LEMMA ReadRefines ==
  ASSUME DequeIndInv, DequeIndInv', NEW s \in Stealers, Reads(s)
  PROVE  UNCHANGED <<Items, pushed, Out>>
<1>1. /\ ~dropped /\ s \in Won /\ Take(at[t[s]])
      /\ Won' = Won \ {s} /\ LogicalBottom' = LogicalBottom
      /\ UNCHANGED <<top, t, pushed, at, dropped>>
  BY DEF Reads
<1>2. Items' = Items
  BY <1>1 DEF Items
<1>3. PICK y : y = at[t[s]]
  OBVIOUS
<1>4. y \in Tasks /\ \A r \in Won : at[t[r]] = y => r = s
  <2>1. at[t[s]] \in 1..pushed /\ \A r \in Won : at[t[r]] = at[t[s]] => r = s
    BY <1>1, Basics DEF TaskInv
  <2> QED BY <1>3, <2>1, Bounds DEF Tasks
<1>5. Held(Won, t, at, y) = 1 /\ Held(Won', t', at', y) = 0
  BY <1>1, <1>3, <1>4 DEF Held
<1>6. \A x : x # y => Held(Won', t', at', x) = Held(Won, t, at, x)
  BY <1>1, <1>3 DEF Held
<1>7. taken'[y] = taken[y] + 1 /\ \A x \in Tasks : x # y => taken'[x] = taken[x]
  BY <1>1, <1>3, <1>4, TakeOne
<1>8. taken[y] \in Int
  BY <1>4, Basics DEF TypeOK
<1>9. taken'[y] + Held(Won', t', at', y) = taken[y] + Held(Won, t, at, y)
  BY <1>5, <1>7, <1>8
<1>10. \A x \in Tasks : taken'[x] + Held(Won', t', at', x) = taken[x] + Held(Won, t, at, x)
  BY <1>6, <1>7, <1>9
<1>11. Out' = Out
  BY <1>10, HandsOutNothing
<1> QED BY <1>1, <1>2, <1>11

\* The destructor is WorkDeque's DrainAll.
LEMMA DrainRefines ==
  ASSUME DequeIndInv, DequeIndInv', Drains
  PROVE  Abstract!DrainAll
<1>1. /\ ~dropped /\ dropped' /\ Won = {} /\ Won' = {} /\ pushed' = pushed
      /\ \A x \in Tasks : taken'[x] = taken[x] + (IF \E i \in Live : at[i] = x THEN 1 ELSE 0)
  BY DEF Drains
<1>2. Items' = <<>>
  BY <1>1 DEF Items
<1>3. \A x : Held(Won, t, at, x) = 0 /\ Held(Won', t', at', x) = 0
  BY <1>1 DEF Held
<1>4. \A x \in Tasks : taken[x] \in Int /\ taken'[x] \in Int
  BY DEF DequeIndInv, TypeOK
<1>5. Out = [x \in Tasks |-> taken[x]]
  BY <1>3, <1>4, OutIs
<1>6. Out' = [x \in Tasks |-> taken'[x]]
  BY <1>3, <1>4, OutAfter
<1>7. \A x : x \in Abstract!Range(Items) <=> \E i \in Live : at[i] = x
  <2>1. Items = [i \in 1..(LogicalBottom - top) |-> at[top + i - 1]]
    BY <1>1 DEF Items
  <2>2. \A i \in Live : i - top + 1 \in 1..(LogicalBottom - top) /\ top + (i - top + 1) - 1 = i
    BY Bounds DEF Live
  <2>3. \A i \in 1..(LogicalBottom - top) : top + i - 1 \in Live
    BY Bounds DEF Live
  <2>4. Abstract!Range(Items) = {at[top + i - 1] : i \in 1..(LogicalBottom - top)}
    BY <2>1 DEF Abstract!Range
  <2> QED BY <2>2, <2>3, <2>4
<1>8. Out' = [x \in Tasks |-> Out[x] + (IF x \in Abstract!Range(Items) THEN 1 ELSE 0)]
  BY <1>1, <1>5, <1>6, <1>7
<1> QED BY <1>1, <1>2, <1>8 DEF Abstract!DrainAll, Tasks

\* A new deque is empty.
LEMMA InitRefines == Init => Abstract!Init
<1> SUFFICES ASSUME Init PROVE Abstract!Init
  OBVIOUS
<1>1. DequeIndInv
  BY DequeInit
<1>2. /\ ~dropped /\ top = 0 /\ pushed = 0 /\ taken = [x \in Tasks \union {None} |-> 0]
      /\ \A th \in Threads : pc[th] = "idle"
  BY DEF Init
<1>3. LogicalBottom = 0
  BY <1>1, <1>2, Bounds
<1>4. Items = <<>>
  BY <1>2, <1>3 DEF Items
<1>5. Won = {}
  BY <1>2 DEF Won, Threads
<1>6. \A x \in Tasks : taken[x] + Held(Won, t, at, x) = 0
  BY <1>2, <1>5 DEF Held
<1>7. Out = [x \in Tasks |-> 0]
  BY <1>1, <1>6, OutIs
<1> QED BY <1>2, <1>4, <1>7 DEF Abstract!Init, Tasks

\* The deque implements the bounded double-ended sequence for every capacity, any stealers and
\* store buffers of any length: pop takes the youngest task, a winning CAS the oldest, and what
\* each caller is handed is the task its operation removed.
THEOREM DequeRefined == Spec => ImplementsWorkDeque
<1>1. Init => Abstract!Init
  BY InitRefines
<1>2. DequeIndInv /\ [Next]_vars => [Abstract!Next]_<<Items, pushed, Out>>
  <2> SUFFICES ASSUME DequeIndInv, [Next]_vars
               PROVE  Abstract!Next \/ UNCHANGED <<Items, pushed, Out>>
    OBVIOUS
  <2>1. DequeIndInv'
    BY StepKeeps
  <2>2. CASE Invisible
    BY <2>1, <2>2, InvisibleRefines
  <2>3. CASE Pushes
    BY <2>1, <2>3, PushRefines DEF Abstract!Next
  <2>4. CASE Pops
    BY <2>1, <2>4, PopRefines DEF Abstract!Next
  <2>5. ASSUME NEW s \in Stealers, Wins(s) PROVE Abstract!Next
    BY <2>1, <2>5, WinRefines DEF Abstract!Next
  <2>6. ASSUME NEW s \in Stealers, Reads(s) PROVE UNCHANGED <<Items, pushed, Out>>
    BY <2>1, <2>6, ReadRefines
  <2>7. CASE Drains
    BY <2>1, <2>7, DrainRefines DEF Abstract!Next
  <2>8. Invisible \/ Pushes \/ Pops \/ (\E s \in Stealers : Wins(s) \/ Reads(s)) \/ Drains
    BY StepKeeps
  <2> QED BY <2>2, <2>3, <2>4, <2>5, <2>6, <2>7, <2>8
<1> QED BY <1>1, <1>2, DequeIndInvHolds, PTL DEF Spec, ImplementsWorkDeque, Abstract!Spec
=============================================================================
