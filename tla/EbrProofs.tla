------------------------------ MODULE EbrProofs -----------------------------
(***************************************************************************)
(* Proofs about Ebr for every number of readers, writers, collectors,      *)
(* slots, epochs and allocations and any depth of the store buffers: every *)
(* unlinked allocation is destroyed exactly once, and never while a reader *)
(* whose pin had reached memory refers to it.                              *)
(*                                                                         *)
(* The first is bookkeeping: an allocation is published, in the hands of   *)
(* the writer that unlinked it, on the list, kept by one sweep, or freed.  *)
(* The second is the epoch argument.  Once a pin is visible the epoch can  *)
(* advance at most once more, by a collect that is past the slot or that   *)
(* finds it current; whatever is unlinked after the reader's load is       *)
(* stamped no earlier than the epoch of that load; so the epoch never      *)
(* reaches the stamp plus two.                                             *)
(***************************************************************************)
EXTENDS Ebr, FiniteSetTheorems, SequenceTheorems, TLAPS

Guarded  == Readers \union Writers
Unlinked == {th \in EbrThreads : epc[th] \in {"retire_stamp", "retire_push"}}
Limbo    == garbage \union UNION {kept[th] : th \in EbrThreads}

\* The value th stored in its slot last, whether or not it has reached memory.
Youngest(th) == IF pin_sb[th] = <<>> THEN slots[slot[th]] ELSE Last(pin_sb[th])

\* th is between pin and unpin.
Pinned(th) ==
  \/ epc[th] \in {"pinned", "retire_stamp", "retire_push"}
  \/ epc[th] \in {"collect", "scan", "now", "sweep", "keep"} /\ ret[th] = "pinned"

\* Counters: registrations and retirements are bounded by the threads and allocations.
CountInv ==
  /\ next_slot + Cardinality({th \in EbrThreads : epc[th] = "start"}) <= Cardinality(EbrThreads)
  /\ retires_since_collect + Cardinality(Unlinked) <= allocated - 1

\* EbrSlots are handed out once, and only their owners store to them.
SlotInv ==
  /\ \A th \in EbrThreads : slot[th] # Nothing => slot[th] < next_slot
  /\ \A a, b \in EbrThreads : slot[a] = slot[b] /\ slot[a] # Nothing => a = b
  /\ \A th \in EbrThreads : th \in Guarded /\ epc[th] \notin {"start", "SlotsExhausted", "dropped"}
       => slot[th] \in EbrSlots
  /\ \A th \in EbrThreads : epc[th] \in {"start", "pin_store"} \/ Pinned(th) => th \in Guarded
  /\ \A th \in EbrThreads : pin_sb[th] # <<>> => slot[th] \in EbrSlots

\* Epochs that were loaded or stored are past or present ones; a pinned thread's last
\* store is its pin.
EpochInv ==
  /\ \A th \in EbrThreads : epoch[th] <= global_epoch
  /\ \A th \in EbrThreads : epc[th] = "scan" => epoch[th] < MaxEpoch
  /\ \A s \in EbrSlots : slots[s] <= global_epoch + 1
  /\ \A th \in EbrThreads : \A i \in DOMAIN pin_sb[th] : pin_sb[th][i] <= global_epoch + 1
  /\ \A th \in EbrThreads : Pinned(th) => Youngest(th) # 0

\* Every allocation that is not published is in exactly one place or freed.
ListInv ==
  /\ cell \in 1..allocated /\ freed[cell] = 0
  /\ \A r, q \in Limbo : r.obj = q.obj => r = q
  /\ \A a \in EbrThreads : garbage \cap kept[a] = {}
  /\ \A a, b \in EbrThreads : a # b => kept[a] \cap kept[b] = {}
  /\ \A r \in Limbo : r.obj \in 1..allocated /\ r.obj # cell /\ freed[r.obj] = 0
  /\ \A a \in Unlinked : /\ held[a] \in 1..allocated /\ held[a] # cell /\ freed[held[a]] = 0
                         /\ \A r \in Limbo : r.obj # held[a]
  /\ \A a, b \in Unlinked : held[a] = held[b] => a = b
  /\ \A o \in Objects : freed[o] \in {0, 1} /\ (freed[o] = 1 => o <= allocated)
  /\ \A o \in 1..allocated : o # cell /\ freed[o] = 0 =>
       (\E r \in Limbo : r.obj = o) \/ (\E a \in Unlinked : held[a] = o)
  /\ \A a \in EbrThreads : epc[a] # "keep" => kept[a] = {}
  /\ (\A a \in EbrThreads : epc[a] = "dropped") => \A o \in 1..allocated : o # cell => freed[o] = 1

\* The epoch can still advance although th is pinned: its pin is current, or a collect of
\* this epoch is past its slot.
MayAdvance(th) ==
  \/ slots[slot[th]] = global_epoch + 1
  \/ \E k \in EbrThreads : epc[k] = "scan" /\ epoch[k] = global_epoch /\ slot[th] \notin scan[k]

\* A stamp that keeps its allocation from being freed as long as th is pinned.
Recent(stamp, th) == stamp + 1 >= global_epoch /\ (MayAdvance(th) => stamp >= global_epoch)

\* What a covered reader refers to is live, and stamped recently if it is unlinked.
CoverInv ==
  \A th \in EbrThreads : covered[th] =>
    /\ th \in Readers /\ epc[th] = "pinned" /\ pin_sb[th] = <<>> /\ held[th] \in 1..allocated
    /\ freed[held[th]] = 0
    /\ \A r \in Limbo : r.obj = held[th] => Recent(r.stamp, th)
    /\ \A w \in EbrThreads : epc[w] = "retire_push" /\ held[w] = held[th] => Recent(epoch[w], th)

EbrInv == EbrTypeOK /\ CountInv /\ SlotInv /\ EpochInv /\ ListInv /\ CoverInv

-----------------------------------------------------------------------------
(* Memory and store buffers *)

\* No thread's last store is lost or changed, and the slot of a thread whose buffer is
\* empty stays as it is.
MemKept ==
  /\ slot' = slot
  /\ slots' \in [EbrSlots -> 0..(MaxEpoch + 1)] /\ pin_sb' \in [EbrThreads -> Seq(0..(MaxEpoch + 1))]
  /\ \A t \in EbrThreads : Len(pin_sb'[t]) <= BufferDepth
  /\ \A t \in EbrThreads : slot[t] \in EbrSlots => Youngest(t)' = Youngest(t)
  /\ \A t \in EbrThreads : pin_sb[t] = <<>> =>
       pin_sb'[t] = <<>> /\ (slot[t] \in EbrSlots => slots'[slot[t]] = slots[slot[t]])
  /\ \A s \in EbrSlots : slots'[s] <= global_epoch + 1
  /\ \A t \in EbrThreads : \A i \in DOMAIN pin_sb'[t] : pin_sb'[t][i] <= global_epoch + 1

\* The youngest store of a thread that has any is in range.
LEMMA LastStore ==
  ASSUME EbrTypeOK, SlotInv, EpochInv, NEW th \in EbrThreads, pin_sb[th] # <<>>
  PROVE  /\ slot[th] \in EbrSlots /\ Len(pin_sb[th]) \in Nat \ {0}
         /\ Last(pin_sb[th]) = pin_sb[th][Len(pin_sb[th])]
         /\ Last(pin_sb[th]) \in 0..(MaxEpoch + 1) /\ Last(pin_sb[th]) <= global_epoch + 1
<1>1. pin_sb[th] \in Seq(0..(MaxEpoch + 1))
  BY DEF EbrTypeOK
<1>2. Len(pin_sb[th]) \in Nat \ {0} /\ DOMAIN pin_sb[th] = 1..Len(pin_sb[th])
  BY <1>1
<1>3. Last(pin_sb[th]) = pin_sb[th][Len(pin_sb[th])]
  BY DEF Last
<1>4. pin_sb[th][Len(pin_sb[th])] \in 0..(MaxEpoch + 1) /\ pin_sb[th][Len(pin_sb[th])] <= global_epoch + 1
  <2>1. PICK n \in Nat \ {0} : n = Len(pin_sb[th]) /\ n \in DOMAIN pin_sb[th]
    BY <1>2
  <2>2. pin_sb[th][n] \in 0..(MaxEpoch + 1)
    BY <1>1, <2>1, <1>2, ElementOfSeq
  <2>3. pin_sb[th][n] <= global_epoch + 1
    BY <2>1 DEF EpochInv
  <2> QED BY <2>1, <2>2, <2>3
<1> QED BY <1>2, <1>3, <1>4 DEF SlotInv

\* A locked instruction.
LEMMA DrainKeepsMem ==
  ASSUME EbrTypeOK, SlotInv, EpochInv, NEW th \in EbrThreads,
         slots' = Drained(th), pin_sb' = Set(pin_sb, th, <<>>), slot' = slot
  PROVE  MemKept
<1>0. /\ slots \in [EbrSlots -> 0..(MaxEpoch + 1)] /\ pin_sb \in [EbrThreads -> Seq(0..(MaxEpoch + 1))]
      /\ \A t \in EbrThreads : Len(pin_sb[t]) <= BufferDepth
  BY DEF EbrTypeOK
<1>1. pin_sb'[th] = <<>> /\ \A t \in EbrThreads : t # th => pin_sb'[t] = pin_sb[t]
  BY <1>0 DEF Set
<1>2. pin_sb' \in [EbrThreads -> Seq(0..(MaxEpoch + 1))] /\ \A t \in EbrThreads : Len(pin_sb'[t]) <= BufferDepth
  BY <1>0, <1>1, EbrAssumption DEF Set
<1>3. \A t \in EbrThreads : \A i \in DOMAIN pin_sb'[t] : pin_sb'[t][i] <= global_epoch + 1
  BY <1>1 DEF EpochInv
<1>4. CASE pin_sb[th] = <<>>
  <2>1. slots' = slots /\ pin_sb' = pin_sb
    BY <1>0, <1>4 DEF Drained, Set
  <2> QED BY <1>0, <2>1 DEF MemKept, Youngest, EpochInv
<1>5. CASE pin_sb[th] # <<>>
  <2>1. PICK v \in 0..(MaxEpoch + 1) : v = Last(pin_sb[th]) /\ v <= global_epoch + 1 /\ slot[th] \in EbrSlots
    BY <1>5, LastStore
  <2>2. slots' = [slots EXCEPT ![slot[th]] = v]
    BY <1>5, <2>1 DEF Drained
  <2>3. slots' \in [EbrSlots -> 0..(MaxEpoch + 1)] /\ \A s \in EbrSlots : slots'[s] <= global_epoch + 1
    BY <1>0, <2>1, <2>2 DEF EpochInv
  <2>4. slots'[slot[th]] = v /\ \A t \in EbrThreads : t # th /\ slot[t] \in EbrSlots => slots'[slot[t]] = slots[slot[t]]
    BY <1>0, <2>1, <2>2, EbrAssumption DEF SlotInv
  <2>5. \A t \in EbrThreads : slot[t] \in EbrSlots => Youngest(t)' = Youngest(t)
    BY <1>1, <1>5, <2>1, <2>4 DEF Youngest
  <2> QED BY <1>1, <1>2, <1>3, <1>5, <2>3, <2>4, <2>5 DEF MemKept
<1> QED BY <1>4, <1>5

\* The memory system retires the oldest store.
LEMMA FlushKeepsMem ==
  ASSUME EbrTypeOK, SlotInv, EpochInv, NEW th \in EbrThreads, FlushPin(th)
  PROVE  MemKept
<1>0. /\ slots \in [EbrSlots -> 0..(MaxEpoch + 1)] /\ pin_sb \in [EbrThreads -> Seq(0..(MaxEpoch + 1))]
      /\ \A t \in EbrThreads : Len(pin_sb[t]) <= BufferDepth /\ Len(pin_sb[t]) \in Nat
      /\ pin_sb[th] # <<>> /\ slot[th] \in EbrSlots /\ BufferDepth \in Nat
  BY EbrAssumption DEF EbrTypeOK, SlotInv, FlushPin
<1>1. /\ pin_sb'[th] = Tail(pin_sb[th]) /\ \A t \in EbrThreads : t # th => pin_sb'[t] = pin_sb[t]
      /\ slots' = [slots EXCEPT ![slot[th]] = Head(pin_sb[th])] /\ slot' = slot
  BY <1>0 DEF FlushPin, Set
<1>2. PICK n \in Nat \ {0} : n = Len(pin_sb[th])
  BY <1>0
<1>3. /\ Head(pin_sb[th]) = pin_sb[th][1] /\ pin_sb[th][1] \in 0..(MaxEpoch + 1) /\ pin_sb[th][1] <= global_epoch + 1
      /\ Tail(pin_sb[th]) \in Seq(0..(MaxEpoch + 1)) /\ Len(Tail(pin_sb[th])) = n - 1
      /\ \A i \in 1..(n - 1) : Tail(pin_sb[th])[i] = pin_sb[th][i + 1]
  <2>1. pin_sb[th] \in Seq(0..(MaxEpoch + 1)) /\ 1 \in DOMAIN pin_sb[th]
    BY <1>0, <1>2
  <2>2. pin_sb[th][1] <= global_epoch + 1
    BY <2>1 DEF EpochInv
  <2>3. Head(pin_sb[th]) = pin_sb[th][1] /\ pin_sb[th][1] \in 0..(MaxEpoch + 1)
    <3>1. Head(pin_sb[th]) = pin_sb[th][1]
      BY <1>0, <2>1
    <3>2. 1 \in 1..Len(pin_sb[th])
      BY <1>2
    <3> QED BY <2>1, <3>1, <3>2, ElementOfSeq
  <2>4. /\ Tail(pin_sb[th]) \in Seq(0..(MaxEpoch + 1)) /\ Len(Tail(pin_sb[th])) = n - 1
        /\ \A i \in 1..(n - 1) : Tail(pin_sb[th])[i] = pin_sb[th][i + 1]
    BY <1>0, <1>2, <2>1
  <2> QED BY <2>2, <2>3, <2>4
<1>4. pin_sb' \in [EbrThreads -> Seq(0..(MaxEpoch + 1))] /\ \A t \in EbrThreads : Len(pin_sb'[t]) <= BufferDepth
  <2>1. pin_sb' = [pin_sb EXCEPT ![th] = Tail(pin_sb[th])]
    BY DEF FlushPin, Set
  <2> QED BY <1>0, <1>1, <1>2, <1>3, <2>1
<1>5. \A t \in EbrThreads : \A i \in DOMAIN pin_sb'[t] : pin_sb'[t][i] <= global_epoch + 1
  <2>1. \A i \in DOMAIN pin_sb'[th] : pin_sb'[th][i] <= global_epoch + 1
    <3>1. DOMAIN pin_sb'[th] = 1..(n - 1) /\ DOMAIN pin_sb[th] = 1..n
      BY <1>0, <1>1, <1>2, <1>3
    <3> QED BY <1>1, <1>3, <3>1 DEF EpochInv
  <2> QED BY <1>1, <2>1 DEF EpochInv
<1>6. slots' \in [EbrSlots -> 0..(MaxEpoch + 1)] /\ \A s \in EbrSlots : slots'[s] <= global_epoch + 1
  BY <1>0, <1>1, <1>3 DEF EpochInv
<1>7. /\ slots'[slot[th]] = pin_sb[th][1]
      /\ \A t \in EbrThreads : t # th /\ slot[t] \in EbrSlots => slots'[slot[t]] = slots[slot[t]]
  BY <1>0, <1>1, <1>3, EbrAssumption DEF SlotInv
<1>8. \A t \in EbrThreads : slot[t] \in EbrSlots => Youngest(t)' = Youngest(t)
  <2>1. Youngest(th)' = Youngest(th)
    <3>1. Youngest(th) = pin_sb[th][n]
      BY <1>0, <1>2 DEF Youngest, Last
    <3>2. CASE n = 1
      <4>1. pin_sb'[th] = <<>>
        <5>1. pin_sb'[th] \in Seq(0..(MaxEpoch + 1)) /\ Len(pin_sb'[th]) = 0
          BY <1>1, <1>3, <3>2
        <5> QED BY <5>1
      <4> QED BY <1>1, <1>7, <3>1, <3>2, <4>1 DEF Youngest
    <3>3. CASE n > 1
      <4>1. pin_sb'[th] # <<>> /\ Len(pin_sb'[th]) = n - 1 /\ pin_sb'[th][n - 1] = pin_sb[th][n]
        <5>1. pin_sb'[th] \in Seq(0..(MaxEpoch + 1)) /\ Len(pin_sb'[th]) = n - 1 /\ n - 1 > 0
          BY <1>1, <1>3, <3>3
        <5>2. pin_sb'[th][n - 1] = pin_sb[th][(n - 1) + 1]
          BY <1>1, <1>3, <3>3
        <5> QED BY <5>1, <5>2
      <4> QED BY <3>1, <4>1 DEF Youngest, Last
    <3> QED BY <3>2, <3>3
  <2> QED BY <1>1, <1>7, <2>1 DEF Youngest
<1> QED BY <1>0, <1>1, <1>4, <1>5, <1>6, <1>7, <1>8 DEF MemKept

\* A step that touches no slot.
LEMMA SameMem ==
  ASSUME EbrTypeOK, EpochInv, UNCHANGED <<slots, pin_sb, slot>>
  PROVE  MemKept
BY DEF MemKept, EbrTypeOK, EpochInv, Youngest

-----------------------------------------------------------------------------
(* What a step must leave alone for each part of the invariant to survive *)

\* The pins: no thread becomes pinned, and loaded epochs are not ahead of the global one.
LEMMA EpochKept ==
  ASSUME EbrInv, MemKept, global_epoch' \in Nat, global_epoch <= global_epoch',
         \A t \in EbrThreads : epoch'[t] <= global_epoch',
         \A t \in EbrThreads : epc'[t] = "scan" => epoch'[t] < MaxEpoch,
         \A t \in EbrThreads : Pinned(t)' => Pinned(t) /\ slot[t] \in EbrSlots
  PROVE  EpochInv'
<1>0. /\ EpochInv /\ global_epoch \in Nat /\ MaxEpoch \in Nat
      /\ slots' \in [EbrSlots -> 0..(MaxEpoch + 1)] /\ pin_sb' \in [EbrThreads -> Seq(0..(MaxEpoch + 1))]
  BY EbrAssumption DEF EbrInv, EbrTypeOK, MemKept
<1>1. \A s \in EbrSlots : slots'[s] <= global_epoch' + 1
  <2> TAKE s \in EbrSlots
  <2>1. slots'[s] <= global_epoch + 1 /\ slots'[s] \in Int
    BY <1>0 DEF MemKept
  <2> QED BY <1>0, <2>1
<1>2. \A t \in EbrThreads : \A i \in DOMAIN pin_sb'[t] : pin_sb'[t][i] <= global_epoch' + 1
  <2> TAKE t \in EbrThreads
  <2> TAKE i \in DOMAIN pin_sb'[t]
  <2>1. pin_sb'[t][i] <= global_epoch + 1
    BY DEF MemKept
  <2>2. pin_sb'[t] \in Seq(0..(MaxEpoch + 1)) /\ i \in 1..Len(pin_sb'[t])
    BY <1>0
  <2>3. pin_sb'[t][i] \in 0..(MaxEpoch + 1)
    BY <2>2, ElementOfSeq
  <2> QED BY <1>0, <2>1, <2>3
<1>3. \A t \in EbrThreads : Pinned(t)' => Youngest(t)' # 0
  BY <1>0 DEF MemKept, EpochInv
<1> QED BY <1>1, <1>2, <1>3 DEF EpochInv

\* The places: nothing is allocated, unlinked, moved or freed.
LEMMA ListKept ==
  ASSUME EbrInv, UNCHANGED <<cell, garbage, kept, allocated, freed>>,
         \A t \in EbrThreads : epc'[t] \in {"retire_stamp", "retire_push"}
                              <=> epc[t] \in {"retire_stamp", "retire_push"},
         \A t \in Unlinked : held'[t] = held[t],
         \A t \in EbrThreads : epc'[t] # "keep" => kept[t] = {},
         \A t \in EbrThreads : epc'[t] = "dropped" => epc[t] = "dropped"
  PROVE  ListInv' /\ Unlinked' = Unlinked /\ Limbo' = Limbo
<1>1. Unlinked' = Unlinked /\ Limbo' = Limbo
  BY DEF Unlinked, Limbo
<1>2. ListInv
  BY DEF EbrInv
<1> QED BY <1>1, <1>2 DEF ListInv

\* The counts: nobody registers, unlinks or retires.
LEMMA CountKept ==
  ASSUME EbrInv, next_slot' = next_slot, retires_since_collect' \in {0, retires_since_collect},
         allocated' = allocated, Unlinked' = Unlinked,
         \A t \in EbrThreads : epc'[t] = "start" <=> epc[t] = "start"
  PROVE  CountInv'
<1>1. {t \in EbrThreads : epc'[t] = "start"} = {t \in EbrThreads : epc[t] = "start"}
  OBVIOUS
<1>2. IsFiniteSet(Unlinked)
  <2>1. Unlinked \in SUBSET EbrThreads
    BY DEF Unlinked
  <2> QED BY <2>1, EbrAssumption, FS_Subset
<1>3. /\ Cardinality(Unlinked) \in Nat /\ retires_since_collect \in Nat
      /\ allocated \in Nat
  BY <1>2, EbrAssumption, FS_CardinalityType DEF EbrInv, EbrTypeOK, Objects
<1>4. CountInv
  BY DEF EbrInv
<1>5. next_slot' + Cardinality({t \in EbrThreads : epc'[t] = "start"}) <= Cardinality(EbrThreads)
  BY <1>1, <1>4 DEF CountInv
<1>6. retires_since_collect' + Cardinality(Unlinked) <= allocated' - 1
  BY <1>3, <1>4 DEF CountInv
<1> QED BY <1>5, <1>6 DEF CountInv

\* The covered readers: none is new, their slots stand, the epoch stands, what they refer
\* to is not freed, stamps are old ones or the present epoch, and no collect gets past a
\* slot it may not pass.
CoverSteady ==
  /\ global_epoch' = global_epoch /\ allocated' \in Nat /\ allocated <= allocated'
  /\ \A t \in EbrThreads : covered'[t] =>
       /\ covered[t] /\ slot'[t] = slot[t] /\ epc'[t] = "pinned" /\ pin_sb'[t] = <<>> /\ held'[t] = held[t]
       /\ slots'[slot[t]] = slots[slot[t]] /\ freed'[held[t]] = 0
       /\ \A k \in EbrThreads : epc'[k] = "scan" /\ epoch'[k] = global_epoch /\ slot[t] \notin scan'[k]
            => MayAdvance(t)
  /\ \A r \in Limbo' : \/ r \in Limbo
                       \/ \E w \in EbrThreads : epc[w] = "retire_push" /\ r.obj = held[w] /\ r.stamp = epoch[w]
  /\ \A w \in EbrThreads : epc'[w] = "retire_push" =>
       \/ epc[w] = "retire_push" /\ held'[w] = held[w] /\ epoch'[w] = epoch[w]
       \/ epoch'[w] = global_epoch

\* The claim about covered readers then survives.
LEMMA CoverKept ==
  ASSUME EbrInv, CoverSteady
  PROVE  CoverInv'
<1> SUFFICES ASSUME NEW t \in EbrThreads, covered'[t]
             PROVE  /\ t \in Readers /\ epc'[t] = "pinned" /\ pin_sb'[t] = <<>> /\ held'[t] \in 1..allocated'
                    /\ freed'[held'[t]] = 0
                    /\ \A r \in Limbo' : r.obj = held'[t] => Recent(r.stamp, t)'
                    /\ \A w \in EbrThreads : epc'[w] = "retire_push" /\ held'[w] = held'[t] =>
                         Recent(epoch[w], t)'
  BY DEF CoverInv
<1>0. global_epoch \in Nat /\ allocated \in Nat
  BY EbrAssumption DEF EbrInv, EbrTypeOK, Objects
<1>1. /\ covered[t] /\ epc'[t] = "pinned" /\ pin_sb'[t] = <<>> /\ held'[t] = held[t]
      /\ slots'[slot[t]] = slots[slot[t]] /\ freed'[held[t]] = 0
      /\ slot'[t] = slot[t] /\ global_epoch' = global_epoch
  BY DEF CoverSteady
<1>2. /\ t \in Readers /\ held[t] \in 1..allocated
      /\ \A r \in Limbo : r.obj = held[t] => Recent(r.stamp, t)
      /\ \A w \in EbrThreads : epc[w] = "retire_push" /\ held[w] = held[t] => Recent(epoch[w], t)
  BY <1>1 DEF EbrInv, CoverInv
<1>3. held'[t] \in 1..allocated'
  BY <1>0, <1>1, <1>2 DEF CoverSteady
<1>4. MayAdvance(t)' => MayAdvance(t)
  BY <1>1 DEF CoverSteady, MayAdvance
<1>5. ASSUME NEW x, Recent(x, t) PROVE Recent(x, t)'
  BY <1>1, <1>4, <1>5 DEF Recent
<1>6. \A r \in Limbo' : r.obj = held'[t] => Recent(r.stamp, t)'
  <2> TAKE r \in Limbo'
  <2> HAVE r.obj = held'[t]
  <2>1. Recent(r.stamp, t)
    BY <1>1, <1>2 DEF CoverSteady
  <2> QED BY <1>5, <2>1
<1>7. \A w \in EbrThreads : epc'[w] = "retire_push" /\ held'[w] = held'[t] => Recent(epoch[w], t)'
  <2> TAKE w \in EbrThreads
  <2> HAVE epc'[w] = "retire_push" /\ held'[w] = held'[t]
  <2>1. CASE epoch'[w] = global_epoch
    BY <1>0, <1>1, <2>1 DEF Recent
  <2>2. CASE epc[w] = "retire_push" /\ held'[w] = held[w] /\ epoch'[w] = epoch[w]
    <3>1. PICK x : x = epoch[w]
      OBVIOUS
    <3>2. Recent(x, t)
      BY <1>1, <1>2, <2>2, <3>1
    <3>3. Recent(x, t)'
      BY <1>5, <3>2
    <3> QED BY <2>2, <3>1, <3>3 DEF Recent
  <2> QED BY <2>1, <2>2 DEF CoverSteady
<1> QED BY <1>1, <1>2, <1>3, <1>6, <1>7

-----------------------------------------------------------------------------
(* Steps that neither register, unlink, move, free nor advance *)

\* th moves on; no store is lost and all lists and references stand.  It does not begin or
\* end an unlink or a guard, and collect passes only slots that allow the advance.
QuietStep(th) ==
  /\ MemKept
  /\ UNCHANGED <<global_epoch, next_slot, garbage, cell, held, kept, allocated, freed, covered>>
  /\ retires_since_collect' \in {0, retires_since_collect}
  /\ \E l \in {"idle", "pin_store", "pinned", "retire_stamp", "retire_push", "collect", "scan",
               "now", "sweep", "keep", epc[th]} : epc' = [epc EXCEPT ![th] = l]
  /\ \E b \in {"pinned", "idle"} : ret' = [ret EXCEPT ![th] = b]
  /\ \E e \in 0..MaxEpoch : epoch' = [epoch EXCEPT ![th] = e]
  /\ \E S \in SUBSET EbrSlots : scan' = [scan EXCEPT ![th] = S]
  /\ epc'[th] \in {"retire_stamp", "retire_push"} <=> epc[th] \in {"retire_stamp", "retire_push"}
  /\ epc'[th] # epc[th] => epc[th] \notin {"start", "SlotsExhausted", "dropped"}
  /\ epc'[th] # "keep" => kept[th] = {}
  /\ covered[th] => epc'[th] = "pinned"
  /\ epc'[th] = "pin_store" => th \in Guarded
  /\ Pinned(th)' => Pinned(th)
  /\ epoch'[th] <= global_epoch /\ (epc'[th] = "scan" => epoch'[th] < MaxEpoch)
  /\ epc'[th] = "retire_push" =>
       (epc[th] = "retire_push" /\ epoch'[th] = epoch[th]) \/ epoch'[th] = global_epoch
  /\ \A t \in EbrThreads : covered[t] /\ epc'[th] = "scan" /\ epoch'[th] = global_epoch
       /\ slot[t] \notin scan'[th] => MayAdvance(t)

\* Such a step preserves the invariant.
LEMMA QuietKeeps ==
  ASSUME EbrInv, NEW th \in EbrThreads, QuietStep(th)
  PROVE  EbrInv'
<1>0. EbrTypeOK /\ CountInv /\ SlotInv /\ EpochInv /\ ListInv /\ CoverInv
  BY DEF EbrInv
<1>1. /\ epc \in [EbrThreads -> {"start", "idle", "SlotsExhausted", "pin_store", "pinned",
               "retire_stamp", "retire_push", "collect", "scan", "now", "sweep", "keep",
               "dropped"}]
      /\ ret \in [EbrThreads -> {"pinned", "idle"}] /\ epoch \in [EbrThreads -> 0..MaxEpoch]
      /\ scan \in [EbrThreads -> SUBSET EbrSlots] /\ retires_since_collect \in 0..MaxObj
      /\ MaxObj \in Nat /\ global_epoch \in Nat /\ allocated \in Nat
  BY <1>0, EbrAssumption DEF EbrTypeOK, Objects
<1>2. \A t \in EbrThreads : t # th =>
        epc'[t] = epc[t] /\ ret'[t] = ret[t] /\ epoch'[t] = epoch[t] /\ scan'[t] = scan[t]
  BY <1>1 DEF QuietStep
<1>3. MemKept /\ slot' = slot
  BY DEF QuietStep, MemKept
<1>4. EbrTypeOK'
  <2>1. epc' \in [EbrThreads -> {"start", "idle", "SlotsExhausted", "pin_store", "pinned",
               "retire_stamp", "retire_push", "collect", "scan", "now", "sweep", "keep",
               "dropped"}]
    BY <1>1 DEF QuietStep
  <2>2. ret' \in [EbrThreads -> {"pinned", "idle"}] /\ epoch' \in [EbrThreads -> 0..MaxEpoch]
    BY <1>1 DEF QuietStep
  <2>3. scan' \in [EbrThreads -> SUBSET EbrSlots]
    BY <1>1 DEF QuietStep
  <2>4. retires_since_collect' \in 0..MaxObj
    BY <1>1 DEF QuietStep
  <2>5. UNCHANGED <<global_epoch, next_slot, garbage, cell, held, kept, allocated, freed, covered>>
    BY DEF QuietStep
  <2>6. /\ slots' \in [EbrSlots -> 0..(MaxEpoch + 1)] /\ pin_sb' \in [EbrThreads -> Seq(0..(MaxEpoch + 1))]
        /\ \A t \in EbrThreads : Len(pin_sb'[t]) <= BufferDepth
    BY <1>3 DEF MemKept
  <2> QED BY <1>0, <1>3, <2>1, <2>2, <2>3, <2>4, <2>5, <2>6 DEF EbrTypeOK
<1>5. \A t \in EbrThreads : Pinned(t)' => Pinned(t)
  BY <1>2 DEF QuietStep, Pinned
<1>6. SlotInv'
  <2>1. \A t \in EbrThreads : t \in Guarded /\ epc'[t] \notin {"start", "SlotsExhausted", "dropped"}
          => epc[t] \notin {"start", "SlotsExhausted", "dropped"}
    BY <1>2 DEF QuietStep
  <2>2. \A t \in EbrThreads : epc'[t] \in {"start", "pin_store"} => t \in Guarded
    BY <1>0, <1>1, <1>2 DEF QuietStep, SlotInv
  <2>3. \A t \in EbrThreads : pin_sb'[t] # <<>> => pin_sb[t] # <<>>
    BY <1>3 DEF MemKept
  <2> QED BY <1>0, <1>3, <1>5, <2>1, <2>2, <2>3 DEF SlotInv, QuietStep
<1>7. \A t \in EbrThreads : Pinned(t) => slot[t] \in EbrSlots
  BY <1>0 DEF SlotInv, Pinned
<1>8. EpochInv'
  <2>1. \A t \in EbrThreads : epoch'[t] <= global_epoch
    BY <1>0, <1>2 DEF QuietStep, EpochInv
  <2>2. \A t \in EbrThreads : epc'[t] = "scan" => epoch'[t] < MaxEpoch
    BY <1>0, <1>2 DEF QuietStep, EpochInv
  <2>3. global_epoch' = global_epoch
    BY DEF QuietStep
  <2> QED BY <1>1, <1>3, <1>5, <1>7, <2>1, <2>2, <2>3, EpochKept
<1>9. ListInv' /\ Unlinked' = Unlinked /\ Limbo' = Limbo
  <2>1. UNCHANGED <<cell, garbage, kept, allocated, freed, held>>
    BY DEF QuietStep
  <2>2. \A t \in EbrThreads : epc'[t] \in {"retire_stamp", "retire_push"}
                              <=> epc[t] \in {"retire_stamp", "retire_push"}
    BY <1>2 DEF QuietStep
  <2>3. \A t \in EbrThreads : epc'[t] # "keep" => kept[t] = {}
    BY <1>0, <1>2 DEF QuietStep, ListInv
  <2>4. \A t \in EbrThreads : epc'[t] = "dropped" => epc[t] = "dropped"
    BY <1>1, <1>2 DEF QuietStep
  <2> QED BY <2>1, <2>2, <2>3, <2>4, ListKept
<1>10. CountInv'
  <2>1. \A t \in EbrThreads : epc'[t] = "start" <=> epc[t] = "start"
    BY <1>1, <1>2 DEF QuietStep
  <2> QED BY <1>9, <2>1, CountKept DEF QuietStep
<1>11. CoverSteady
  <2>1. UNCHANGED <<global_epoch, allocated, covered, held, freed, slot>>
    BY <1>3 DEF QuietStep
  <2>2. ASSUME NEW t \in EbrThreads, covered[t]
        PROVE  /\ epc'[t] = "pinned" /\ pin_sb'[t] = <<>> /\ slots'[slot[t]] = slots[slot[t]]
               /\ freed[held[t]] = 0
    <3>1. epc[t] = "pinned" /\ pin_sb[t] = <<>> /\ freed[held[t]] = 0
      BY <1>0, <2>2 DEF CoverInv
    <3>2. slot[t] \in EbrSlots
      BY <1>7, <3>1 DEF Pinned
    <3>3. epc'[t] = "pinned"
      BY <1>2, <2>2, <3>1 DEF QuietStep
    <3> QED BY <1>3, <3>1, <3>2, <3>3 DEF MemKept
  <2>3. ASSUME NEW t \in EbrThreads, covered[t], NEW k \in EbrThreads,
               epc'[k] = "scan", epoch'[k] = global_epoch, slot[t] \notin scan'[k]
        PROVE  MayAdvance(t)
    <3>1. CASE k = th
      BY <2>3, <3>1 DEF QuietStep
    <3>2. CASE k # th
      BY <1>2, <2>3, <3>2 DEF MayAdvance
    <3> QED BY <3>1, <3>2
  <2>4. \A w \in EbrThreads : epc'[w] = "retire_push" =>
       \/ epc[w] = "retire_push" /\ held'[w] = held[w] /\ epoch'[w] = epoch[w]
       \/ epoch'[w] = global_epoch
    BY <1>2, <2>1 DEF QuietStep
  <2>5. /\ global_epoch' = global_epoch /\ allocated' \in Nat /\ allocated <= allocated'
    BY <1>1, <2>1
  <2>6. \A t \in EbrThreads : covered'[t] =>
       /\ covered[t] /\ slot'[t] = slot[t] /\ epc'[t] = "pinned" /\ pin_sb'[t] = <<>> /\ held'[t] = held[t]
       /\ slots'[slot[t]] = slots[slot[t]] /\ freed'[held[t]] = 0
       /\ \A k \in EbrThreads : epc'[k] = "scan" /\ epoch'[k] = global_epoch /\ slot[t] \notin scan'[k]
            => MayAdvance(t)
    BY <2>1, <2>2, <2>3
  <2> QED BY <1>9, <2>4, <2>5, <2>6 DEF CoverSteady
<1>12. CoverInv'
  BY <1>11, CoverKept
<1> QED BY <1>4, <1>6, <1>8, <1>9, <1>10, <1>12 DEF EbrInv

\* The threads' places and the variables that most leaves below need.
LEMMA TypeFacts ==
  ASSUME EbrInv
  PROVE  /\ global_epoch \in Nat /\ global_epoch \in 0..MaxEpoch /\ MaxEpoch \in Nat
         /\ allocated \in Nat /\ allocated \in 1..MaxObj /\ MaxObj \in Nat /\ cell \in Objects
         /\ epc \in [EbrThreads -> {"start", "idle", "SlotsExhausted", "pin_store", "pinned",
               "retire_stamp", "retire_push", "collect", "scan", "now", "sweep", "keep",
               "dropped"}]
         /\ ret \in [EbrThreads -> {"pinned", "idle"}] /\ epoch \in [EbrThreads -> 0..MaxEpoch]
         /\ scan \in [EbrThreads -> SUBSET EbrSlots] /\ held \in [EbrThreads -> Objects \union {Nothing}]
         /\ kept \in [EbrThreads -> SUBSET Retired] /\ garbage \subseteq Retired
         /\ covered \in [EbrThreads -> BOOLEAN] /\ freed \in [Objects -> Nat]
         /\ EbrTypeOK /\ CountInv /\ SlotInv /\ EpochInv /\ ListInv /\ CoverInv
<1>1. EbrTypeOK /\ CountInv /\ SlotInv /\ EpochInv /\ ListInv /\ CoverInv
  BY DEF EbrInv
<1>2. /\ global_epoch \in 0..MaxEpoch /\ allocated \in Objects /\ cell \in Objects
      /\ epc \in [EbrThreads -> {"start", "idle", "SlotsExhausted", "pin_store", "pinned",
               "retire_stamp", "retire_push", "collect", "scan", "now", "sweep", "keep",
               "dropped"}]
      /\ ret \in [EbrThreads -> {"pinned", "idle"}] /\ epoch \in [EbrThreads -> 0..MaxEpoch]
      /\ scan \in [EbrThreads -> SUBSET EbrSlots] /\ held \in [EbrThreads -> Objects \union {Nothing}]
      /\ kept \in [EbrThreads -> SUBSET Retired] /\ garbage \subseteq Retired
      /\ covered \in [EbrThreads -> BOOLEAN] /\ freed \in [Objects -> Nat]
  BY <1>1 DEF EbrTypeOK
<1>3. MaxObj \in Nat /\ MaxEpoch \in Nat
  BY EbrAssumption
<1>4. allocated \in 1..MaxObj
  BY <1>2 DEF Objects
<1>5. allocated \in Nat /\ global_epoch \in Nat
  BY <1>2, <1>3, <1>4
<1> QED BY <1>1, <1>2, <1>3, <1>4, <1>5

\* A covered reader has a slot, its pin is in memory, and it is not past the epoch.
LEMMA CoveredPin ==
  ASSUME EbrInv, NEW t \in EbrThreads, covered[t]
  PROVE  /\ slot[t] \in EbrSlots /\ epc[t] = "pinned" /\ pin_sb[t] = <<>>
         /\ slots[slot[t]] \in Nat \ {0} /\ slots[slot[t]] <= global_epoch + 1
<1>1. epc[t] = "pinned" /\ pin_sb[t] = <<>> /\ t \in Readers
  BY TypeFacts DEF CoverInv
<1>2. slot[t] \in EbrSlots
  BY <1>1, TypeFacts DEF SlotInv, Guarded
<1>3. slots[slot[t]] # 0
  BY <1>1, TypeFacts DEF EpochInv, Pinned, Youngest
<1>4. slots[slot[t]] \in 0..(MaxEpoch + 1) /\ slots[slot[t]] <= global_epoch + 1
  BY <1>2, TypeFacts DEF EbrTypeOK, EpochInv
<1> QED BY <1>1, <1>2, <1>3, <1>4, TypeFacts

\* pin loads the epoch.
LEMMA PinLoadKeeps ==
  ASSUME EbrInv, NEW th \in EbrThreads, PinLoad(th)
  PROVE  EbrInv'
<1>1. MemKept
  BY TypeFacts, SameMem DEF PinLoad, collector
<1>2. QuietStep(th)
  <2>1. epc'[th] = "pin_store" /\ epoch'[th] = global_epoch /\ epc[th] = "idle"
    BY TypeFacts DEF PinLoad, EbrGoto, Set
  <2>2. ~ covered[th] /\ kept[th] = {}
    BY <2>1, TypeFacts DEF CoverInv, ListInv
  <2>3. ret' = [ret EXCEPT ![th] = ret[th]] /\ scan' = [scan EXCEPT ![th] = scan[th]]
        /\ ret[th] \in {"pinned", "idle"} /\ scan[th] \in SUBSET EbrSlots
    BY TypeFacts DEF PinLoad
  <2> QED BY <1>1, <2>1, <2>2, <2>3, TypeFacts DEF QuietStep, PinLoad, EbrGoto, Set, Guarded, Pinned, collector
<1> QED BY <1>2, QuietKeeps

\* retire_box stamps with the present epoch.
LEMMA RetireStampKeeps ==
  ASSUME EbrInv, NEW th \in EbrThreads, RetireStamp(th)
  PROVE  EbrInv'
<1>1. MemKept
  BY TypeFacts, SameMem DEF RetireStamp, collector
<1>2. QuietStep(th)
  <2>1. epc'[th] = "retire_push" /\ epoch'[th] = global_epoch /\ epc[th] = "retire_stamp"
    BY TypeFacts DEF RetireStamp, EbrGoto, Set
  <2>2. ~ covered[th] /\ kept[th] = {}
    BY <2>1, TypeFacts DEF CoverInv, ListInv
  <2>3. ret' = [ret EXCEPT ![th] = ret[th]] /\ scan' = [scan EXCEPT ![th] = scan[th]]
        /\ ret[th] \in {"pinned", "idle"} /\ scan[th] \in SUBSET EbrSlots
    BY TypeFacts DEF RetireStamp
  <2> QED BY <1>1, <2>1, <2>2, <2>3, TypeFacts DEF QuietStep, RetireStamp, EbrGoto, Set, Pinned, collector
<1> QED BY <1>2, QuietKeeps

\* collect is called by a thread without a guard.
LEMMA CollectCalledKeeps ==
  ASSUME EbrInv, NEW th \in EbrThreads, CollectCalled(th)
  PROVE  EbrInv'
<1>1. MemKept
  BY TypeFacts, SameMem DEF CollectCalled, collector
<1>2. QuietStep(th)
  <2>1. epc'[th] = "collect" /\ ret'[th] = "idle" /\ epc[th] = "idle"
    BY TypeFacts DEF CollectCalled, EbrGoto, Set
  <2>2. ~ covered[th] /\ kept[th] = {} /\ epoch[th] <= global_epoch
    BY <2>1, TypeFacts DEF CoverInv, ListInv, EpochInv
  <2>3. epoch' = [epoch EXCEPT ![th] = epoch[th]] /\ scan' = [scan EXCEPT ![th] = scan[th]]
        /\ epoch[th] \in 0..MaxEpoch /\ scan[th] \in SUBSET EbrSlots
    BY TypeFacts DEF CollectCalled
  <2> QED BY <1>1, <2>1, <2>2, <2>3, TypeFacts DEF QuietStep, CollectCalled, EbrGoto, Set, Pinned, collector
<1> QED BY <1>2, QuietKeeps

\* collect loads the epoch; it has all slots before it.
LEMMA CollectLoadKeeps ==
  ASSUME EbrInv, NEW th \in EbrThreads, CollectLoad(th)
  PROVE  EbrInv'
<1>1. MemKept
  BY TypeFacts, SameMem DEF CollectLoad, collector
<1>2. QuietStep(th)
  <2>1. /\ epc'[th] = "scan" /\ epoch'[th] = global_epoch /\ epc[th] = "collect"
        /\ scan'[th] = EbrSlots /\ global_epoch < MaxEpoch
    BY TypeFacts DEF CollectLoad, EbrGoto, Set
  <2>2. ~ covered[th] /\ kept[th] = {}
    BY <2>1, TypeFacts DEF CoverInv, ListInv
  <2>3. ret' = [ret EXCEPT ![th] = ret[th]] /\ ret[th] \in {"pinned", "idle"}
    BY TypeFacts DEF CollectLoad
  <2>4. \A t \in EbrThreads : covered[t] => slot[t] \in scan'[th]
    BY <2>1, CoveredPin
  <2> QED BY <1>1, <2>1, <2>2, <2>3, <2>4, TypeFacts DEF QuietStep, CollectLoad, EbrGoto, Set, Pinned, collector
<1> QED BY <1>2, QuietKeeps

\* collect looks at one slot: past a covered reader's only if its pin is current.
LEMMA CollectScanKeeps ==
  ASSUME EbrInv, NEW th \in EbrThreads, CollectScan(th)
  PROVE  EbrInv'
<1>1. MemKept
  BY TypeFacts, SameMem DEF CollectScan, collector
<1>2. QuietStep(th)
  <2>1. ~ covered[th] /\ kept[th] = {} /\ epc[th] = "scan" /\ epoch[th] < MaxEpoch /\ epoch[th] <= global_epoch
    BY TypeFacts DEF CoverInv, ListInv, CollectScan, EpochInv
  <2>2. ret' = [ret EXCEPT ![th] = ret[th]] /\ epoch' = [epoch EXCEPT ![th] = epoch[th]]
        /\ ret[th] \in {"pinned", "idle"} /\ epoch[th] \in 0..MaxEpoch
    BY TypeFacts DEF CollectScan
  <2>3. PICK s \in scan[th] :
          IF AllowsAdvance(SlotValue(th, s), epoch[th])
          THEN scan' = Set(scan, th, scan[th] \ {s}) /\ UNCHANGED epc
          ELSE EbrGoto(th, "now") /\ scan' = Set(scan, th, {})
    BY DEF CollectScan
  <2>4. CASE AllowsAdvance(SlotValue(th, s), epoch[th])
    <3>1. scan' = [scan EXCEPT ![th] = scan[th] \ {s}] /\ epc' = [epc EXCEPT ![th] = epc[th]] /\ epc' = epc
          /\ scan[th] \ {s} \in SUBSET EbrSlots /\ scan'[th] = scan[th] \ {s}
      BY <2>3, <2>4, TypeFacts DEF Set
    <3>2. ASSUME NEW t \in EbrThreads, covered[t], epoch[th] = global_epoch, slot[t] \notin scan'[th]
          PROVE  MayAdvance(t)
      <4>1. CASE slot[t] \notin scan[th]
        BY <2>1, <3>2, <4>1 DEF MayAdvance
      <4>2. CASE slot[t] = s
        <5>1. t # th /\ slot[t] \in EbrSlots /\ slots[slot[t]] # 0
          BY <2>1, <3>2, CoveredPin
        <5>2. slot[th] # slot[t]
          BY <5>1, TypeFacts, EbrAssumption DEF SlotInv
        <5>3. SlotValue(th, s) = slots[slot[t]]
          BY <4>2, <5>2 DEF SlotValue
        <5>4. slots[slot[t]] = global_epoch + 1
          BY <2>4, <3>2, <5>1, <5>3 DEF AllowsAdvance
        <5> QED BY <5>4 DEF MayAdvance
      <4> QED BY <3>1, <3>2, <4>1, <4>2
    <3>3. epc'[th] = "scan" /\ epoch'[th] = epoch[th]
      BY <2>1, <2>2, <3>1, TypeFacts
    <3>4. \A t \in EbrThreads : covered[t] /\ epc'[th] = "scan" /\ epoch'[th] = global_epoch
            /\ slot[t] \notin scan'[th] => MayAdvance(t)
      BY <3>2, <3>3
    <3>5. Pinned(th)' => Pinned(th)
      BY <2>2, <3>1, TypeFacts DEF Pinned
    <3> QED BY <1>1, <2>1, <2>2, <3>1, <3>3, <3>4, <3>5, TypeFacts DEF QuietStep, CollectScan, collector
  <2>5. CASE ~ AllowsAdvance(SlotValue(th, s), epoch[th])
    <3>1. scan' = [scan EXCEPT ![th] = {}] /\ epc' = [epc EXCEPT ![th] = "now"] /\ epc'[th] = "now"
          /\ epoch'[th] = epoch[th] /\ {} \in SUBSET EbrSlots
      BY <2>2, <2>3, <2>5, TypeFacts DEF Set, EbrGoto
    <3>2. Pinned(th)' => Pinned(th)
      BY <2>1, <2>2, <3>1, TypeFacts DEF Pinned
    <3> QED BY <1>1, <2>1, <2>2, <3>1, <3>2, TypeFacts DEF QuietStep, CollectScan, collector
  <2> QED BY <2>4, <2>5
<1> QED BY <1>2, QuietKeeps

\* collect loads the epoch it sweeps with.
LEMMA CollectNowKeeps ==
  ASSUME EbrInv, NEW th \in EbrThreads, CollectNow(th)
  PROVE  EbrInv'
<1>1. MemKept
  BY TypeFacts, SameMem DEF CollectNow, collector
<1>2. QuietStep(th)
  <2>1. epc'[th] = "sweep" /\ epoch'[th] = global_epoch /\ epc[th] = "now"
    BY TypeFacts DEF CollectNow, EbrGoto, Set
  <2>2. ~ covered[th] /\ kept[th] = {}
    BY <2>1, TypeFacts DEF CoverInv, ListInv
  <2>3. ret' = [ret EXCEPT ![th] = ret[th]] /\ scan' = [scan EXCEPT ![th] = scan[th]]
        /\ ret[th] \in {"pinned", "idle"} /\ scan[th] \in SUBSET EbrSlots
    BY TypeFacts DEF CollectNow
  <2> QED BY <1>1, <2>1, <2>2, <2>3, TypeFacts DEF QuietStep, CollectNow, EbrGoto, Set, Pinned, collector
<1> QED BY <1>2, QuietKeeps

\* collect returns.
LEMMA CollectDoneKeeps ==
  ASSUME EbrInv, NEW th \in EbrThreads, CollectDone(th)
  PROVE  EbrInv'
<1>1. MemKept
  BY TypeFacts, SameMem DEF CollectDone, collector
<1>2. QuietStep(th)
  <2>1. epc'[th] = ret[th] /\ epc[th] = "keep" /\ kept[th] = {} /\ ret[th] \in {"pinned", "idle"}
    BY TypeFacts DEF CollectDone, EbrGoto, Set
  <2>2. ~ covered[th] /\ epoch[th] <= global_epoch
    BY <2>1, TypeFacts DEF CoverInv, EpochInv
  <2>3. /\ ret' = [ret EXCEPT ![th] = ret[th]] /\ scan' = [scan EXCEPT ![th] = scan[th]]
        /\ epoch' = [epoch EXCEPT ![th] = epoch[th]] /\ scan[th] \in SUBSET EbrSlots
        /\ epoch[th] \in 0..MaxEpoch
    BY TypeFacts DEF CollectDone
  <2>4. /\ UNCHANGED <<global_epoch, next_slot, garbage, cell, held, kept, allocated, freed, covered>>
        /\ retires_since_collect' \in {0, retires_since_collect}
    BY DEF CollectDone
  <2>5. \E l \in {"idle", "pin_store", "pinned", "retire_stamp", "retire_push", "collect", "scan",
               "now", "sweep", "keep", epc[th]} : epc' = [epc EXCEPT ![th] = l]
    BY <2>1 DEF CollectDone, EbrGoto
  <2>6. Pinned(th)' => Pinned(th)
    BY <2>1, TypeFacts DEF Pinned
  <2> QED BY <1>1, <2>1, <2>2, <2>3, <2>4, <2>5, <2>6, TypeFacts DEF QuietStep
<1> QED BY <1>2, QuietKeeps

\* A buffered store reaches memory.
LEMMA FlushKeeps ==
  ASSUME EbrInv, NEW th \in EbrThreads, FlushPin(th)
  PROVE  EbrInv'
<1>1. MemKept
  BY TypeFacts, FlushKeepsMem
<1>2. QuietStep(th)
  <2>1. UNCHANGED <<global_epoch, next_slot, garbage, retires_since_collect, cell, epc, epoch, held,
                    scan, kept, allocated, ret, freed, covered>>
    BY DEF FlushPin
  <2>2. /\ epc' = [epc EXCEPT ![th] = epc[th]] /\ ret' = [ret EXCEPT ![th] = ret[th]]
        /\ epoch' = [epoch EXCEPT ![th] = epoch[th]] /\ scan' = [scan EXCEPT ![th] = scan[th]]
        /\ ret[th] \in {"pinned", "idle"} /\ epoch[th] \in 0..MaxEpoch /\ scan[th] \in SUBSET EbrSlots
    BY <2>1, TypeFacts
  <2>3. /\ epc[th] # "keep" => kept[th] = {}
        /\ covered[th] => epc[th] = "pinned"
        /\ epc[th] = "pin_store" => th \in Guarded
        /\ epoch[th] <= global_epoch /\ (epc[th] = "scan" => epoch[th] < MaxEpoch)
    BY TypeFacts DEF ListInv, CoverInv, SlotInv, EpochInv
  <2>4. Pinned(th)' => Pinned(th)
    BY <2>1 DEF Pinned
  <2>5. \A t \in EbrThreads : covered[t] /\ epc[th] = "scan" /\ epoch[th] = global_epoch
       /\ slot[t] \notin scan[th] => MayAdvance(t)
    BY DEF MayAdvance
  <2> QED BY <1>1, <2>1, <2>2, <2>3, <2>4, <2>5 DEF QuietStep
<1> QED BY <1>2, QuietKeeps

-----------------------------------------------------------------------------
(* register, and the stores of pin and unpin *)

\* A thread gets a slot nobody has, or none.
LEMMA RegisterKeeps ==
  ASSUME EbrInv, NEW th \in EbrThreads, Register(th)
  PROVE  EbrInv'
<1>0. /\ epc[th] = "start" /\ next_slot' = next_slot + 1 /\ next_slot \in Nat
      /\ UNCHANGED <<global_epoch, slots, garbage, retires_since_collect, cell, pin_sb, epoch,
                     held, scan, kept, allocated, ret, freed, covered>>
      /\ slot \in [EbrThreads -> EbrSlots \union {Nothing}] /\ MAX_EBR_SLOTS \in Nat
  BY TypeFacts, EbrAssumption DEF Register, EbrTypeOK
<1>1. PICK l \in {"idle", "SlotsExhausted"} : epc' = [epc EXCEPT ![th] = l]
  BY DEF Register, EbrGoto
<1>2. /\ epc'[th] = l /\ \A t \in EbrThreads : t # th => epc'[t] = epc[t] /\ slot'[t] = slot[t]
      /\ l = "idle" => slot'[th] = next_slot /\ slot'[th] \in EbrSlots
      /\ l = "SlotsExhausted" => slot' = slot
      /\ slot' \in [EbrThreads -> EbrSlots \union {Nothing}]
  <2>1. CASE SlotAvailable(next_slot)
    <3>1. next_slot \in EbrSlots
      BY <1>0, <2>1 DEF SlotAvailable, EbrSlots
    <3>2. slot' = [slot EXCEPT ![th] = next_slot] /\ epc' = [epc EXCEPT ![th] = "idle"]
      BY <2>1 DEF Register, Set, EbrGoto
    <3> QED BY <1>0, <1>1, <3>1, <3>2, TypeFacts
  <2>2. CASE ~ SlotAvailable(next_slot)
    <3>1. slot' = slot /\ epc' = [epc EXCEPT ![th] = "SlotsExhausted"]
      BY <2>2 DEF Register, EbrGoto
    <3> QED BY <1>0, <1>1, <3>1, TypeFacts
  <2> QED BY <2>1, <2>2
<1>3. /\ IsFiniteSet({t \in EbrThreads : epc[t] = "start"})
      /\ Cardinality({t \in EbrThreads : epc'[t] = "start"}) = Cardinality({t \in EbrThreads : epc[t] = "start"}) - 1
      /\ Cardinality({t \in EbrThreads : epc[t] = "start"}) \in Nat \ {0}
  <2>1. PICK S : S = {t \in EbrThreads : epc[t] = "start"}
    OBVIOUS
  <2>2. S \in SUBSET EbrThreads /\ th \in S /\ {t \in EbrThreads : epc'[t] = "start"} = S \ {th}
    BY <1>0, <1>1, <1>2, <2>1
  <2>3. IsFiniteSet(S)
    BY <2>2, EbrAssumption, FS_Subset
  <2>4. Cardinality(S \ {th}) = Cardinality(S) - 1 /\ Cardinality(S) \in Nat /\ Cardinality(S \ {th}) \in Nat
    <3>1. IsFiniteSet(S \ {th})
      BY <2>3, FS_RemoveElement
    <3>2. Cardinality(S \ {th}) = Cardinality(S) - 1
      BY <2>2, <2>3, FS_RemoveElement
    <3>3. Cardinality(S) \in Nat /\ Cardinality(S \ {th}) \in Nat
      BY <2>3, <3>1, FS_CardinalityType
    <3> QED BY <3>2, <3>3
  <2>5. Cardinality(S) \in Nat \ {0}
    BY <2>4
  <2>6. Cardinality({t \in EbrThreads : epc'[t] = "start"}) = Cardinality({t \in EbrThreads : epc[t] = "start"}) - 1
    BY <2>1, <2>2, <2>4, Zenon
  <2> QED BY <2>1, <2>3, <2>5, <2>6, Zenon
<1>4. Cardinality(EbrThreads) \in Nat
  BY EbrAssumption, FS_CardinalityType
<1>5. next_slot' \in 0..Cardinality(EbrThreads)
  BY <1>0, <1>3, <1>4, TypeFacts DEF CountInv
<1>6. EbrTypeOK'
  <2>1. epc' \in [EbrThreads -> {"start", "idle", "SlotsExhausted", "pin_store", "pinned",
               "retire_stamp", "retire_push", "collect", "scan", "now", "sweep", "keep",
               "dropped"}]
    BY <1>1, TypeFacts
  <2> QED BY <1>0, <1>2, <1>5, <2>1, TypeFacts DEF EbrTypeOK
<1>7. /\ \A t \in EbrThreads : epc'[t] \in {"retire_stamp", "retire_push"}
                              <=> epc[t] \in {"retire_stamp", "retire_push"}
      /\ \A t \in EbrThreads : epc'[t] # "keep" => kept[t] = {}
      /\ \A t \in EbrThreads : epc'[t] = "dropped" => epc[t] = "dropped"
      /\ \A t \in EbrThreads : epc'[t] = "scan" => epc[t] = "scan"
      /\ \A t \in EbrThreads : epc'[t] = "retire_push" => epc[t] = "retire_push"
      /\ \A t \in EbrThreads : Pinned(t)' => Pinned(t) /\ t # th
  BY <1>0, <1>1, <1>2, TypeFacts DEF Pinned, ListInv
<1>8. ListInv' /\ Unlinked' = Unlinked /\ Limbo' = Limbo
  BY <1>0, <1>7, ListKept
<1>9. CountInv'
  BY <1>0, <1>3, <1>4, <1>8, TypeFacts DEF CountInv
<1>10. SlotInv'
  <2>1. \A t \in EbrThreads : slot'[t] # Nothing => slot'[t] < next_slot'
    <3> TAKE t \in EbrThreads
    <3>1. slot[t] \in EbrSlots \union {Nothing} /\ (slot[t] # Nothing => slot[t] < next_slot)
      BY <1>0, TypeFacts DEF SlotInv
    <3>2. CASE t = th /\ l = "idle"
      BY <1>0, <1>2, <3>2
    <3>3. CASE slot'[t] = slot[t]
      BY <1>0, <3>1, <3>3 DEF EbrSlots
    <3> QED BY <1>2, <3>2, <3>3
  <2>2. \A a, b \in EbrThreads : slot'[a] = slot'[b] /\ slot'[a] # Nothing => a = b
    <3> SUFFICES ASSUME NEW a \in EbrThreads, NEW b \in EbrThreads, slot'[a] = slot'[b],
                        slot'[a] # Nothing, a # b
                 PROVE  FALSE
      OBVIOUS
    <3>1. \A t \in EbrThreads : slot[t] # Nothing => slot[t] < next_slot
      BY TypeFacts DEF SlotInv
    <3>2. \A t \in EbrThreads : slot[t] # next_slot \/ next_slot = Nothing
      BY <1>0, <3>1
    <3> QED BY <1>2, <3>2, TypeFacts DEF SlotInv
  <2>3. \A t \in EbrThreads : t \in Guarded /\ epc'[t] \notin {"start", "SlotsExhausted", "dropped"}
          => slot'[t] \in EbrSlots
    BY <1>1, <1>2, TypeFacts DEF SlotInv
  <2>4. \A t \in EbrThreads : epc'[t] \in {"start", "pin_store"} \/ Pinned(t)' => t \in Guarded
    BY <1>1, <1>2, <1>7, TypeFacts DEF SlotInv
  <2>5. \A t \in EbrThreads : pin_sb'[t] # <<>> => slot'[t] \in EbrSlots
    BY <1>0, <1>1, <1>2, TypeFacts DEF SlotInv
  <2> QED BY <2>1, <2>2, <2>3, <2>4, <2>5 DEF SlotInv
<1>11. EpochInv'
  <2>1. \A t \in EbrThreads : Pinned(t)' => Youngest(t)' # 0
    BY <1>0, <1>2, <1>7, TypeFacts DEF EpochInv, Youngest
  <2> QED BY <1>0, <1>7, <2>1, TypeFacts DEF EpochInv
<1>12. CoverSteady
  <2>1. \A t \in EbrThreads : covered'[t] =>
       /\ covered[t] /\ slot'[t] = slot[t] /\ epc'[t] = "pinned" /\ pin_sb'[t] = <<>> /\ held'[t] = held[t]
       /\ slots'[slot[t]] = slots[slot[t]] /\ freed'[held[t]] = 0
    BY <1>0, <1>2, TypeFacts DEF CoverInv
  <2>2. \A t, k \in EbrThreads : epc'[k] = "scan" /\ epoch'[k] = global_epoch /\ slot[t] \notin scan'[k]
            => MayAdvance(t)
    BY <1>0, <1>7 DEF MayAdvance
  <2> QED BY <1>0, <1>7, <1>8, <2>1, <2>2, TypeFacts DEF CoverSteady
<1> QED BY <1>6, <1>8, <1>9, <1>10, <1>11, <1>12, CoverKept DEF EbrInv

\* A store enters the buffer: it becomes the thread's youngest.
LEMMA StoreFacts ==
  ASSUME EbrInv, NEW th \in EbrThreads, NEW v \in 0..(MaxEpoch + 1), v <= global_epoch + 1,
         StoreSlot(th, v)
  PROVE  /\ pin_sb' \in [EbrThreads -> Seq(0..(MaxEpoch + 1))]
         /\ \A t \in EbrThreads : Len(pin_sb'[t]) <= BufferDepth
         /\ \A t \in EbrThreads : \A i \in DOMAIN pin_sb'[t] : pin_sb'[t][i] <= global_epoch + 1
         /\ pin_sb'[th] # <<>> /\ Last(pin_sb'[th]) = v
         /\ \A t \in EbrThreads : t # th => pin_sb'[t] = pin_sb[t]
<1>0. /\ pin_sb \in [EbrThreads -> Seq(0..(MaxEpoch + 1))] /\ pin_sb[th] \in Seq(0..(MaxEpoch + 1))
      /\ \A t \in EbrThreads : Len(pin_sb[t]) <= BufferDepth
      /\ BufferDepth \in Nat
  BY TypeFacts, EbrAssumption DEF EbrTypeOK
<1>1. PICK n \in Nat : n = Len(pin_sb[th]) /\ n < BufferDepth
  BY <1>0 DEF StoreSlot
<1>2. /\ Append(pin_sb[th], v) \in Seq(0..(MaxEpoch + 1)) /\ Len(Append(pin_sb[th], v)) = n + 1
      /\ \A i \in 1..n : Append(pin_sb[th], v)[i] = pin_sb[th][i]
      /\ Append(pin_sb[th], v)[n + 1] = v
  BY <1>0, <1>1, AppendProperties
<1>3. pin_sb' = [pin_sb EXCEPT ![th] = Append(pin_sb[th], v)]
  BY DEF StoreSlot
<1>4. pin_sb'[th] = Append(pin_sb[th], v) /\ \A t \in EbrThreads : t # th => pin_sb'[t] = pin_sb[t]
  BY <1>0, <1>3
<1>5. pin_sb' \in [EbrThreads -> Seq(0..(MaxEpoch + 1))]
  BY <1>0, <1>2, <1>3
<1>6. \A t \in EbrThreads : Len(pin_sb'[t]) <= BufferDepth
  <2>1. n + 1 <= BufferDepth
    BY <1>0, <1>1
  <2> QED BY <1>0, <1>2, <1>4, <2>1
<1>7. \A t \in EbrThreads : \A i \in DOMAIN pin_sb'[t] : pin_sb'[t][i] <= global_epoch + 1
  <2>1. \A i \in 1..n : pin_sb[th][i] <= global_epoch + 1
    BY <1>0, <1>1, TypeFacts DEF EpochInv
  <2>2. DOMAIN pin_sb'[th] = 1..(n + 1)
    BY <1>2, <1>4
  <2>3. \A i \in DOMAIN pin_sb'[th] : pin_sb'[th][i] <= global_epoch + 1
    BY <1>2, <1>4, <2>1, <2>2
  <2> QED BY <1>4, <2>3, TypeFacts DEF EpochInv
<1>8. pin_sb'[th] # <<>> /\ Last(pin_sb'[th]) = v
  BY <1>2, <1>4 DEF Last
<1> QED BY <1>4, <1>5, <1>6, <1>7, <1>8

\* pin publishes its epoch plus one.
LEMMA PinStoreKeeps ==
  ASSUME EbrInv, NEW th \in EbrThreads, PinStore(th)
  PROVE  EbrInv'
<1>0. /\ epc[th] = "pin_store" /\ epc' = [epc EXCEPT ![th] = "pinned"] /\ StoreSlot(th, epoch[th] + 1)
      /\ UNCHANGED <<global_epoch, slots, next_slot, garbage, retires_since_collect, cell, slot,
                     epoch, held, scan, kept, allocated, ret, freed, covered>>
  BY DEF PinStore, EbrGoto, collector
<1>1. PICK v \in 0..(MaxEpoch + 1) : v = epoch[th] + 1 /\ v # 0 /\ v <= global_epoch + 1
  BY TypeFacts DEF EpochInv
<1>2. /\ pin_sb' \in [EbrThreads -> Seq(0..(MaxEpoch + 1))]
      /\ \A t \in EbrThreads : Len(pin_sb'[t]) <= BufferDepth
      /\ \A t \in EbrThreads : \A i \in DOMAIN pin_sb'[t] : pin_sb'[t][i] <= global_epoch + 1
      /\ pin_sb'[th] # <<>> /\ Last(pin_sb'[th]) = v
      /\ \A t \in EbrThreads : t # th => pin_sb'[t] = pin_sb[t]
  <2>1. StoreSlot(th, v)
    BY <1>0, <1>1
  <2> QED BY <1>1, <2>1, StoreFacts
<1>3. epc'[th] = "pinned" /\ \A t \in EbrThreads : t # th => epc'[t] = epc[t]
  BY <1>0, TypeFacts
<1>4. ~ covered[th] /\ th \in Guarded /\ slot[th] \in EbrSlots
  BY <1>0, TypeFacts DEF CoverInv, SlotInv
<1>5. EbrTypeOK'
  <2>1. epc' \in [EbrThreads -> {"start", "idle", "SlotsExhausted", "pin_store", "pinned",
               "retire_stamp", "retire_push", "collect", "scan", "now", "sweep", "keep",
               "dropped"}]
    BY <1>0, TypeFacts
  <2> QED BY <1>0, <1>2, <2>1, TypeFacts DEF EbrTypeOK
<1>6. ListInv' /\ Unlinked' = Unlinked /\ Limbo' = Limbo
  <2>1. /\ \A t \in EbrThreads : epc'[t] \in {"retire_stamp", "retire_push"}
                              <=> epc[t] \in {"retire_stamp", "retire_push"}
        /\ \A t \in EbrThreads : epc'[t] # "keep" => kept[t] = {}
        /\ \A t \in EbrThreads : epc'[t] = "dropped" => epc[t] = "dropped"
    BY <1>0, <1>3, TypeFacts DEF ListInv
  <2> QED BY <1>0, <2>1, ListKept
<1>7. CountInv'
  <2>1. \A t \in EbrThreads : epc'[t] = "start" <=> epc[t] = "start"
    BY <1>0, <1>3
  <2> QED BY <1>0, <1>6, <2>1, CountKept
<1>8. SlotInv'
  <2>1. \A t \in EbrThreads : Pinned(t)' => Pinned(t) \/ t = th
    BY <1>0, <1>3 DEF Pinned
  <2>2. \A t \in EbrThreads : epc'[t] \in {"start", "pin_store"} \/ Pinned(t)' => t \in Guarded
    BY <1>3, <1>4, <2>1, TypeFacts DEF SlotInv
  <2> QED BY <1>0, <1>2, <1>3, <1>4, <2>2, TypeFacts DEF SlotInv
<1>9. EpochInv'
  <2>1. \A t \in EbrThreads : Pinned(t)' => Youngest(t)' # 0
    <3> TAKE t \in EbrThreads
    <3>1. CASE t = th
      BY <1>1, <1>2, <3>1 DEF Youngest
    <3>2. CASE t # th
      BY <1>0, <1>2, <1>3, <3>2, TypeFacts DEF Youngest, Pinned, EpochInv
    <3> QED BY <3>1, <3>2
  <2>2. \A t \in EbrThreads : epc'[t] = "scan" => epoch'[t] < MaxEpoch
    BY <1>0, <1>3, TypeFacts DEF EpochInv
  <2> QED BY <1>0, <1>2, <2>1, <2>2, TypeFacts DEF EpochInv
<1>10. CoverSteady
  <2>1. \A t \in EbrThreads : covered'[t] =>
       /\ covered[t] /\ slot'[t] = slot[t] /\ epc'[t] = "pinned" /\ pin_sb'[t] = <<>> /\ held'[t] = held[t]
       /\ slots'[slot[t]] = slots[slot[t]] /\ freed'[held[t]] = 0
    BY <1>0, <1>2, <1>3, <1>4, TypeFacts DEF CoverInv
  <2>2. \A t, k \in EbrThreads : epc'[k] = "scan" /\ epoch'[k] = global_epoch /\ slot[t] \notin scan'[k]
            => MayAdvance(t)
    BY <1>0, <1>3 DEF MayAdvance
  <2>3. \A w \in EbrThreads : epc'[w] = "retire_push" => epc[w] = "retire_push"
    BY <1>3
  <2> QED BY <1>0, <1>6, <2>1, <2>2, <2>3, TypeFacts DEF CoverSteady
<1> QED BY <1>5, <1>6, <1>7, <1>8, <1>9, <1>10, CoverKept DEF EbrInv

\* The guard is dropped.
LEMMA UnpinKeeps ==
  ASSUME EbrInv, NEW th \in EbrThreads, Unpin(th)
  PROVE  EbrInv'
<1>0. /\ epc[th] = "pinned" /\ epc' = [epc EXCEPT ![th] = "idle"] /\ StoreSlot(th, 0)
      /\ held' = [held EXCEPT ![th] = Nothing] /\ covered' = [covered EXCEPT ![th] = FALSE]
      /\ UNCHANGED <<global_epoch, slots, next_slot, garbage, retires_since_collect, cell, slot,
                     epoch, scan, kept, allocated, ret, freed>>
  BY DEF Unpin, EbrGoto, Set, collector
<1>2. /\ pin_sb' \in [EbrThreads -> Seq(0..(MaxEpoch + 1))]
      /\ \A t \in EbrThreads : Len(pin_sb'[t]) <= BufferDepth
      /\ \A t \in EbrThreads : \A i \in DOMAIN pin_sb'[t] : pin_sb'[t][i] <= global_epoch + 1
      /\ \A t \in EbrThreads : t # th => pin_sb'[t] = pin_sb[t]
  <2>1. 0 \in 0..(MaxEpoch + 1) /\ 0 <= global_epoch + 1
    BY TypeFacts
  <2> QED BY <1>0, <2>1, StoreFacts
<1>3. /\ epc'[th] = "idle" /\ ~ covered'[th]
      /\ \A t \in EbrThreads : t # th => epc'[t] = epc[t] /\ held'[t] = held[t] /\ covered'[t] = covered[t]
  BY <1>0, TypeFacts
<1>4. slot[th] \in EbrSlots
  BY <1>0, TypeFacts DEF SlotInv, Pinned
<1>5. EbrTypeOK'
  <2>1. epc' \in [EbrThreads -> {"start", "idle", "SlotsExhausted", "pin_store", "pinned",
               "retire_stamp", "retire_push", "collect", "scan", "now", "sweep", "keep",
               "dropped"}]
    BY <1>0, TypeFacts
  <2>2. held' \in [EbrThreads -> Objects \union {Nothing}] /\ covered' \in [EbrThreads -> BOOLEAN]
    BY <1>0, TypeFacts
  <2> QED BY <1>0, <1>2, <2>1, <2>2, TypeFacts DEF EbrTypeOK
<1>6. ListInv' /\ Unlinked' = Unlinked /\ Limbo' = Limbo
  <2>1. /\ \A t \in EbrThreads : epc'[t] \in {"retire_stamp", "retire_push"}
                              <=> epc[t] \in {"retire_stamp", "retire_push"}
        /\ \A t \in EbrThreads : epc'[t] # "keep" => kept[t] = {}
        /\ \A t \in EbrThreads : epc'[t] = "dropped" => epc[t] = "dropped"
        /\ \A t \in Unlinked : held'[t] = held[t]
    BY <1>0, <1>3, TypeFacts DEF ListInv, Unlinked
  <2> QED BY <1>0, <2>1, ListKept
<1>7. CountInv'
  <2>1. \A t \in EbrThreads : epc'[t] = "start" <=> epc[t] = "start"
    BY <1>0, <1>3
  <2> QED BY <1>0, <1>6, <2>1, CountKept
<1>8. \A t \in EbrThreads : Pinned(t)' => Pinned(t) /\ t # th
  BY <1>0, <1>3 DEF Pinned
<1>9. SlotInv'
  <2>2. \A t \in EbrThreads : epc'[t] \in {"start", "pin_store"} \/ Pinned(t)' => t \in Guarded
    BY <1>3, <1>8, TypeFacts DEF SlotInv
  <2> QED BY <1>0, <1>2, <1>3, <1>4, <2>2, TypeFacts DEF SlotInv
<1>10. EpochInv'
  <2>1. \A t \in EbrThreads : Pinned(t)' => Youngest(t)' # 0
    BY <1>0, <1>2, <1>8, TypeFacts DEF Youngest, EpochInv
  <2>2. \A t \in EbrThreads : epc'[t] = "scan" => epoch'[t] < MaxEpoch
    BY <1>0, <1>3, TypeFacts DEF EpochInv
  <2> QED BY <1>0, <1>2, <2>1, <2>2, TypeFacts DEF EpochInv
<1>11. CoverSteady
  <2>1. \A t \in EbrThreads : covered'[t] =>
       /\ covered[t] /\ slot'[t] = slot[t] /\ epc'[t] = "pinned" /\ pin_sb'[t] = <<>> /\ held'[t] = held[t]
       /\ slots'[slot[t]] = slots[slot[t]] /\ freed'[held[t]] = 0
    <3> SUFFICES ASSUME NEW t \in EbrThreads, covered'[t]
                 PROVE  /\ covered[t] /\ slot'[t] = slot[t] /\ epc'[t] = "pinned" /\ pin_sb'[t] = <<>>
                        /\ held'[t] = held[t] /\ slots'[slot[t]] = slots[slot[t]]
                        /\ freed'[held[t]] = 0
      OBVIOUS
    <3>1. t # th /\ covered[t] /\ epc'[t] = epc[t] /\ held'[t] = held[t] /\ pin_sb'[t] = pin_sb[t]
      BY <1>2, <1>3
    <3>2. epc[t] = "pinned" /\ pin_sb[t] = <<>> /\ freed[held[t]] = 0
      BY <3>1, TypeFacts DEF CoverInv
    <3>3. UNCHANGED <<slot, slots, freed>>
      BY <1>0
    <3> QED BY <3>1, <3>2, <3>3
  <2>2. \A t, k \in EbrThreads : epc'[k] = "scan" /\ epoch'[k] = global_epoch /\ slot[t] \notin scan'[k]
            => MayAdvance(t)
    BY <1>0, <1>3 DEF MayAdvance
  <2>3. \A w \in EbrThreads : epc'[w] = "retire_push" => epc[w] = "retire_push" /\ held'[w] = held[w]
    BY <1>3
  <2> QED BY <1>0, <1>6, <2>1, <2>2, <2>3, TypeFacts DEF CoverSteady
<1> QED BY <1>5, <1>6, <1>7, <1>9, <1>10, <1>11, CoverKept DEF EbrInv

\* A reader that loads the published pointer refers to something that is not retired yet.
LEMMA ReadKeeps ==
  ASSUME EbrInv, NEW th \in EbrThreads, Read(th)
  PROVE  EbrInv'
<1>0. /\ th \in Readers /\ epc[th] = "pinned" /\ held[th] = Nothing
      /\ held' = [held EXCEPT ![th] = cell] /\ covered' = [covered EXCEPT ![th] = (pin_sb[th] = <<>>)]
      /\ UNCHANGED <<global_epoch, slots, next_slot, garbage, retires_since_collect, cell, pin_sb, slot,
                     epc, epoch, scan, kept, allocated, ret, freed>>
  BY DEF Read, Set, collector
<1>1. /\ held'[th] = cell /\ covered'[th] = (pin_sb[th] = <<>>)
      /\ \A t \in EbrThreads : t # th => held'[t] = held[t] /\ covered'[t] = covered[t]
  BY <1>0, TypeFacts
<1>2. EbrTypeOK'
  <2>1. held' \in [EbrThreads -> Objects \union {Nothing}] /\ covered' \in [EbrThreads -> BOOLEAN]
    BY <1>0, TypeFacts
  <2> QED BY <1>0, <2>1, TypeFacts DEF EbrTypeOK
<1>3. ListInv' /\ Unlinked' = Unlinked /\ Limbo' = Limbo
  <2>1. \A t \in Unlinked : held'[t] = held[t]
    BY <1>0, <1>1 DEF Unlinked
  <2> QED BY <1>0, <2>1, TypeFacts, ListKept DEF ListInv
<1>4. CountInv'
  BY <1>0, <1>3, CountKept
<1>5. SlotInv' /\ EpochInv'
  BY <1>0, TypeFacts DEF SlotInv, EpochInv, Pinned, Youngest
<1>6. CoverInv'
  <2> SUFFICES ASSUME NEW t \in EbrThreads, covered'[t]
               PROVE  /\ t \in Readers /\ epc[t] = "pinned" /\ pin_sb[t] = <<>> /\ held'[t] \in 1..allocated
                      /\ freed[held'[t]] = 0
                      /\ \A r \in Limbo : r.obj = held'[t] => Recent(r.stamp, t)
                      /\ \A w \in EbrThreads : epc[w] = "retire_push" /\ held'[w] = held'[t] =>
                           Recent(epoch[w], t)
    BY <1>0, <1>3 DEF CoverInv, Recent, MayAdvance
  <2>1. ASSUME NEW w \in EbrThreads, epc[w] = "retire_push" PROVE held'[w] = held[w] /\ w \in Unlinked
    BY <1>0, <1>1, <2>1 DEF Unlinked
  <2>2. CASE t = th
    <3>1. /\ cell \in 1..allocated /\ freed[cell] = 0 /\ \A r \in Limbo : r.obj # cell
          /\ \A a \in Unlinked : held[a] # cell
      BY TypeFacts DEF ListInv
    <3>2. held'[t] = cell /\ pin_sb[t] = <<>> /\ t \in Readers /\ epc[t] = "pinned"
      BY <1>0, <1>1, <2>2
    <3>3. \A w \in EbrThreads : epc[w] = "retire_push" => held'[w] # held'[t]
      BY <2>1, <3>1, <3>2
    <3> QED BY <3>1, <3>2, <3>3
  <2>3. CASE t # th
    BY <1>1, <2>1, <2>3, TypeFacts DEF CoverInv
  <2> QED BY <2>2, <2>3
<1> QED BY <1>2, <1>3, <1>4, <1>5, <1>6 DEF EbrInv

-----------------------------------------------------------------------------
(* An allocation is unlinked and retired *)

\* The threads between the unlink and the push are finitely many.
LEMMA UnlinkedFinite ==
  IsFiniteSet(Unlinked) /\ Cardinality(Unlinked) \in Nat
<1>1. Unlinked \in SUBSET EbrThreads
  BY DEF Unlinked
<1> QED BY <1>1, EbrAssumption, FS_Subset, FS_CardinalityType

\* The writer takes the published allocation and publishes a new one.
LEMMA SwapKeeps ==
  ASSUME EbrInv, NEW th \in EbrThreads, Swap(th)
  PROVE  EbrInv'
<1>0. /\ th \in Writers /\ epc[th] = "pinned" /\ held[th] = Nothing /\ allocated < MaxObj
      /\ allocated' = allocated + 1 /\ cell' = allocated + 1
      /\ held' = [held EXCEPT ![th] = cell] /\ epc' = [epc EXCEPT ![th] = "retire_stamp"]
      /\ UNCHANGED <<global_epoch, next_slot, garbage, retires_since_collect, slot, epoch,
                     scan, kept, ret, freed, covered>>
  BY DEF Swap, EbrGoto, Set
<1>1. MemKept
  BY TypeFacts, DrainKeepsMem DEF Swap
<1>2. /\ epc'[th] = "retire_stamp" /\ held'[th] = cell
      /\ \A t \in EbrThreads : t # th => epc'[t] = epc[t] /\ held'[t] = held[t]
  BY <1>0, TypeFacts
<1>3. allocated' \in Objects /\ cell' \in Objects
  BY <1>0, TypeFacts DEF Objects
<1>4. EbrTypeOK'
  <2>1. epc' \in [EbrThreads -> {"start", "idle", "SlotsExhausted", "pin_store", "pinned",
               "retire_stamp", "retire_push", "collect", "scan", "now", "sweep", "keep",
               "dropped"}]
    BY <1>0, TypeFacts
  <2>2. held' \in [EbrThreads -> Objects \union {Nothing}]
    BY <1>0, TypeFacts
  <2> QED BY <1>0, <1>1, <1>3, <2>1, <2>2, TypeFacts DEF EbrTypeOK, MemKept
<1>5. /\ Unlinked' = Unlinked \union {th} /\ th \notin Unlinked /\ Limbo' = Limbo
  BY <1>0, <1>2 DEF Unlinked, Limbo
<1>6. CountInv'
  <2>1. {t \in EbrThreads : epc'[t] = "start"} = {t \in EbrThreads : epc[t] = "start"}
    BY <1>0, <1>2
  <2>2. PICK U : U = Unlinked
    OBVIOUS
  <2>3. Cardinality(U \union {th}) = Cardinality(U) + 1
    BY <1>5, <2>2, UnlinkedFinite, FS_AddElement
  <2>4. Cardinality(Unlinked') = Cardinality(Unlinked) + 1 /\ Cardinality(Unlinked) \in Nat
    BY <1>5, <2>2, <2>3, UnlinkedFinite
  <2>5. retires_since_collect \in Nat
    BY TypeFacts DEF EbrTypeOK
  <2>6. retires_since_collect' + Cardinality(Unlinked') <= allocated' - 1
    BY <1>0, <2>4, <2>5, TypeFacts DEF CountInv
  <2>7. next_slot' + Cardinality({t \in EbrThreads : epc'[t] = "start"}) <= Cardinality(EbrThreads)
    BY <1>0, <2>1, TypeFacts DEF CountInv
  <2> QED BY <2>6, <2>7 DEF CountInv
<1>7. \A t \in EbrThreads : Pinned(t)' => Pinned(t)
  BY <1>0, <1>2 DEF Pinned
<1>8. SlotInv'
  <2>1. \A t \in EbrThreads : epc'[t] \in {"start", "pin_store"} \/ Pinned(t)' => t \in Guarded
    BY <1>2, <1>7, TypeFacts DEF SlotInv
  <2>2. \A t \in EbrThreads : t \in Guarded /\ epc'[t] \notin {"start", "SlotsExhausted", "dropped"}
          => slot'[t] \in EbrSlots
    BY <1>0, <1>2, TypeFacts DEF SlotInv
  <2>3. \A t \in EbrThreads : pin_sb'[t] # <<>> => slot'[t] \in EbrSlots
    BY <1>0, <1>1, TypeFacts DEF SlotInv, MemKept
  <2> QED BY <1>0, <2>1, <2>2, <2>3, TypeFacts DEF SlotInv
<1>9. EpochInv'
  <2>1. \A t \in EbrThreads : Pinned(t)' => Pinned(t) /\ slot[t] \in EbrSlots
    BY <1>7, TypeFacts DEF SlotInv, Pinned
  <2>2. \A t \in EbrThreads : epc'[t] = "scan" => epoch'[t] < MaxEpoch
    BY <1>0, <1>2, TypeFacts DEF EpochInv
  <2>3. \A t \in EbrThreads : epoch'[t] <= global_epoch'
    BY <1>0, TypeFacts DEF EpochInv
  <2> QED BY <1>0, <1>1, <2>1, <2>2, <2>3, TypeFacts, EpochKept
<1>10. ListInv'
  <2>0. ListInv /\ \A o \in 1..allocated : o \in 1..(allocated + 1) /\ o # allocated + 1
    BY TypeFacts
  <2>1. cell' \in 1..allocated' /\ freed'[cell'] = 0
    <3>1. freed[allocated + 1] \in {0, 1} /\ (freed[allocated + 1] = 1 => allocated + 1 <= allocated)
      BY <1>0, <1>3, TypeFacts DEF ListInv
    <3> QED BY <1>0, <3>1, TypeFacts
  <2>2. /\ \A r, q \in Limbo' : r.obj = q.obj => r = q
        /\ \A a \in EbrThreads : garbage' \cap kept'[a] = {}
        /\ \A a, b \in EbrThreads : a # b => kept'[a] \cap kept'[b] = {}
    BY <1>0, <1>5, <2>0 DEF ListInv
  <2>3. \A r \in Limbo' : r.obj \in 1..allocated' /\ r.obj # cell' /\ freed'[r.obj] = 0
    BY <1>0, <1>5, <2>0 DEF ListInv
  <2>4. \A a \in Unlinked' : /\ held'[a] \in 1..allocated' /\ held'[a] # cell' /\ freed'[held'[a]] = 0
                             /\ \A r \in Limbo' : r.obj # held'[a]
    BY <1>0, <1>2, <1>5, <2>0 DEF ListInv
  <2>5. \A a, b \in Unlinked' : held'[a] = held'[b] => a = b
    <3>1. \A a \in Unlinked : a \in EbrThreads /\ a # th /\ held'[a] = held[a] /\ held[a] # cell
      BY <1>2, <1>5, <2>0 DEF ListInv, Unlinked
    <3> QED BY <1>2, <1>5, <2>0, <3>1 DEF ListInv
  <2>6. \A o \in Objects : freed'[o] \in {0, 1} /\ (freed'[o] = 1 => o <= allocated')
    BY <1>0, <2>0, TypeFacts DEF ListInv, Objects
  <2>7. \A o \in 1..allocated' : o # cell' /\ freed'[o] = 0 =>
          (\E r \in Limbo' : r.obj = o) \/ (\E a \in Unlinked' : held'[a] = o)
    <3> SUFFICES ASSUME NEW o \in 1..allocated', o # cell', freed'[o] = 0
                 PROVE  (\E r \in Limbo' : r.obj = o) \/ (\E a \in Unlinked' : held'[a] = o)
      OBVIOUS
    <3>1. o \in 1..allocated
      BY <1>0, TypeFacts
    <3>2. CASE o = cell
      BY <1>2, <1>5, <3>2
    <3>3. CASE o # cell
      <4>1. (\E r \in Limbo : r.obj = o) \/ (\E a \in Unlinked : held[a] = o)
        BY <1>0, <2>0, <3>1, <3>3 DEF ListInv
      <4>2. \A a \in Unlinked : held'[a] = held[a]
        BY <1>2, <1>5 DEF Unlinked
      <4> QED BY <1>5, <4>1, <4>2
    <3> QED BY <3>2, <3>3
  <2>8. \A a \in EbrThreads : epc'[a] # "keep" => kept'[a] = {}
    BY <1>0, <1>2, <2>0 DEF ListInv
  <2>9. ~ \A a \in EbrThreads : epc'[a] = "dropped"
    BY <1>2
  <2> QED BY <2>1, <2>2, <2>3, <2>4, <2>5, <2>6, <2>7, <2>8, <2>9 DEF ListInv
<1>11. CoverSteady
  <2>1. ~ covered[th]
    BY <1>0, TypeFacts, EbrAssumption DEF CoverInv, Objects
  <2>2. \A t \in EbrThreads : covered'[t] =>
       /\ covered[t] /\ slot'[t] = slot[t] /\ epc'[t] = "pinned" /\ pin_sb'[t] = <<>> /\ held'[t] = held[t]
       /\ slots'[slot[t]] = slots[slot[t]] /\ freed'[held[t]] = 0
    BY <1>0, <1>1, <1>2, <2>1, CoveredPin, TypeFacts DEF CoverInv, MemKept
  <2>3. \A t, k \in EbrThreads : epc'[k] = "scan" /\ epoch'[k] = global_epoch /\ slot[t] \notin scan'[k]
            => MayAdvance(t)
    BY <1>0, <1>2 DEF MayAdvance
  <2>4. \A w \in EbrThreads : epc'[w] = "retire_push" => epc[w] = "retire_push" /\ held'[w] = held[w]
    BY <1>2
  <2>5. allocated' \in Nat /\ allocated <= allocated'
    BY <1>0, TypeFacts
  <2> QED BY <1>0, <1>5, <2>2, <2>3, <2>4, <2>5 DEF CoverSteady
<1> QED BY <1>4, <1>6, <1>8, <1>9, <1>10, <1>11, CoverKept DEF EbrInv

\* The unlinked allocation goes on the list, with the stamp the writer loaded.
LEMMA RetirePushKeeps ==
  ASSUME EbrInv, NEW th \in EbrThreads, RetirePush(th)
  PROVE  EbrInv'
<1>0. PICK new : new = [obj |-> held[th], stamp |-> epoch[th]]
  OBVIOUS
<1>1. PICK l \in {"collect", "pinned"} :
      /\ epc[th] = "retire_push" /\ epc' = [epc EXCEPT ![th] = l]
      /\ garbage' = garbage \union {new} /\ held' = [held EXCEPT ![th] = Nothing]
      /\ retires_since_collect' = retires_since_collect + 1 /\ ret' = [ret EXCEPT ![th] = "pinned"]
      /\ UNCHANGED <<global_epoch, slots, next_slot, cell, pin_sb, slot, epoch, scan, kept,
                     allocated, freed, covered>>
  BY <1>0 DEF RetirePush, EbrGoto, Set
<1>2. /\ epc'[th] = l /\ ret'[th] = "pinned"
      /\ \A t \in EbrThreads : t # th => epc'[t] = epc[t] /\ held'[t] = held[t] /\ ret'[t] = ret[t]
  BY <1>1, TypeFacts
<1>3. /\ Unlinked' = Unlinked \ {th} /\ th \in Unlinked /\ Limbo' = Limbo \union {new}
      /\ \A a \in Unlinked' : a \in Unlinked /\ a # th /\ held'[a] = held[a]
  BY <1>1, <1>2 DEF Unlinked, Limbo
<1>4. /\ new.obj = held[th] /\ new.stamp = epoch[th] /\ new \in Retired /\ new \notin Limbo
      /\ held[th] \in 1..allocated /\ held[th] # cell /\ freed[held[th]] = 0
      /\ \A r \in Limbo : r.obj # held[th]
  <2>1. /\ held[th] \in 1..allocated /\ held[th] # cell /\ freed[held[th]] = 0
        /\ \A r \in Limbo : r.obj # held[th]
    BY <1>3, TypeFacts DEF ListInv
  <2>2. held[th] \in Objects /\ epoch[th] \in 0..MaxEpoch
    BY <2>1, TypeFacts DEF Objects
  <2> QED BY <1>0, <2>1, <2>2 DEF Retired
<1>5. CountInv' /\ retires_since_collect' \in 0..MaxObj
  <2>1. {t \in EbrThreads : epc'[t] = "start"} = {t \in EbrThreads : epc[t] = "start"}
    BY <1>1, <1>2
  <2>2. PICK U : U = Unlinked
    OBVIOUS
  <2>3. Cardinality(U \ {th}) = Cardinality(U) - 1 /\ Cardinality(U) \in Nat /\ Cardinality(U \ {th}) \in Nat
    <3>1. IsFiniteSet(U \ {th})
      BY <2>2, UnlinkedFinite, FS_RemoveElement
    <3> QED BY <1>3, <2>2, <3>1, UnlinkedFinite, FS_RemoveElement, FS_CardinalityType
  <2>4. retires_since_collect \in Nat
    BY TypeFacts DEF EbrTypeOK
  <2>5. /\ retires_since_collect' + Cardinality(Unlinked') <= allocated' - 1
        /\ retires_since_collect' \in 0..MaxObj
    <3>1. PICK c \in Nat : c = Cardinality(Unlinked') /\ Cardinality(Unlinked) = c + 1
      BY <1>3, <2>2, <2>3
    <3>2. retires_since_collect + (c + 1) <= allocated - 1
      BY <3>1, TypeFacts DEF CountInv
    <3> QED BY <1>1, <2>4, <3>1, <3>2, TypeFacts
  <2>6. next_slot' + Cardinality({t \in EbrThreads : epc'[t] = "start"}) <= Cardinality(EbrThreads)
    BY <1>1, <2>1, TypeFacts DEF CountInv
  <2> QED BY <2>5, <2>6 DEF CountInv
<1>6. EbrTypeOK'
  <2>1. epc' \in [EbrThreads -> {"start", "idle", "SlotsExhausted", "pin_store", "pinned",
               "retire_stamp", "retire_push", "collect", "scan", "now", "sweep", "keep",
               "dropped"}]
    BY <1>1, TypeFacts
  <2>2. held' \in [EbrThreads -> Objects \union {Nothing}] /\ ret' \in [EbrThreads -> {"pinned", "idle"}]
    BY <1>1, TypeFacts
  <2>3. garbage' \subseteq Retired
    BY <1>1, <1>4, TypeFacts
  <2> QED BY <1>1, <1>5, <2>1, <2>2, <2>3, TypeFacts DEF EbrTypeOK
<1>7. \A t \in EbrThreads : Pinned(t)' => Pinned(t)
  BY <1>1, <1>2 DEF Pinned
<1>8. SlotInv'
  <2>1. \A t \in EbrThreads : epc'[t] \in {"start", "pin_store"} \/ Pinned(t)' => t \in Guarded
    BY <1>2, <1>7, TypeFacts DEF SlotInv
  <2>2. \A t \in EbrThreads : t \in Guarded /\ epc'[t] \notin {"start", "SlotsExhausted", "dropped"}
          => slot'[t] \in EbrSlots
    BY <1>1, <1>2, TypeFacts DEF SlotInv
  <2> QED BY <1>1, <2>1, <2>2, TypeFacts DEF SlotInv
<1>9. EpochInv'
  <2>1. \A t \in EbrThreads : epc'[t] = "scan" => epoch'[t] < MaxEpoch
    BY <1>1, <1>2, TypeFacts DEF EpochInv
  <2>2. \A t \in EbrThreads : Pinned(t)' => Youngest(t)' # 0
    BY <1>1, <1>7, TypeFacts DEF EpochInv, Youngest
  <2> QED BY <1>1, <2>1, <2>2, TypeFacts DEF EpochInv
<1>10. ListInv'
  <2>0. ListInv
    BY TypeFacts
  <2>1. cell' \in 1..allocated' /\ freed'[cell'] = 0
    BY <1>1, <2>0 DEF ListInv
  <2>2. \A r, q \in Limbo' : r.obj = q.obj => r = q
    BY <1>3, <1>4, <2>0 DEF ListInv
  <2>3. /\ \A a \in EbrThreads : garbage' \cap kept'[a] = {}
        /\ \A a, b \in EbrThreads : a # b => kept'[a] \cap kept'[b] = {}
    BY <1>1, <1>4, <2>0 DEF ListInv, Limbo
  <2>4. \A r \in Limbo' : r.obj \in 1..allocated' /\ r.obj # cell' /\ freed'[r.obj] = 0
    BY <1>1, <1>3, <1>4, <2>0 DEF ListInv
  <2>5. \A a \in Unlinked' : held'[a] \in 1..allocated' /\ held'[a] # cell' /\ freed'[held'[a]] = 0
    BY <1>1, <1>3, <2>0 DEF ListInv
  <2>6. \A a \in Unlinked' : \A r \in Limbo' : r.obj # held'[a]
    BY <1>3, <1>4, <2>0 DEF ListInv
  <2>7. \A a, b \in Unlinked' : held'[a] = held'[b] => a = b
    BY <1>3, <2>0 DEF ListInv
  <2>8. \A o \in Objects : freed'[o] \in {0, 1} /\ (freed'[o] = 1 => o <= allocated')
    BY <1>1, <2>0 DEF ListInv
  <2>9. \A o \in 1..allocated' : o # cell' /\ freed'[o] = 0 =>
          (\E r \in Limbo' : r.obj = o) \/ (\E a \in Unlinked' : held'[a] = o)
    <3> SUFFICES ASSUME NEW o \in 1..allocated, o # cell, freed[o] = 0
                 PROVE  (\E r \in Limbo' : r.obj = o) \/ (\E a \in Unlinked' : held'[a] = o)
      BY <1>1
    <3>1. CASE \E r \in Limbo : r.obj = o
      BY <1>3, <3>1
    <3>2. ASSUME NEW a \in Unlinked, held[a] = o PROVE (\E r \in Limbo' : r.obj = o) \/ (\E b \in Unlinked' : held'[b] = o)
      BY <1>3, <1>4, <3>2
    <3> QED BY <2>0, <3>1, <3>2 DEF ListInv
  <2>10. \A a \in EbrThreads : epc'[a] # "keep" => kept'[a] = {}
    BY <1>1, <1>2, <2>0 DEF ListInv
  <2>11. ~ \A a \in EbrThreads : epc'[a] = "dropped"
    BY <1>2
  <2> QED BY <2>1, <2>2, <2>3, <2>4, <2>5, <2>6, <2>7, <2>8, <2>9, <2>10, <2>11 DEF ListInv
<1>11. CoverSteady
  <2>1. ~ covered[th]
    BY <1>1, TypeFacts DEF CoverInv
  <2>2. \A t \in EbrThreads : covered'[t] =>
       /\ covered[t] /\ slot'[t] = slot[t] /\ epc'[t] = "pinned" /\ pin_sb'[t] = <<>> /\ held'[t] = held[t]
       /\ slots'[slot[t]] = slots[slot[t]] /\ freed'[held[t]] = 0
    BY <1>1, <1>2, <2>1, TypeFacts DEF CoverInv
  <2>3. \A t, k \in EbrThreads : epc'[k] = "scan" /\ epoch'[k] = global_epoch /\ slot[t] \notin scan'[k]
            => MayAdvance(t)
    BY <1>1, <1>2 DEF MayAdvance
  <2>4. \A w \in EbrThreads : epc'[w] = "retire_push" => epc[w] = "retire_push" /\ held'[w] = held[w]
    BY <1>1, <1>2
  <2>5. \A r \in Limbo' : r \in Limbo \/ \E w \in EbrThreads : epc[w] = "retire_push" /\ r.obj = held[w] /\ r.stamp = epoch[w]
    BY <1>1, <1>3, <1>4
  <2> QED BY <1>1, <2>2, <2>3, <2>4, <2>5, TypeFacts DEF CoverSteady
<1> QED BY <1>5, <1>6, <1>8, <1>9, <1>10, <1>11, CoverKept DEF EbrInv

-----------------------------------------------------------------------------
(* The epoch advances, garbage is swept *)

\* The advance: every slot was found unpinned or current, so each covered reader's pin is
\* of the epoch that ends here or collect read its slot before; no further advance is
\* possible until it is unpinned.
LEMMA CollectAdvanceKeeps ==
  ASSUME EbrInv, NEW th \in EbrThreads, CollectAdvance(th)
  PROVE  EbrInv'
<1>0. /\ epc[th] = "scan" /\ scan[th] = {} /\ epc' = [epc EXCEPT ![th] = "now"]
      /\ global_epoch' = IF global_epoch = epoch[th] THEN epoch[th] + 1 ELSE global_epoch
      /\ UNCHANGED <<next_slot, garbage, retires_since_collect, cell, slot, epoch, held, scan,
                     kept, allocated, ret, freed, covered>>
  BY DEF CollectAdvance, EbrGoto, Set
<1>1. MemKept
  BY TypeFacts, DrainKeepsMem DEF CollectAdvance
<1>2. /\ epc'[th] = "now" /\ \A t \in EbrThreads : t # th => epc'[t] = epc[t]
      /\ epc' \in [EbrThreads -> {"start", "idle", "SlotsExhausted", "pin_store", "pinned",
               "retire_stamp", "retire_push", "collect", "scan", "now", "sweep", "keep",
               "dropped"}]
  BY <1>0, TypeFacts
<1>3. ~ covered[th] /\ kept[th] = {} /\ epoch[th] < MaxEpoch /\ epoch[th] <= global_epoch
  BY <1>0, TypeFacts DEF CoverInv, ListInv, EpochInv
<1>4. global_epoch' \in 0..MaxEpoch /\ global_epoch' \in Nat /\ global_epoch <= global_epoch'
  BY <1>0, <1>3, TypeFacts
<1>5. EbrTypeOK'
  BY <1>0, <1>1, <1>2, <1>4, TypeFacts DEF EbrTypeOK, MemKept
<1>6. \A t \in EbrThreads : Pinned(t)' => Pinned(t)
  BY <1>0, <1>2 DEF Pinned
<1>7. SlotInv'
  <2>1. \A t \in EbrThreads : epc'[t] \in {"start", "pin_store"} \/ Pinned(t)' => t \in Guarded
    BY <1>2, <1>6, TypeFacts DEF SlotInv
  <2>2. \A t \in EbrThreads : t \in Guarded /\ epc'[t] \notin {"start", "SlotsExhausted", "dropped"}
          => slot'[t] \in EbrSlots
    BY <1>0, <1>2, TypeFacts DEF SlotInv
  <2>3. \A t \in EbrThreads : pin_sb'[t] # <<>> => slot'[t] \in EbrSlots
    BY <1>0, <1>1, TypeFacts DEF SlotInv, MemKept
  <2> QED BY <1>0, <2>1, <2>2, <2>3, TypeFacts DEF SlotInv
<1>8. \A t \in EbrThreads : epoch[t] \in Nat /\ epoch[t] <= global_epoch
  BY TypeFacts DEF EpochInv
<1>9. EpochInv'
  <2>1. \A t \in EbrThreads : Pinned(t)' => Pinned(t) /\ slot[t] \in EbrSlots
    BY <1>6, TypeFacts DEF SlotInv, Pinned
  <2>2. \A t \in EbrThreads : epc'[t] = "scan" => epoch'[t] < MaxEpoch
    BY <1>0, <1>2, TypeFacts DEF EpochInv
  <2>3. \A t \in EbrThreads : epoch'[t] <= global_epoch'
    BY <1>0, <1>4, <1>8, TypeFacts
  <2> QED BY <1>1, <1>4, <2>1, <2>2, <2>3, TypeFacts, EpochKept
<1>10. ListInv' /\ Unlinked' = Unlinked /\ Limbo' = Limbo
  <2>1. /\ \A t \in EbrThreads : epc'[t] \in {"retire_stamp", "retire_push"}
                              <=> epc[t] \in {"retire_stamp", "retire_push"}
        /\ \A t \in EbrThreads : epc'[t] # "keep" => kept[t] = {}
        /\ \A t \in EbrThreads : epc'[t] = "dropped" => epc[t] = "dropped"
    BY <1>0, <1>2, TypeFacts DEF ListInv
  <2> QED BY <1>0, <2>1, ListKept
<1>11. CountInv'
  <2>1. \A t \in EbrThreads : epc'[t] = "start" <=> epc[t] = "start"
    BY <1>0, <1>2
  <2> QED BY <1>0, <1>10, <2>1, CountKept
<1>12. ASSUME NEW t \in EbrThreads, covered[t]
       PROVE  /\ t # th /\ epc'[t] = "pinned" /\ pin_sb'[t] = <<>> /\ freed[held[t]] = 0
              /\ slots'[slot[t]] = slots[slot[t]] /\ slots[slot[t]] \in Nat
              /\ slots[slot[t]] <= global_epoch + 1 /\ held[t] \in 1..allocated /\ t \in Readers
  BY <1>1, <1>2, <1>3, <1>12, CoveredPin, TypeFacts DEF CoverInv, MemKept
<1>13. \A w \in EbrThreads : epc'[w] = "retire_push" => epc[w] = "retire_push"
  BY <1>2
<1>14. CASE global_epoch # epoch[th]
  <2>1. global_epoch' = global_epoch
    BY <1>0, <1>14
  <2>2. \A t, k \in EbrThreads : epc'[k] = "scan" /\ epoch'[k] = global_epoch /\ slot[t] \notin scan'[k]
            => MayAdvance(t)
    BY <1>0, <1>2 DEF MayAdvance
  <2>3. \A t \in EbrThreads : covered'[t] =>
       /\ covered[t] /\ slot'[t] = slot[t] /\ epc'[t] = "pinned" /\ pin_sb'[t] = <<>> /\ held'[t] = held[t]
       /\ slots'[slot[t]] = slots[slot[t]] /\ freed'[held[t]] = 0
    BY <1>0, <1>12
  <2>4. CoverSteady
    BY <1>0, <1>10, <1>13, <2>1, <2>2, <2>3, TypeFacts DEF CoverSteady
  <2> QED BY <1>5, <1>7, <1>9, <1>10, <1>11, <2>4, CoverKept DEF EbrInv
<1>15. CASE global_epoch = epoch[th]
  <2>1. global_epoch' = global_epoch + 1
    BY <1>0, <1>15
  <2>2. ASSUME NEW t \in EbrThreads, covered[t], NEW x \in Nat, Recent(x, t)
        PROVE  Recent(x, t)'
    <3>1. MayAdvance(t)
      BY <1>0, <1>15 DEF MayAdvance
    <3>2. x >= global_epoch
      BY <2>2, <3>1 DEF Recent
    <3>3. ~ MayAdvance(t)'
      <4>1. slots'[slot'[t]] # global_epoch' + 1
        BY <1>0, <1>12, <2>1, <2>2, TypeFacts
      <4>2. \A k \in EbrThreads : epoch'[k] # global_epoch'
        BY <1>0, <1>8, <2>1, TypeFacts
      <4> QED BY <4>1, <4>2 DEF MayAdvance
    <3>4. x + 1 >= global_epoch'
      BY <2>1, <3>2, TypeFacts
    <3> QED BY <3>3, <3>4 DEF Recent
  <2>3. CoverInv'
    <3> SUFFICES ASSUME NEW t \in EbrThreads, covered[t]
                 PROVE  /\ t \in Readers /\ epc'[t] = "pinned" /\ pin_sb'[t] = <<>> /\ held[t] \in 1..allocated
                        /\ freed[held[t]] = 0
                        /\ \A r \in Limbo : r.obj = held[t] => Recent(r.stamp, t)'
                        /\ \A w \in EbrThreads : epc'[w] = "retire_push" /\ held[w] = held[t] =>
                             Recent(epoch[w], t)'
      BY <1>0, <1>10 DEF CoverInv
    <3>1. ASSUME NEW r \in Limbo, r.obj = held[t] PROVE Recent(r.stamp, t)'
      <4>1. r.stamp \in Nat
        <5>1. r \in Retired
          BY TypeFacts DEF Limbo
        <5> QED BY <5>1 DEF Retired
      <4>2. Recent(r.stamp, t)
        BY <3>1, TypeFacts DEF CoverInv
      <4> QED BY <2>2, <4>1, <4>2
    <3>2. ASSUME NEW w \in EbrThreads, epc'[w] = "retire_push", held[w] = held[t] PROVE Recent(epoch[w], t)'
      <4>1. PICK x \in Nat : x = epoch[w]
        BY <1>8
      <4>2. Recent(x, t)
        BY <1>13, <3>2, <4>1, TypeFacts DEF CoverInv
      <4>3. Recent(x, t)'
        BY <2>2, <4>2
      <4> QED BY <1>0, <4>1, <4>3 DEF Recent
    <3> QED BY <1>12, <3>1, <3>2
  <2> QED BY <1>5, <1>7, <1>9, <1>10, <1>11, <2>3 DEF EbrInv
<1> QED BY <1>14, <1>15

\* At most one record names an object, so a destruction pass runs its destructor once.
LEMMA OneRecord ==
  ASSUME NEW S, \A r, q \in S : r.obj = q.obj => r = q, NEW o
  PROVE  Cardinality({r \in S : r.obj = o}) = IF \E r \in S : r.obj = o THEN 1 ELSE 0
<1>1. CASE \E r \in S : r.obj = o
  <2>1. PICK r \in S : r.obj = o
    BY <1>1
  <2>2. {q \in S : q.obj = o} = {r}
    BY <2>1
  <2>3. Cardinality({r}) = 1
    BY FS_Singleton
  <2> QED BY <1>1, <2>2, <2>3
<1>2. CASE ~ \E r \in S : r.obj = o
  <2>1. {q \in S : q.obj = o} = {}
    BY <1>2
  <2> QED BY <1>2, <2>1, FS_EmptySet
<1> QED BY <1>1, <1>2

\* The sweep destroys what is two epochs old, none of which a covered reader refers to, and
\* keeps the rest to itself.
LEMMA CollectSweepKeeps ==
  ASSUME EbrInv, NEW th \in EbrThreads, CollectSweep(th)
  PROVE  EbrInv'
<1>0. PICK old : old = {r \in garbage : TwoEpochLag(r.stamp, epoch[th])}
  OBVIOUS
<1>1. /\ epc[th] = "sweep" /\ epc' = [epc EXCEPT ![th] = "keep"] /\ garbage' = {}
      /\ freed' = [o \in Objects |-> freed[o] + Cardinality({r \in old : r.obj = o})]
      /\ kept' = [kept EXCEPT ![th] = garbage \ old]
      /\ UNCHANGED <<global_epoch, next_slot, retires_since_collect, cell, slot, epoch, held,
                     scan, allocated, ret, covered>>
  BY <1>0 DEF CollectSweep, EbrGoto, Set, ListTaken
<1>2. MemKept
  BY TypeFacts, DrainKeepsMem DEF CollectSweep
<1>3. /\ epc'[th] = "keep" /\ kept'[th] = garbage \ old /\ kept[th] = {}
      /\ \A t \in EbrThreads : t # th => epc'[t] = epc[t] /\ kept'[t] = kept[t]
      /\ epc' \in [EbrThreads -> {"start", "idle", "SlotsExhausted", "pin_store", "pinned",
               "retire_stamp", "retire_push", "collect", "scan", "now", "sweep", "keep",
               "dropped"}]
  BY <1>1, TypeFacts DEF ListInv
<1>4. ListInv /\ old \subseteq garbage /\ \A r \in old : epoch[th] >= r.stamp + 2
  BY <1>0, TypeFacts DEF TwoEpochLag
<1>5. Limbo' = Limbo \ old /\ old \subseteq Limbo
  <2>1. \A t \in EbrThreads : kept[t] \cap old = {}
    BY <1>4 DEF ListInv
  <2> QED BY <1>1, <1>3, <1>4, <2>1 DEF Limbo
<1>6. \A o \in Objects : freed'[o] = IF \E r \in old : r.obj = o THEN freed[o] + 1 ELSE freed[o]
  <2> TAKE o \in Objects
  <2>1. \A r, q \in old : r.obj = q.obj => r = q
    BY <1>4, <1>5 DEF ListInv
  <2>2. Cardinality({r \in old : r.obj = o}) = IF \E r \in old : r.obj = o THEN 1 ELSE 0
    BY <2>1, OneRecord
  <2> QED BY <1>1, <2>2, TypeFacts
<1>7. /\ \A o \in Objects : freed[o] \in {0, 1} /\ freed'[o] \in {0, 1}
      /\ \A o \in Objects : (~ \E r \in old : r.obj = o) => freed'[o] = freed[o]
      /\ \A r \in old : freed'[r.obj] = 1 /\ r.obj \in Objects
  <2>1. \A r \in old : r \in Retired /\ freed[r.obj] = 0
    BY <1>4, <1>5, TypeFacts DEF ListInv
  <2>2. \A r \in old : r.obj \in Objects
    BY <2>1 DEF Retired
  <2>3. \A o \in Objects : freed[o] \in {0, 1}
    BY <1>4 DEF ListInv
  <2> QED BY <1>6, <2>1, <2>2, <2>3
<1>8. EbrTypeOK'
  <2>1. kept' \in [EbrThreads -> SUBSET Retired]
    <3>1. garbage \ old \in SUBSET Retired
      BY TypeFacts
    <3> QED BY <1>1, <3>1, TypeFacts
  <2>2. freed' \in [Objects -> Nat]
    <3>1. freed' = [o \in Objects |-> freed'[o]]
      BY <1>1
    <3>2. \A o \in Objects : freed'[o] \in Nat
      BY <1>7
    <3> QED BY <3>1, <3>2
  <2>3. garbage' \subseteq Retired
    BY <1>1
  <2> QED BY <1>1, <1>2, <1>3, <2>1, <2>2, <2>3, TypeFacts DEF EbrTypeOK, MemKept
<1>9. \A t \in EbrThreads : Pinned(t)' => Pinned(t)
  BY <1>1, <1>3 DEF Pinned
<1>10. SlotInv'
  <2>1. \A t \in EbrThreads : epc'[t] \in {"start", "pin_store"} \/ Pinned(t)' => t \in Guarded
    BY <1>3, <1>9, TypeFacts DEF SlotInv
  <2>2. \A t \in EbrThreads : t \in Guarded /\ epc'[t] \notin {"start", "SlotsExhausted", "dropped"}
          => slot'[t] \in EbrSlots
    BY <1>1, <1>3, TypeFacts DEF SlotInv
  <2>3. \A t \in EbrThreads : pin_sb'[t] # <<>> => slot'[t] \in EbrSlots
    BY <1>1, <1>2, TypeFacts DEF SlotInv, MemKept
  <2> QED BY <1>1, <2>1, <2>2, <2>3, TypeFacts DEF SlotInv
<1>11. EpochInv'
  <2>1. \A t \in EbrThreads : Pinned(t)' => Pinned(t) /\ slot[t] \in EbrSlots
    BY <1>9, TypeFacts DEF SlotInv, Pinned
  <2>2. \A t \in EbrThreads : epc'[t] = "scan" => epoch'[t] < MaxEpoch
    BY <1>1, <1>3, TypeFacts DEF EpochInv
  <2>3. \A t \in EbrThreads : epoch'[t] <= global_epoch'
    BY <1>1, TypeFacts DEF EpochInv
  <2> QED BY <1>1, <1>2, <2>1, <2>2, <2>3, TypeFacts, EpochKept
<1>12. Unlinked' = Unlinked /\ \A a \in Unlinked' : held'[a] = held[a]
  BY <1>1, <1>3 DEF Unlinked
<1>13. CountInv'
  <2>1. \A t \in EbrThreads : epc'[t] = "start" <=> epc[t] = "start"
    BY <1>1, <1>3
  <2> QED BY <1>1, <1>12, <2>1, CountKept
<1>14. ListInv'
  <2>1. cell' \in 1..allocated' /\ freed'[cell'] = 0
    BY <1>1, <1>4, <1>5, <1>7, TypeFacts DEF ListInv
  <2>2. \A r, q \in Limbo' : r.obj = q.obj => r = q
    BY <1>4, <1>5 DEF ListInv
  <2>3. \A a \in EbrThreads : garbage' \cap kept'[a] = {}
    BY <1>1
  <2>4. \A a, b \in EbrThreads : a # b => kept'[a] \cap kept'[b] = {}
    BY <1>3, <1>4 DEF ListInv
  <2>5. \A r \in Limbo' : r.obj \in 1..allocated' /\ r.obj # cell' /\ freed'[r.obj] = 0
    <3> TAKE r \in Limbo'
    <3>1. r \in Limbo /\ r \notin old /\ r \in Retired /\ ~ \E q \in old : q.obj = r.obj
      BY <1>4, <1>5, TypeFacts DEF ListInv, Limbo
    <3>2. r.obj \in Objects
      BY <3>1 DEF Retired
    <3> QED BY <1>1, <1>4, <1>7, <3>1, <3>2 DEF ListInv
  <2>6. \A a \in Unlinked' : /\ held'[a] \in 1..allocated' /\ held'[a] # cell' /\ freed'[held'[a]] = 0
                             /\ \A r \in Limbo' : r.obj # held'[a]
    <3> TAKE a \in Unlinked'
    <3>1. /\ held[a] \in 1..allocated /\ held[a] # cell /\ freed[held[a]] = 0
          /\ \A r \in Limbo : r.obj # held[a]
      BY <1>4, <1>12 DEF ListInv
    <3>2. held[a] \in Objects
      BY <3>1, TypeFacts DEF Objects
    <3> QED BY <1>1, <1>5, <1>7, <3>1, <3>2
  <2>7. \A a, b \in Unlinked' : held'[a] = held'[b] => a = b
    BY <1>4, <1>12 DEF ListInv
  <2>8. \A o \in Objects : freed'[o] \in {0, 1} /\ (freed'[o] = 1 => o <= allocated')
    <3> TAKE o \in Objects
    <3>1. \A r \in old : r.obj \in 1..allocated
      BY <1>4, <1>5 DEF ListInv
    <3>2. freed[o] = 1 => o <= allocated
      BY <1>4 DEF ListInv
    <3> QED BY <1>1, <1>7, <3>1, <3>2, TypeFacts
  <2>9. \A o \in 1..allocated' : o # cell' /\ freed'[o] = 0 =>
          (\E r \in Limbo' : r.obj = o) \/ (\E a \in Unlinked' : held'[a] = o)
    <3> SUFFICES ASSUME NEW o \in 1..allocated, o # cell, freed'[o] = 0
                 PROVE  (\E r \in Limbo' : r.obj = o) \/ (\E a \in Unlinked' : held'[a] = o)
      BY <1>1
    <3>1. o \in Objects
      BY TypeFacts DEF Objects
    <3>2. freed[o] = 0 /\ \A r \in old : r.obj # o
      BY <1>7, <3>1
    <3>3. (\E r \in Limbo : r.obj = o) \/ (\E a \in Unlinked : held[a] = o)
      BY <1>4, <3>2 DEF ListInv
    <3> QED BY <1>5, <1>12, <3>2, <3>3
  <2>10. \A a \in EbrThreads : epc'[a] # "keep" => kept'[a] = {}
    BY <1>3, <1>4 DEF ListInv
  <2>11. ~ \A a \in EbrThreads : epc'[a] = "dropped"
    BY <1>3
  <2> QED BY <2>1, <2>2, <2>3, <2>4, <2>5, <2>6, <2>7, <2>8, <2>9, <2>10, <2>11 DEF ListInv
<1>15. CoverSteady
  <2>1. \A t \in EbrThreads : covered[t] => freed'[held[t]] = 0
    <3> SUFFICES ASSUME NEW t \in EbrThreads, covered[t] PROVE freed'[held[t]] = 0
      OBVIOUS
    <3>1. /\ held[t] \in 1..allocated /\ freed[held[t]] = 0
          /\ \A r \in Limbo : r.obj = held[t] => Recent(r.stamp, t)
      BY TypeFacts DEF CoverInv
    <3>2. ASSUME NEW r \in old, r.obj = held[t] PROVE FALSE
      <4>1. r.stamp + 1 >= global_epoch
        BY <1>5, <3>1, <3>2 DEF Recent
      <4>2. epoch[th] >= r.stamp + 2 /\ epoch[th] <= global_epoch /\ epoch[th] \in Nat
        BY <1>4, TypeFacts DEF EpochInv
      <4>3. r.stamp \in Nat
        <5>1. r \in Retired
          BY <1>4, TypeFacts
        <5> QED BY <5>1 DEF Retired
      <4> QED BY <4>1, <4>2, <4>3, TypeFacts
    <3>3. held[t] \in Objects
      BY <3>1, TypeFacts DEF Objects
    <3> QED BY <1>7, <3>1, <3>2, <3>3
  <2>2. \A t \in EbrThreads : covered'[t] =>
       /\ covered[t] /\ slot'[t] = slot[t] /\ epc'[t] = "pinned" /\ pin_sb'[t] = <<>> /\ held'[t] = held[t]
       /\ slots'[slot[t]] = slots[slot[t]] /\ freed'[held[t]] = 0
    BY <1>1, <1>2, <1>3, <2>1, CoveredPin DEF MemKept
  <2>3. \A t, k \in EbrThreads : epc'[k] = "scan" /\ epoch'[k] = global_epoch /\ slot[t] \notin scan'[k]
            => MayAdvance(t)
    BY <1>1, <1>3 DEF MayAdvance
  <2>4. \A w \in EbrThreads : epc'[w] = "retire_push" => epc[w] = "retire_push"
    BY <1>1, <1>3
  <2>5. \A r \in Limbo' : r \in Limbo
    BY <1>5
  <2>6. /\ UNCHANGED <<global_epoch, held, epoch>> /\ allocated' \in Nat /\ allocated <= allocated'
    BY <1>1, TypeFacts
  <2> QED BY <2>2, <2>3, <2>4, <2>5, <2>6 DEF CoverSteady
<1> QED BY <1>8, <1>10, <1>11, <1>13, <1>14, <1>15, CoverKept DEF EbrInv

\* What was kept goes back on the list.
LEMMA CollectKeepKeeps ==
  ASSUME EbrInv, NEW th \in EbrThreads, NEW rec, CollectKeep(th, rec)
  PROVE  EbrInv'
<1>1. /\ epc[th] = "keep" /\ rec \in kept[th] /\ garbage' = garbage \union {rec}
      /\ kept' = [kept EXCEPT ![th] = kept[th] \ {rec}]
      /\ UNCHANGED <<global_epoch, slots, next_slot, retires_since_collect, cell, pin_sb, slot, epc,
                     epoch, held, scan, allocated, ret, freed, covered>>
  BY DEF CollectKeep, Set
<1>2. /\ kept'[th] = kept[th] \ {rec} /\ \A t \in EbrThreads : t # th => kept'[t] = kept[t]
      /\ rec \in Retired
  BY <1>1, TypeFacts
<1>3. Limbo' = Limbo /\ Unlinked' = Unlinked
  BY <1>1, <1>2 DEF Limbo, Unlinked
<1>4. EbrTypeOK'
  <2>1. kept' \in [EbrThreads -> SUBSET Retired] /\ garbage' \subseteq Retired
    BY <1>1, <1>2, TypeFacts
  <2> QED BY <1>1, <2>1, TypeFacts DEF EbrTypeOK
<1>5. CountInv' /\ SlotInv' /\ EpochInv'
  <2>1. CountInv'
    BY <1>1, <1>3, CountKept
  <2>2. SlotInv' /\ EpochInv'
    BY <1>1, TypeFacts DEF SlotInv, EpochInv, Pinned, Youngest
  <2> QED BY <2>1, <2>2
<1>6. ListInv'
  <2>1. \A a \in EbrThreads : garbage' \cap kept'[a] = {}
    BY <1>1, <1>2, TypeFacts DEF ListInv
  <2>2. \A a, b \in EbrThreads : a # b => kept'[a] \cap kept'[b] = {}
    BY <1>2, TypeFacts DEF ListInv
  <2>3. \A a \in EbrThreads : epc'[a] # "keep" => kept'[a] = {}
    BY <1>1, <1>2, TypeFacts DEF ListInv
  <2> QED BY <1>1, <1>3, <2>1, <2>2, <2>3, TypeFacts DEF ListInv
<1>7. CoverInv'
  BY <1>1, <1>3, TypeFacts DEF CoverInv, Recent, MayAdvance
<1> QED BY <1>4, <1>5, <1>6, <1>7 DEF EbrInv

\* The collector is dropped: every list is on the shared one, and nobody is pinned.
LEMMA DropCollectorKeeps ==
  ASSUME EbrInv, DropCollector
  PROVE  EbrInv'
<1>1. /\ \A t \in EbrThreads : epc[t] \in {"start", "idle", "SlotsExhausted"} /\ pin_sb[t] = <<>>
      /\ freed' = [o \in Objects |-> freed[o] + Cardinality({r \in garbage : r.obj = o})]
      /\ garbage' = {} /\ epc' = [t \in EbrThreads |-> "dropped"]
      /\ UNCHANGED <<global_epoch, slots, next_slot, retires_since_collect, cell, pin_sb, slot,
                     epoch, held, scan, kept, allocated, ret, covered>>
  BY DEF DropCollector
<1>2. \A t \in EbrThreads : epc'[t] = "dropped" /\ kept[t] = {} /\ ~ covered[t] /\ t \notin Unlinked
  BY <1>1, TypeFacts DEF ListInv, CoverInv, Unlinked
<1>3. ListInv /\ Limbo = garbage /\ Limbo' = {} /\ Unlinked = {} /\ Unlinked' = {}
  BY <1>1, <1>2, TypeFacts DEF Limbo, Unlinked
<1>4. \A o \in Objects : freed'[o] = IF \E r \in garbage : r.obj = o THEN freed[o] + 1 ELSE freed[o]
  <2> TAKE o \in Objects
  <2>1. \A r, q \in garbage : r.obj = q.obj => r = q
    BY <1>3 DEF ListInv
  <2>2. Cardinality({r \in garbage : r.obj = o}) = IF \E r \in garbage : r.obj = o THEN 1 ELSE 0
    BY <2>1, OneRecord
  <2> QED BY <1>1, <2>2, TypeFacts
<1>5. /\ \A o \in Objects : freed[o] \in {0, 1} /\ freed'[o] \in {0, 1}
      /\ \A o \in Objects : (~ \E r \in garbage : r.obj = o) => freed'[o] = freed[o]
      /\ \A r \in garbage : freed'[r.obj] = 1 /\ r.obj \in Objects
  <2>1. \A r \in garbage : r \in Retired /\ freed[r.obj] = 0
    BY <1>3, TypeFacts DEF ListInv
  <2>2. \A r \in garbage : r.obj \in Objects
    BY <2>1 DEF Retired
  <2>3. \A o \in Objects : freed[o] \in {0, 1}
    BY <1>3 DEF ListInv
  <2> QED BY <1>4, <2>1, <2>2, <2>3
<1>6. EbrTypeOK'
  <2>1. freed' \in [Objects -> Nat]
    <3>1. freed' = [o \in Objects |-> freed'[o]]
      BY <1>1
    <3>2. \A o \in Objects : freed'[o] \in Nat
      BY <1>5
    <3> QED BY <3>1, <3>2
  <2>2. epc' \in [EbrThreads -> {"start", "idle", "SlotsExhausted", "pin_store", "pinned",
               "retire_stamp", "retire_push", "collect", "scan", "now", "sweep", "keep",
               "dropped"}] /\ garbage' \subseteq Retired
    BY <1>1
  <2> QED BY <1>1, <2>1, <2>2, TypeFacts DEF EbrTypeOK
<1>7. CountInv'
  <2>1. {t \in EbrThreads : epc'[t] = "start"} = {}
    BY <1>2
  <2>2. next_slot' + 0 <= Cardinality(EbrThreads)
    <3>1. next_slot \in 0..Cardinality(EbrThreads) /\ Cardinality(EbrThreads) \in Nat
      BY TypeFacts, EbrAssumption, FS_CardinalityType DEF EbrTypeOK
    <3> QED BY <1>1, <3>1
  <2>3. retires_since_collect' + Cardinality(Unlinked') <= allocated' - 1
    BY <1>1, <1>3, TypeFacts DEF CountInv
  <2> QED BY <2>1, <2>2, <2>3, FS_EmptySet DEF CountInv
<1>8. SlotInv' /\ EpochInv'
  <2>1. \A t \in EbrThreads : ~ Pinned(t)'
    BY <1>2 DEF Pinned
  <2> QED BY <1>1, <1>2, <2>1, TypeFacts DEF SlotInv, EpochInv
<1>9. ListInv'
  <2>1. cell' \in 1..allocated' /\ freed'[cell'] = 0
    <3>1. cell \in 1..allocated /\ freed[cell] = 0 /\ \A r \in garbage : r.obj # cell
      BY <1>3 DEF ListInv
    <3>2. cell' = cell /\ allocated' = allocated /\ cell \in Objects
      BY <1>1, TypeFacts
    <3> QED BY <1>5, <3>1, <3>2
  <2>2. \A o \in Objects : freed'[o] \in {0, 1} /\ (freed'[o] = 1 => o <= allocated')
    <3> TAKE o \in Objects
    <3>1. \A r \in garbage : r.obj \in 1..allocated
      BY <1>3 DEF ListInv
    <3>2. freed[o] = 1 => o <= allocated
      BY <1>3 DEF ListInv
    <3>3. CASE \E r \in garbage : r.obj = o
      BY <1>1, <1>5, <3>1, <3>3, TypeFacts
    <3>4. CASE ~ \E r \in garbage : r.obj = o
      BY <1>1, <1>5, <3>2, <3>4
    <3> QED BY <3>3, <3>4
  <2>3. \A o \in 1..allocated : o # cell => freed'[o] = 1
    <3> TAKE o \in 1..allocated
    <3> HAVE o # cell
    <3>1. o \in Objects
      BY TypeFacts DEF Objects
    <3>2. freed[o] = 0 => \E r \in garbage : r.obj = o
      BY <1>3 DEF ListInv
    <3> QED BY <1>5, <3>1, <3>2
  <2>4. UNCHANGED <<kept, cell, allocated>> /\ garbage' = {}
    BY <1>1
  <2>5. \A o \in 1..allocated' : o # cell' => freed'[o] = 1
    BY <2>3, <2>4
  <2>6. \A o \in 1..allocated' : o # cell' /\ freed'[o] = 0 => FALSE
    BY <2>5
  <2>7. \A a \in EbrThreads : kept'[a] = {}
    BY <1>2, <2>4
  <2>8. Limbo' = {} /\ Unlinked' = {}
    BY <1>3
  <2> QED BY <2>1, <2>2, <2>4, <2>5, <2>6, <2>7, <2>8 DEF ListInv
<1>10. CoverInv'
  BY <1>1, <1>2 DEF CoverInv
<1> QED BY <1>6, <1>7, <1>8, <1>9, <1>10 DEF EbrInv

-----------------------------------------------------------------------------
(* The theorems *)

\* The collector starts unpinned, with one published allocation.
LEMMA InitEstablishes == EbrInit => EbrInv
<1> SUFFICES ASSUME EbrInit PROVE EbrInv
  OBVIOUS
<1>0. MaxObj \in Nat \ {0} /\ MaxEpoch \in Nat /\ BufferDepth \in Nat /\ Cardinality(EbrThreads) \in Nat
  BY EbrAssumption, FS_CardinalityType
<1>1. /\ global_epoch = 0 /\ next_slot = 0 /\ garbage = {} /\ retires_since_collect = 0
      /\ cell = 1 /\ allocated = 1
      /\ slots \in [EbrSlots -> 0..(MaxEpoch + 1)] /\ \A s \in EbrSlots : slots[s] = 0
  BY <1>0 DEF EbrInit
<1>2. /\ \A t \in EbrThreads : /\ pin_sb[t] = <<>> /\ slot[t] = Nothing /\ held[t] = Nothing /\ scan[t] = {}
                            /\ kept[t] = {} /\ epoch[t] = 0 /\ ~ covered[t] /\ ret[t] = "idle"
      /\ \A o \in Objects : freed[o] = 0
      /\ \A t \in EbrThreads : epc[t] \in {"start", "idle"} /\ (t \in Guarded <=> epc[t] = "start")
  BY DEF EbrInit, Guarded
<1>3. EbrTypeOK
  <2>1. pin_sb \in [EbrThreads -> Seq(0..(MaxEpoch + 1))] /\ \A t \in EbrThreads : Len(pin_sb[t]) <= BufferDepth
    BY <1>0 DEF EbrInit
  <2>2. /\ slot \in [EbrThreads -> EbrSlots \union {Nothing}] /\ ret \in [EbrThreads -> {"pinned", "idle"}]
        /\ epoch \in [EbrThreads -> 0..MaxEpoch] /\ held \in [EbrThreads -> Objects \union {Nothing}]
    BY <1>0 DEF EbrInit
  <2>3. scan \in [EbrThreads -> SUBSET EbrSlots] /\ kept \in [EbrThreads -> SUBSET Retired]
    BY DEF EbrInit
  <2>4. freed \in [Objects -> Nat] /\ covered \in [EbrThreads -> BOOLEAN]
    BY DEF EbrInit
  <2>5. epc \in [EbrThreads -> {"start", "idle", "SlotsExhausted", "pin_store", "pinned",
               "retire_stamp", "retire_push", "collect", "scan", "now", "sweep", "keep",
               "dropped"}]
    BY DEF EbrInit
  <2>6. /\ global_epoch \in 0..MaxEpoch /\ next_slot \in 0..Cardinality(EbrThreads)
        /\ garbage \subseteq Retired /\ retires_since_collect \in 0..MaxObj
        /\ cell \in Objects /\ allocated \in Objects
    BY <1>0, <1>1 DEF Objects
  <2> QED BY <1>1, <2>1, <2>2, <2>3, <2>4, <2>5, <2>6 DEF EbrTypeOK
<1>4. Limbo = {} /\ Unlinked = {}
  BY <1>1, <1>2 DEF Limbo, Unlinked
<1>5. CountInv
  <2>1. PICK S : S = {t \in EbrThreads : epc[t] = "start"}
    OBVIOUS
  <2>2. S \in SUBSET EbrThreads
    BY <2>1
  <2>3. Cardinality(S) <= Cardinality(EbrThreads) /\ Cardinality(S) \in Nat
    BY <2>2, EbrAssumption, FS_Subset, FS_CardinalityType
  <2>4. next_slot + Cardinality(S) <= Cardinality(EbrThreads)
    BY <1>0, <1>1, <2>3
  <2>5. retires_since_collect + Cardinality(Unlinked) <= allocated - 1
    BY <1>1, <1>4, FS_EmptySet
  <2> QED BY <2>1, <2>4, <2>5 DEF CountInv
<1>6. SlotInv
  BY <1>2 DEF SlotInv, Pinned
<1>7. EpochInv
  <2>1. \A t \in EbrThreads : DOMAIN pin_sb[t] = {} /\ ~ Pinned(t) /\ epc[t] # "scan"
    BY <1>2 DEF Pinned
  <2> QED BY <1>1, <1>2, <2>1 DEF EpochInv
<1>8. ListInv
  <2>1. \A o \in 1..allocated : o = cell
    BY <1>1
  <2>2. cell \in 1..allocated /\ cell \in Objects /\ freed[cell] = 0
    BY <1>0, <1>1, <1>2 DEF Objects
  <2> QED BY <1>1, <1>2, <1>4, <2>1, <2>2 DEF ListInv
<1>9. CoverInv
  BY <1>2 DEF CoverInv
<1> QED BY <1>3, <1>5, <1>6, <1>7, <1>8, <1>9 DEF EbrInv

\* Every step preserves the invariant.
LEMMA NextPreserves == EbrInv /\ [EbrNext]_ebr_vars => EbrInv'
<1> SUFFICES ASSUME EbrInv, [EbrNext]_ebr_vars PROVE EbrInv'
  OBVIOUS
<1>1. CASE UNCHANGED ebr_vars
  <2>1. UNCHANGED <<global_epoch, slots, next_slot, garbage, retires_since_collect, cell, pin_sb, slot,
                    epc, ret, epoch, held, scan, kept, allocated, freed, covered>>
    BY <1>1 DEF ebr_vars, collector
  <2>2. Limbo' = Limbo /\ Unlinked' = Unlinked
    BY <2>1 DEF Limbo, Unlinked
  <2>3. EbrTypeOK' /\ CountInv'
    BY <2>1, <2>2, TypeFacts DEF EbrTypeOK, CountInv
  <2>4. SlotInv' /\ EpochInv'
    BY <2>1, TypeFacts DEF SlotInv, EpochInv, Pinned, Youngest
  <2>5. ListInv' /\ CoverInv'
    BY <2>1, <2>2, TypeFacts DEF ListInv, CoverInv, Recent, MayAdvance
  <2> QED BY <2>3, <2>4, <2>5 DEF EbrInv
<1>2. CASE DropCollector
  BY <1>2, DropCollectorKeeps
<1>3. ASSUME NEW th \in EbrThreads,
             Register(th) \/ GuardStep(th) \/ RetireStep(th) \/ CollectStep(th) \/ FlushPin(th)
      PROVE  EbrInv'
  <2>1. CASE Register(th) \/ FlushPin(th)
    BY <2>1, RegisterKeeps, FlushKeeps
  <2>2. CASE GuardStep(th)
    BY <2>2, PinLoadKeeps, PinStoreKeeps, ReadKeeps, UnpinKeeps DEF GuardStep
  <2>3. CASE RetireStep(th)
    BY <2>3, SwapKeeps, RetireStampKeeps, RetirePushKeeps DEF RetireStep
  <2>4. CASE CollectStep(th)
    BY <2>4, CollectCalledKeeps, CollectLoadKeeps, CollectScanKeeps, CollectAdvanceKeeps,
       CollectNowKeeps, CollectSweepKeeps, CollectKeepKeeps, CollectDoneKeeps DEF CollectStep
  <2> QED BY <1>3, <2>1, <2>2, <2>3, <2>4
<1> QED BY <1>1, <1>2, <1>3 DEF EbrNext

\* The inductive invariant holds for any threads, slots, epochs, allocations and buffer depth.
THEOREM EbrInvHolds == EbrSpec => []EbrInv
BY InitEstablishes, NextPreserves, PTL DEF EbrSpec

\* collect never frees what a reader whose pin had reached memory still refers to, however
\* many collects run at once.
THEOREM CoveredReferencesLive == EbrSpec => []CoveredReferenceLive
<1>1. EbrInv => CoveredReferenceLive
  BY DEF EbrInv, CoverInv, CoveredReferenceLive, EbrThreads
<1> QED BY <1>1, EbrInvHolds, PTL

\* Every unlinked allocation is destroyed exactly once, by a sweep or by the collector's Drop.
THEOREM GarbageSound == EbrSpec => []GarbageInv
<1>1. EbrInv => FreedExactlyOnce
  <2> SUFFICES ASSUME EbrInv PROVE FreedExactlyOnce
    OBVIOUS
  <2>1. ListInv
    BY DEF EbrInv
  <2>2. \A o \in Objects : freed[o] <= 1
    <3> TAKE o \in Objects
    <3>1. freed[o] \in {0, 1}
      BY <2>1 DEF ListInv
    <3> QED BY <3>1
  <2> QED BY <2>1, <2>2 DEF ListInv, FreedExactlyOnce
<1>2. EbrInv => GarbageInv
  BY <1>1 DEF EbrInv, GarbageInv
<1> QED BY <1>2, EbrInvHolds, PTL
=============================================================================
