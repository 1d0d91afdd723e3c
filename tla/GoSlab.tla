------------------------------- MODULE GoSlab -------------------------------
(***************************************************************************)
(* mem-ring/slab.go: the MultiSlab in which Go keeps its responses.  Keys  *)
(* are spread over several slabs, each with a mutex; a slab is an array    *)
(* with a list of free slots threaded through it, whose head is next.  0   *)
(* means that the list is empty, and is also the index of the first slot:  *)
(* once that slot is popped the list behind it is lost.                    *)
(***************************************************************************)
EXTENDS Integers, Sequences, FiniteSets

CONSTANTS
  Threads,   \* the goroutines that push
  SlabCnt,   \* 1 << SlabSizeExp
  MaxHeld,   \* bound: the keys in use at a time, in one slab
  MaxSlots,  \* bound: the slots of one slab
  NoData

ASSUME GoSlabAssumption ==
  SlabCnt \in Nat \ {0} /\ MaxHeld \in Nat /\ MaxSlots \in Nat \ {0} /\ NoData \notin Threads

Slabs   == 0 .. SlabCnt - 1
Indexes == 0 .. MaxSlots - 1
Keys    == 0 .. MaxSlots * SlabCnt - 1

\* Mutant: the slab is left out of the key.
KeyOf_NoSlab(i, s) == i * SlabCnt

\* (inner_idx << exp) | slab_idx, and the way back.
KeyOf(i, s) == i * SlabCnt + s
SlabOf(k)   == k % SlabCnt
IndexOf(k)  == k \div SlabCnt

VARIABLES
  items,   \* data of each slab: a sequence of slots [next, data]
  next,    \* next of each slab
  index,   \* the counter that spreads the keys, modulo SlabCnt
  target,  \* the slab each thread is about to push to, or -1
  used,    \* history: what is stored under each key in use
  peak     \* history: the most keys of each slab in use at a time

vars == <<items, next, index, target, used, peak>>

Init ==
  /\ items = [s \in Slabs |-> << >>]
  /\ next = [s \in Slabs |-> 0]
  /\ index = 0
  /\ target = [t \in Threads |-> -1]
  /\ used = [k \in Keys |-> NoData]
  /\ peak = [s \in Slabs |-> 0]

InUse(s) == {i \in Indexes : used[KeyOf(i, s)] # NoData}

\* An index of the code is a position of the sequence less one.
Item(s, i) == items[s][i + 1]

-----------------------------------------------------------------------------

\* MultiSlab.Push takes a slab in turn, outside any mutex.
Spread(t) ==
  /\ target[t] = -1
  /\ index' = (index + 1) % SlabCnt
  /\ target' = [target EXCEPT ![t] = index']
  /\ UNCHANGED <<items, next, used, peak>>

\* Slab.Push: append a slot, or use the first free one again.
Grow(s, t) ==
  /\ next[s] = 0 /\ Len(items[s]) < MaxSlots
  /\ items' = [items EXCEPT ![s] = Append(@, [next |-> 0, data |-> t])]
  /\ used' = [used EXCEPT ![KeyOf(Len(items[s]), s)] = t]
  /\ UNCHANGED next

\* Mutant: the list is not advanced.
Reuse_KeepsHead(s, t) ==
  /\ next[s] # 0
  /\ items' = [items EXCEPT ![s][next[s] + 1] = [next |-> 0, data |-> t]]
  /\ used' = [used EXCEPT ![KeyOf(next[s], s)] = t]
  /\ UNCHANGED next

\* Mutant: item is a copy of the slot, not a pointer to it.
Reuse_OnACopy(s, t) ==
  /\ next[s] # 0
  /\ next' = [next EXCEPT ![s] = Item(s, next[s]).next]
  /\ used' = [used EXCEPT ![KeyOf(next[s], s)] = t]
  /\ UNCHANGED items

Reuse(s, t) ==
  /\ next[s] # 0
  /\ items' = [items EXCEPT ![s][next[s] + 1] = [next |-> 0, data |-> t]]
  /\ next' = [next EXCEPT ![s] = Item(s, next[s]).next]
  /\ used' = [used EXCEPT ![KeyOf(next[s], s)] = t]

Push(t) ==
  /\ target[t] # -1 /\ Cardinality(InUse(target[t])) < MaxHeld
  /\ target' = [target EXCEPT ![t] = -1]
  /\ Grow(target[t], t) \/ Reuse(target[t], t)
  /\ LET s == target[t] IN
       peak' = [peak EXCEPT ![s] = IF Cardinality(InUse(s)) + 1 > @ THEN Cardinality(InUse(s)) + 1 ELSE @]
  /\ UNCHANGED index

\* Mutant: the list is not linked to the slot.
Pop_DropsList(k) ==
  /\ used[k] # NoData /\ used' = [used EXCEPT ![k] = NoData]
  /\ next' = [next EXCEPT ![SlabOf(k)] = IndexOf(k)]
  /\ UNCHANGED <<items, index, target, peak>>

\* Slab.Pop puts the slot at the front of the list; its data stays.  The
\* caller pops each key it was given once.
Pop(k) ==
  /\ used[k] # NoData /\ used' = [used EXCEPT ![k] = NoData]
  /\ items' = [items EXCEPT ![SlabOf(k)][IndexOf(k) + 1].next = next[SlabOf(k)]]
  /\ next' = [next EXCEPT ![SlabOf(k)] = IndexOf(k)]
  /\ UNCHANGED <<index, target, peak>>

Next == (\E t \in Threads : Spread(t) \/ Push(t)) \/ (\E k \in Keys : Pop(k))
Spec == Init /\ [][Next]_vars

-----------------------------------------------------------------------------
(* Properties *)

\* Every variable stays in its set, and Grow is never short of a slot.
TypeOK ==
  /\ \A s \in Slabs : items[s] \in Seq([next : Indexes, data : Threads])
  /\ next \in [Slabs -> Indexes] /\ index \in Slabs
  /\ target \in [Threads -> Slabs \cup {-1}]
  /\ used \in [Keys -> Threads \cup {NoData}] /\ peak \in [Slabs -> 0 .. MaxHeld]

\* A key in use leads to what was stored under it.
DataKept ==
  \A k \in Keys : used[k] # NoData =>
    /\ IndexOf(k) < Len(items[SlabOf(k)])
    /\ Item(SlabOf(k), IndexOf(k)).data = used[k]

\* The list from next on visits only free slots, and no slot is reached twice:
\* no slot in use can be handed out again.
Link(s, i)   == Item(s, i).next
FreeSlots(s) == {i \in 1 .. Len(items[s]) - 1 : used[KeyOf(i, s)] = NoData}
ListSound(s) ==
  /\ next[s] # 0 => next[s] \in FreeSlots(s)
  /\ \A i \in FreeSlots(s) : Link(s, i) # 0 => Link(s, i) \in FreeSlots(s) \ {next[s]}
  /\ \A i, j \in FreeSlots(s) : Link(s, i) = Link(s, j) /\ Link(s, i) # 0 => i = j
FreeListSound == \A s \in Slabs : ListSound(s)

\* A slab whose peak use is n has at most 2n slots, although popping slot 0
\* loses every slot that is free at the time.
GrowthBounded == \A s \in Slabs : Len(items[s]) <= 2 * peak[s]

\* A MultiSlab is a KeyPool: it never hands out a key that is in use.
P == INSTANCE KeyPool WITH Values <- Threads, Nothing <- NoData, held <- used
PoolSpec == P!PoolSpec
=============================================================================
