------------------------- MODULE MemRingItemProofs -------------------------
(***************************************************************************)
(* No item is lost between push and the ring, and a PushJoinHandle keeps   *)
(* its promise.                                                            *)
(*                                                                         *)
(* OnePlace (MemRingChannelProofs) says that an item is in at most one     *)
(* place; Somewhere adds that it is in at least one.  AwaitInv follows an  *)
(* item pushed with an awaiter: its WakerSlot exists from the moment it is *)
(* queued, the task that carries the slot is pending or in the hands of    *)
(* unstuck_handler until the slot is Finished, and by then it is in the    *)
(* ring.  QueueOrder says in which order items are published, and the last *)
(* section what the invariants leave when nobody can move any more.        *)
(***************************************************************************)
EXTENDS MemRingChannelProofs, FiniteSetTheorems

USE MemRingAssumption

HeldByPusher(i) == \E p \in Producers : Pushing(p) /\ cur[p] = i
HeldByTask(i)   == Filling /\ ucur.item = i
Somewhere == \A i \in 1 .. next : InLog(i) \/ InPending(i) \/ HeldByPusher(i) \/ HeldByTask(i)

-----------------------------------------------------------------------------
(* Every item is somewhere *)

\* Steps that keep every item where it is.
LEMMA SomewhereQuiet ==
  ASSUME Somewhere,
         UNCHANGED <<next, log, pending, cur, ucur>>,
         \A p \in Producers : Pushing(p) => Pushing(p)',
         Filling => Filling'
  PROVE  Somewhere'
  BY DEF Somewhere, InLog, InPending, HeldByPusher, HeldByTask

\* What a longer or shorter sequence holds.
LEMMA AppendHolds ==
  ASSUME NEW S, NEW s \in Seq(S), NEW e \in S
  PROVE  /\ DOMAIN Append(s, e) = DOMAIN s \cup {Len(s) + 1}
         /\ \A k \in DOMAIN s : Append(s, e)[k] = s[k]
         /\ Append(s, e)[Len(s) + 1] = e
  OBVIOUS

\* What Tail leaves: everything but the first, one position down.
LEMMA TailHolds ==
  ASSUME NEW S, NEW s \in Seq(S), s # << >>
  PROVE  /\ DOMAIN Tail(s) = 1 .. Len(s) - 1 /\ DOMAIN s = 1 .. Len(s)
         /\ \A k \in DOMAIN s : k = 1 \/ (k - 1 \in DOMAIN Tail(s) /\ Tail(s)[k - 1] = s[k])
         /\ Head(s) = s[1]
  OBVIOUS

\* A push takes the next item into the hands of its producer.
LEMMA PushLoadSomewhere ==
  ASSUME RingInv, Somewhere, NEW p \in Producers, NEW k \in Kinds, PushLoad(p, k)
  PROVE  Somewhere'
<1> USE DEF RingInv, TypeOK, WriterTypeOK, HistoryTypeOK, PushLoad, ProducerGoto
<1>1. \A i : ~HeldByPusher(i) /\ ~HeldByTask(i)
  BY DEF Exclusive, HeldByPusher, HeldByTask, Pushing, Filling, InPush, InUnstuck
<1>2. Pushing(p)' /\ cur'[p] = next' /\ next' = next + 1
  BY DEF Pushing
<1>3. \A i : i = next' => HeldByPusher(i)'
  BY <1>2 DEF HeldByPusher
<1>4. \A i \in 1 .. next : InLog(i)' \/ InPending(i)'
  BY <1>1 DEF Somewhere, InLog, InPending
<1>5. \A i \in 1 .. next' : i \in 1 .. next \/ i = next'
  BY <1>2
<1>6. QED
  BY <1>3, <1>4, <1>5 DEF Somewhere

\* The item at hand moves into the log.
LEMMA PublishSomewhere ==
  ASSUME RingInv, Somewhere,
         UnstuckPublish \/ \E p \in Producers : PushPublish(p)
  PROVE  Somewhere'
<1> USE DEF RingInv, TypeOK, WriterTypeOK, HistoryTypeOK
<1>1. ASSUME NEW item \in Items, log' = Append(log, item), UNCHANGED <<next, pending>>,
             \A i : HeldByPusher(i) \/ HeldByTask(i) => i = item
      PROVE  Somewhere'
  <2>1. \A i : InLog(i) \/ i = item => InLog(i)'
    BY <1>1, AppendHolds DEF InLog
  <2>2. \A i : InPending(i) => InPending(i)'
    BY <1>1 DEF InPending
  <2>3. QED
    BY <1>1, <2>1, <2>2 DEF Somewhere
<1>2. CASE UnstuckPublish
  <2> USE DEF UnstuckPublish, UnstuckGoto
  <2>1. ucur.item \in Items
    BY <1>2 DEF Holding, Task
  <2>2. \A i : HeldByPusher(i) \/ HeldByTask(i) => i = ucur.item
    BY <1>2 DEF HeldByPusher, HeldByTask, Pushing, Exclusive, InPush, InUnstuck
  <2>3. QED
    BY <1>1, <1>2, <2>1, <2>2
<1>3. ASSUME NEW p \in Producers, PushPublish(p) PROVE Somewhere'
  <2> USE DEF PushPublish, ProducerGoto
  <2>1. cur[p] \in Items
    BY <1>3 DEF Pushing, Holding
  <2>2. \A i : HeldByPusher(i) \/ HeldByTask(i) => i = cur[p]
    BY <1>3 DEF HeldByPusher, HeldByTask, Pushing, Filling, Exclusive, InPush, InUnstuck
  <2>3. QED
    BY <1>1, <1>3, <2>1, <2>2
<1>4. QED
  BY <1>2, <1>3

\* The item of a producer moves to the end of pending_tasks.
LEMMA PushPendingSomewhere ==
  ASSUME RingInv, Somewhere, NEW p \in Producers, PushPending(p)
  PROVE  Somewhere'
<1> USE DEF RingInv, TypeOK, WriterTypeOK, PushPending, ProducerGoto, history
<1>1. \A i : HeldByPusher(i) \/ HeldByTask(i) => i = cur[p]
  BY DEF HeldByPusher, HeldByTask, Pushing, Filling, Exclusive, InPush, InUnstuck
<1> DEFINE task == [item |-> cur[p], waiter |-> kind[p] = "await"]
<1>2. task \in Task
  BY DEF Holding, Pushing, Task
<1>3. \A i : InPending(i) \/ i = cur[p] => InPending(i)'
  BY <1>2, AppendHolds DEF InPending
<1>4. QED
  BY <1>1, <1>3 DEF Somewhere, InLog

\* unstuck_handler takes the first pending task into its hands, or none.
LEMMA FillSomewhere ==
  ASSUME RingInv, Somewhere, UnstuckFill
  PROVE  Somewhere'
<1> USE DEF RingInv, TypeOK, WriterTypeOK, UnstuckFill, UnstuckGoto, history
<1>1. CASE pending' = pending /\ upc' = "check"
  BY <1>1 DEF Somewhere, InLog, InPending, HeldByPusher, HeldByTask, Pushing, Filling
<1>2. CASE pending # << >> /\ ucur' = Head(pending) /\ pending' = Tail(pending) /\ upc' = "write"
  <2>1. ASSUME NEW i, InPending(i) PROVE InPending(i)' \/ HeldByTask(i)'
    <3>1. PICK k \in DOMAIN pending : pending[k].item = i
      BY <2>1 DEF InPending
    <3>2. CASE k = 1
      BY <1>2, <3>1, <3>2, TailHolds DEF HeldByTask, Filling
    <3>3. CASE k # 1
      <4>1. k - 1 \in DOMAIN pending' /\ pending'[k - 1] = pending[k]
        BY <1>2, <3>3, TailHolds
      <4>2. QED
        BY <3>1, <4>1 DEF InPending
    <3>4. QED
      BY <3>2, <3>3
  <2>2. \A i : ~HeldByTask(i) /\ (HeldByPusher(i) => HeldByPusher(i)')
    BY DEF HeldByTask, HeldByPusher, Filling, Pushing
  <2>3. QED
    BY <2>1, <2>2 DEF Somewhere, InLog
<1>3. QED
  BY <1>1, <1>2

\* No step drops an item.
LEMMA StepSomewhere ==
  ASSUME RingInv, Somewhere, [Next]_vars
  PROVE  Somewhere'
<1> USE DEF RingInv, TypeOK, WriterTypeOK
<1>1. CASE ReaderStep
  BY <1>1, SomewhereQuiet DEF ReaderStep, MarkWorking, PopLoad, PopRead, PopAdvance, StuckCheck,
     MarkUnstuck, NotifyUnstuck, HandleItem, RingDrained, YieldCheck, MarkUnworking, RecheckEmpty,
     AwaitWork, writeVars, history, Pushing, Filling
<1>2. CASE UnstuckStep
  <2> USE DEF UnstuckGoto, Pushing, Filling, history
  <2>1. CASE UnstuckFill \/ UnstuckPublish
    BY <2>1, FillSomewhere, PublishSomewhere
  <2>2. CASE UnstuckLock \/ UnstuckWrite \/ UnstuckWake
    BY <2>2, SomewhereQuiet DEF UnstuckLock, UnstuckWrite, UnstuckWake
  <2>3. CASE UnstuckCheck \/ UnstuckMark \/ UnstuckNotify
    BY <2>3, SomewhereQuiet DEF UnstuckCheck, UnstuckMark, UnstuckNotify
  <2>4. CASE UnstuckRestick \/ UnstuckFull \/ AwaitUnstuck
    BY <2>4, SomewhereQuiet DEF UnstuckRestick, UnstuckFull, AwaitUnstuck
  <2>5. QED
    BY <1>2, <2>1, <2>2, <2>3, <2>4 DEF UnstuckStep, UnstuckBody
<1>3. ASSUME NEW p \in Producers, ProducerStep(p) PROVE Somewhere'
  <2> USE DEF ProducerGoto, Pushing, Filling, history
  <2>1. CASE PushStart(p) \/ PushPublish(p) \/ PushPending(p)
    BY <2>1, PushLoadSomewhere, PublishSomewhere, PushPendingSomewhere DEF PushStart
  <2>2. CASE PushWrite(p) \/ PushCheck(p) \/ PushMark(p) \/ PushNotify(p)
    BY <2>2, SomewhereQuiet DEF PushWrite, PushCheck, PushMark, PushNotify
  <2>3. CASE PollHandle(p) \/ DropHandle(p) \/ NotifyManually(p)
    BY <2>3, SomewhereQuiet DEF PollHandle, DropHandle, NotifyManually
  <2>4. QED
    BY <1>3, <2>1, <2>2, <2>3 DEF ProducerStep, PushStep
<1>4. CASE UNCHANGED vars
  BY <1>4, SomewhereQuiet DEF vars, writeVars, history, Pushing, Filling
<1>5. QED
  BY <1>1, <1>2, <1>3, <1>4 DEF Next

\* An item that was pushed is in the hands of its pusher, in pending_tasks, in
\* the hands of unstuck_handler, or published.
THEOREM SomewhereInvariant == Spec => []Somewhere
<1>1. Init => Somewhere
  BY DEF Init, Somewhere
<1>2. QED
  BY <1>1, StepSomewhere, RingInvariant, PTL DEF Spec

-----------------------------------------------------------------------------
(* Exactly one *)

\* At least one place and at most one make one holder.
LEMMA HoldersCounted ==
  ASSUME RingInv, OnePlace, Somewhere
  PROVE  OneHolder
<1> USE DEF RingInv, TypeOK, WriterTypeOK, HistoryTypeOK
<1> SUFFICES ASSUME NEW i \in Items
             PROVE  Cardinality(Holders(i)) = (IF i <= next THEN 1 ELSE 0)
  BY DEF OneHolder
<1> DEFINE inLog     == {<<"log", k>> : k \in {j \in DOMAIN log : log[j] = i}}
           inPending == {<<"pending", k>> : k \in {j \in DOMAIN pending : pending[j].item = i}}
           inHands   == {<<"producer", p>> : p \in HoldingProducers(i)}
           inTask    == IF HeldByUnstuck(i) THEN {<<"unstuck", UTask>>} ELSE {}
<1>1. Holders(i) = inLog \cup inPending \cup inHands \cup inTask
  BY DEF Holders
<1> HIDE DEF inLog, inPending, inHands, inTask
<1>2. /\ ~InLog(i) => inLog = {}
      /\ ~InPending(i) => inPending = {}
      /\ ~HeldByPusher(i) => inHands = {}
      /\ ~HeldByTask(i) => inTask = {}
  BY DEF inLog, inPending, inHands, inTask, InLog, InPending, HeldByPusher, HeldByTask,
     HoldingProducers, HeldByUnstuck, Pushing, Filling
<1>3. ASSUME InLog(i) PROVE \E h : inLog = {h}
  <2>1. PICK k \in DOMAIN log : log[k] = i
    BY <1>3 DEF InLog
  <2>2. {j \in DOMAIN log : log[j] = i} = {k}
    BY <2>1 DEF OnePlace
  <2>3. inLog = {<<"log", k>>}
    BY <2>2 DEF inLog
  <2>4. QED
    BY <2>3
<1>4. ASSUME InPending(i) PROVE \E h : inPending = {h}
  <2>1. PICK k \in DOMAIN pending : pending[k].item = i
    BY <1>4 DEF InPending
  <2>2. {j \in DOMAIN pending : pending[j].item = i} = {k}
    BY <2>1 DEF OnePlace
  <2>3. inPending = {<<"pending", k>>}
    BY <2>2 DEF inPending
  <2>4. QED
    BY <2>3
<1>5. ASSUME HeldByPusher(i) PROVE \E h : inHands = {h}
  <2>1. PICK p \in Producers : Pushing(p) /\ cur[p] = i
    BY <1>5 DEF HeldByPusher
  <2>2. HoldingProducers(i) = {p}
    BY <2>1 DEF HoldingProducers, Exclusive, InPush, Pushing
  <2>3. inHands = {<<"producer", p>>}
    BY <2>2 DEF inHands
  <2>4. QED
    BY <2>3
<1>6. HeldByTask(i) => \E h : inTask = {h}
  BY DEF inTask, HeldByTask, HeldByUnstuck, Filling
<1>7. /\ InLog(i) => ~InPending(i) /\ ~HeldByPusher(i) /\ ~HeldByTask(i)
      /\ InPending(i) => ~HeldByPusher(i) /\ ~HeldByTask(i)
  BY DEF OnePlace, InPending, HeldByPusher, HeldByTask
<1>8. HeldByPusher(i) => ~HeldByTask(i)
  BY DEF HeldByPusher, HeldByTask, Exclusive, InPush, InUnstuck, Pushing, Filling
<1>9. CASE i <= next
  <2>1. InLog(i) \/ InPending(i) \/ HeldByPusher(i) \/ HeldByTask(i)
    BY <1>9 DEF Somewhere, Items
  <2>2. \E h : Holders(i) = {h}
    BY <1>1, <1>2, <1>3, <1>4, <1>5, <1>6, <1>7, <1>8, <2>1
  <2>3. QED
    BY <1>9, <2>2, FS_Singleton
<1>10. CASE ~(i <= next)
  <2>1. ~InLog(i) /\ ~InPending(i) /\ ~HeldByPusher(i) /\ ~HeldByTask(i)
    BY <1>10 DEF OnePlace, Fresh, InLog, InPending, HeldByPusher, HeldByTask
  <2>2. Holders(i) = {}
    BY <1>1, <1>2, <2>1
  <2>3. QED
    BY <1>10, <2>2, FS_EmptySet
<1>11. QED
  BY <1>9, <1>10

\* No item is lost or doubled on its way into the ring, for any number of
\* producers, any ring size and any mix of the push operations.
THEOREM NoItemLost == Spec => []OneHolder
  BY RingInvariant, PlacesInvariant, SomewhereInvariant, HoldersCounted, PTL

-----------------------------------------------------------------------------
(* Awaiters *)

Waiting(p) == pc[p] \in {"poll", "parked"}

\* A WakerSlot that exists belongs to an item that left the hands of its
\* producer; it is Finished only when the item is in the log; until then the
\* task that carries it is on its way.
SlotsFollow ==
  /\ \A i \in Items : waker[i] # "absent" => i <= next
  /\ \A i \in Items : waker[i] = "finished" => InLog(i)
  /\ upc = "wake" => InLog(ucur.item) /\ ucur.waiter
  /\ \A p \in Producers : Pushing(p) => waker[cur[p]] = "absent"
HandleWaits(p) ==
  /\ Waiting(p) => cur[p] \in Items /\ waker[cur[p]] # "absent"
  /\ Waiting(p) /\ waker[cur[p]] # "finished" => ToBeWoken(cur[p])
  /\ pc[p] = "parked" => waker[cur[p]] = "some"
HandlesWait == \A p \in Producers : HandleWaits(p)
AwaitInv == SlotsFollow /\ HandlesWait

\* Steps that leave the slots, the tasks and the handles as they are.
LEMMA AwaitQuiet ==
  ASSUME AwaitInv,
         UNCHANGED <<next, log, pending, cur, ucur, waker>>,
         \A p \in Producers : (Pushing(p)' => Pushing(p)) /\ (Waiting(p)' => Waiting(p)),
         \A p \in Producers : pc'[p] = "parked" => pc[p] = "parked",
         upc' \in {"write", "publish", "wake"} <=> upc \in {"write", "publish", "wake"},
         upc' = "wake" => upc = "wake"
  PROVE  AwaitInv'
  BY DEF AwaitInv, SlotsFollow, HandlesWait, HandleWaits, InLog, ToBeWoken

\* A push begins: the slot of its item does not exist yet.
LEMMA PushLoadAwait ==
  ASSUME RingInv, AwaitInv, NEW p \in Producers, NEW k \in Kinds, PushLoad(p, k)
  PROVE  AwaitInv'
<1> USE DEF RingInv, TypeOK, WriterTypeOK, HistoryTypeOK, PushLoad, ProducerGoto
<1>1. PICK new \in Items : new = next + 1
  BY DEF Items
<1>2. waker[new] = "absent" /\ cur' = [cur EXCEPT ![p] = new] /\ next' = new
  BY <1>1 DEF AwaitInv, SlotsFollow
<1>3. SlotsFollow'
  BY <1>1, <1>2 DEF AwaitInv, SlotsFollow, InLog, Pushing, Exclusive, InPush, Items
<1>4. HandlesWait'
  BY <1>2 DEF AwaitInv, HandlesWait, HandleWaits, Waiting, ToBeWoken
<1>5. QED
  BY <1>3, <1>4 DEF AwaitInv

\* The log grows, and unstuck_handler keeps the task it wakes next.
LEMMA PublishAwait ==
  ASSUME RingInv, AwaitInv,
         UnstuckPublish \/ \E p \in Producers : PushPublish(p)
  PROVE  AwaitInv'
<1> USE DEF RingInv, TypeOK, WriterTypeOK, HistoryTypeOK
<1>1. CASE UnstuckPublish
  <2> USE DEF UnstuckPublish, UnstuckGoto
  <2>1. ucur.item \in Items
    BY <1>1 DEF Holding, Task
  <2>2. \A i : InLog(i) \/ i = ucur.item => InLog(i)'
    BY <1>1, <2>1, AppendHolds DEF InLog
  <2>3. SlotsFollow'
    BY <1>1, <2>2 DEF AwaitInv, SlotsFollow, Pushing
  <2>4. HandlesWait'
    BY <1>1 DEF AwaitInv, HandlesWait, HandleWaits, Waiting, ToBeWoken
  <2>5. QED
    BY <2>3, <2>4 DEF AwaitInv
<1>2. ASSUME NEW p \in Producers, PushPublish(p) PROVE AwaitInv'
  <2> USE DEF PushPublish, ProducerGoto
  <2>1. cur[p] \in Items
    BY <1>2 DEF Pushing, Holding
  <2>2. \A i : InLog(i) => InLog(i)'
    BY <1>2, <2>1, AppendHolds DEF InLog
  <2>3. SlotsFollow'
    BY <1>2, <2>2 DEF AwaitInv, SlotsFollow, Pushing
  <2>4. HandlesWait'
    BY <1>2 DEF AwaitInv, HandlesWait, HandleWaits, Waiting, ToBeWoken
  <2>5. QED
    BY <2>3, <2>4 DEF AwaitInv
<1>3. QED
  BY <1>1, <1>2

\* An item that found the ring full is queued, with a new slot if it has an
\* awaiter.
LEMMA PushPendingAwait ==
  ASSUME RingInv, OnePlace, AwaitInv, NEW p \in Producers, PushPending(p)
  PROVE  AwaitInv'
<1> USE DEF RingInv, TypeOK, WriterTypeOK, PushPending, ProducerGoto, history
<1> DEFINE task == [item |-> cur[p], waiter |-> kind[p] = "await"]
<1>1. task \in Task /\ cur[p] \in Items /\ cur[p] <= next /\ waker[cur[p]] = "absent"
  BY DEF Holding, Pushing, Task, OnePlace, Fresh, AwaitInv, SlotsFollow
<1>2. \A q \in Producers : ~Pushing(q)'
  BY DEF Pushing, Exclusive, InPush
<1>3. \A i : ToBeWoken(i) \/ (i = cur[p] /\ kind[p] = "await") => ToBeWoken(i)'
  <2>1. /\ DOMAIN pending' = DOMAIN pending \cup {Len(pending) + 1}
        /\ \A k \in DOMAIN pending : pending'[k] = pending[k]
        /\ pending'[Len(pending) + 1] = task
    BY <1>1, AppendHolds
  <2>2. QED
    BY <2>1 DEF ToBeWoken
<1>4. \A i \in Items : i # cur[p] => waker'[i] = waker[i]
  BY <1>1
<1>5. waker'[cur[p]] = IF kind[p] = "await" THEN "none" ELSE "absent"
  BY <1>1
<1>6. SlotsFollow'
  BY <1>1, <1>2, <1>4, <1>5 DEF AwaitInv, SlotsFollow, InLog
<1>7. HandlesWait'
  <2> SUFFICES ASSUME NEW q \in Producers PROVE HandleWaits(q)'
    BY DEF HandlesWait
  <2>2. CASE q = p
    BY <1>1, <1>3, <1>5, <2>2 DEF HandleWaits, Waiting
  <2>3. CASE q # p
    <3>1. Waiting(q) => cur[q] # cur[p]
      BY <1>1 DEF AwaitInv, HandlesWait, HandleWaits
    <3>2. QED
      BY <1>3, <1>4, <2>3, <3>1 DEF AwaitInv, HandlesWait, HandleWaits, Waiting
  <2>4. QED
    BY <2>2, <2>3
<1>8. QED
  BY <1>6, <1>7 DEF AwaitInv

\* A task keeps its waiter when unstuck_handler takes it.
LEMMA FillAwait ==
  ASSUME RingInv, AwaitInv, UnstuckFill
  PROVE  AwaitInv'
<1> USE DEF RingInv, TypeOK, WriterTypeOK, UnstuckFill, UnstuckGoto, history
<1>1. CASE pending' = pending /\ upc' = "check" /\ UNCHANGED ucur
  BY <1>1, AwaitQuiet DEF Pushing, Waiting
<1>2. CASE pending # << >> /\ ucur' = Head(pending) /\ pending' = Tail(pending) /\ upc' = "write"
  <2>1. ASSUME NEW i, ToBeWoken(i) PROVE ToBeWoken(i)'
    <3>1. PICK k \in DOMAIN pending : pending[k] = [item |-> i, waiter |-> TRUE]
      BY <2>1 DEF ToBeWoken
    <3>2. CASE k = 1
      BY <1>2, <3>1, <3>2, TailHolds DEF ToBeWoken
    <3>3. CASE k # 1
      <4>1. k - 1 \in DOMAIN pending' /\ pending'[k - 1] = pending[k]
        BY <1>2, <3>3, TailHolds
      <4>2. QED
        BY <3>1, <4>1 DEF ToBeWoken
    <3>4. QED
      BY <3>2, <3>3
  <2>2. QED
    BY <1>2, <2>1 DEF AwaitInv, SlotsFollow, HandlesWait, HandleWaits, InLog, Pushing, Waiting
<1>3. QED
  BY <1>1, <1>2

\* The slot becomes Finished, and whoever sleeps on it polls again.
LEMMA WakeAwait ==
  ASSUME RingInv, OnePlace, AwaitInv, UnstuckWake
  PROVE  AwaitInv'
<1> USE DEF RingInv, TypeOK, WriterTypeOK, UnstuckWake, UnstuckGoto, history
<1>1. ucur.item \in Items
  BY DEF Holding, Task
<1>2. \A p \in Producers : (Waiting(p)' <=> Waiting(p)) /\ ~Pushing(p)'
  BY DEF Waiting, Pushing, Exclusive, InPush, InUnstuck
<1>3. /\ waker'[ucur.item] = "finished" /\ InLog(ucur.item)
      /\ \A i \in Items : i # ucur.item => waker'[i] = waker[i]
      /\ ucur.item <= next
  BY <1>1 DEF AwaitInv, SlotsFollow, OnePlace, InLog, Fresh
<1>4. SlotsFollow'
  BY <1>1, <1>2, <1>3 DEF AwaitInv, SlotsFollow, InLog
<1>5. HandlesWait'
  <2> SUFFICES ASSUME NEW p \in Producers PROVE HandleWaits(p)'
    BY DEF HandlesWait
  <2>2. CASE Waiting(p) /\ cur[p] = ucur.item
    BY <1>1, <2>2 DEF AwaitInv, HandlesWait, HandleWaits, Waiting
  <2>3. CASE ~(Waiting(p) /\ cur[p] = ucur.item)
    <3>1. \A i : i # ucur.item /\ ToBeWoken(i) => ToBeWoken(i)'
      BY DEF ToBeWoken
    <3>2. QED
      BY <1>1, <1>2, <2>3, <3>1 DEF AwaitInv, HandlesWait, HandleWaits, Waiting
  <2>4. QED
    BY <2>2, <2>3
<1>6. QED
  BY <1>4, <1>5 DEF AwaitInv

\* A handle that is polled before its slot is Finished leaves a waker there.
LEMMA PollAwait ==
  ASSUME RingInv, AwaitInv, NEW p \in Producers, PollHandle(p)
  PROVE  AwaitInv'
<1> USE DEF RingInv, TypeOK, WriterTypeOK, PollHandle, ProducerGoto, history
<1>1. cur[p] \in Items /\ waker[cur[p]] # "absent"
  BY DEF AwaitInv, HandlesWait, HandleWaits, Waiting
<1>2. \A i \in Items : /\ waker'[i] = "finished" <=> waker[i] = "finished"
                       /\ waker'[i] = "absent" <=> waker[i] = "absent"
                       /\ waker[i] = "some" => waker'[i] = "some"
  BY <1>1
<1>3. \A q \in Producers : Pushing(q)' => cur[q] \in Items /\ Pushing(q)
  BY DEF Pushing, Holding
<1>4. SlotsFollow'
  BY <1>2, <1>3 DEF AwaitInv, SlotsFollow, InLog
<1>5. HandlesWait'
  <2> SUFFICES ASSUME NEW q \in Producers PROVE HandleWaits(q)'
    BY DEF HandlesWait
  <2>2. CASE q = p
    BY <1>1, <2>2 DEF AwaitInv, HandlesWait, HandleWaits, Waiting, ToBeWoken
  <2>3. CASE q # p
    BY <1>2, <2>3 DEF AwaitInv, HandlesWait, HandleWaits, Waiting, ToBeWoken
  <2>4. QED
    BY <2>2, <2>3
<1>6. QED
  BY <1>4, <1>5 DEF AwaitInv

\* Every step of the ring keeps the promises to awaiters.
LEMMA StepAwait ==
  ASSUME RingInv, OnePlace, AwaitInv, [Next]_vars
  PROVE  AwaitInv'
<1> USE DEF RingInv, TypeOK, WriterTypeOK
<1>1. CASE ReaderStep
  BY <1>1, AwaitQuiet DEF ReaderStep, MarkWorking, PopLoad, PopRead, PopAdvance, StuckCheck,
     MarkUnstuck, NotifyUnstuck, HandleItem, RingDrained, YieldCheck, MarkUnworking, RecheckEmpty,
     AwaitWork, writeVars, history, Pushing, Waiting
<1>2. CASE UnstuckStep
  <2> USE DEF UnstuckGoto, Pushing, Waiting, history
  <2>1. CASE UnstuckFill \/ UnstuckPublish \/ UnstuckWake
    BY <2>1, FillAwait, PublishAwait, WakeAwait
  <2>2. CASE UnstuckLock \/ UnstuckWrite
    BY <2>2, AwaitQuiet DEF UnstuckLock, UnstuckWrite
  <2>3. CASE UnstuckCheck \/ UnstuckMark \/ UnstuckNotify
    BY <2>3, AwaitQuiet DEF UnstuckCheck, UnstuckMark, UnstuckNotify
  <2>4. CASE UnstuckRestick \/ UnstuckFull \/ AwaitUnstuck
    BY <2>4, AwaitQuiet DEF UnstuckRestick, UnstuckFull, AwaitUnstuck
  <2>5. QED
    BY <1>2, <2>1, <2>2, <2>3, <2>4 DEF UnstuckStep, UnstuckBody
<1>3. ASSUME NEW p \in Producers, ProducerStep(p) PROVE AwaitInv'
  <2> USE DEF ProducerGoto, Pushing, Waiting, history
  <2>1. CASE PushStart(p) \/ PushPublish(p) \/ PushPending(p) \/ PollHandle(p)
    BY <2>1, PushLoadAwait, PublishAwait, PushPendingAwait, PollAwait DEF PushStart
  <2>2. CASE PushWrite(p) \/ PushCheck(p) \/ PushMark(p) \/ PushNotify(p)
    BY <2>2, AwaitQuiet DEF PushWrite, PushCheck, PushMark, PushNotify
  <2>3. CASE DropHandle(p) \/ NotifyManually(p)
    BY <2>3, AwaitQuiet DEF DropHandle, NotifyManually
  <2>4. QED
    BY <1>3, <2>1, <2>2, <2>3 DEF ProducerStep, PushStep, PushStart
<1>4. CASE UNCHANGED vars
  BY <1>4, AwaitQuiet DEF vars, writeVars, history, Pushing, Waiting
<1>5. QED
  BY <1>1, <1>2, <1>3, <1>4 DEF Next

\* AwaitInv is what AwaiterSound needs.
LEMMA AwaitEnough == RingInv /\ AwaitInv => AwaiterSound
<1> SUFFICES ASSUME RingInv, AwaitInv PROVE AwaiterSound
  OBVIOUS
<1>1. \A i \in Items : waker[i] = "finished" => i \in SetOf(log)
  BY DEF AwaitInv, SlotsFollow, InLog, SetOf
<1>2. QED
  BY <1>1 DEF AwaiterSound, AwaitInv, HandlesWait, HandleWaits, Waiting

\* A handle that is ready has its item in the ring, and a caller that sleeps on
\* one is woken: the waker it left can only be taken by unstuck_handler, which
\* has the task of that very item ahead of it.
THEOREM HandlesKeepTheirPromise == Spec => []AwaiterSound
<1>1. Init => AwaitInv
  BY DEF Init, AwaitInv, SlotsFollow, HandlesWait, HandleWaits, Waiting, Pushing
<1>2. QED
  BY <1>1, AwaitEnough, StepAwait, RingInvariant, PlacesInvariant, PTL DEF Spec

-----------------------------------------------------------------------------
(* The order of items *)

\* Whoever holds the mutex between its load and its store has the newest item;
\* pending_tasks is in the order of the pushes, and unstuck_handler has what was
\* before all of it.
QueueOrder ==
  /\ \A p \in Producers : Pushing(p) => cur[p] = next
  /\ \A j, k \in DOMAIN pending : j < k => pending[j].item < pending[k].item
  /\ Filling => \A k \in DOMAIN pending : ucur.item < pending[k].item

\* Steps that keep the items where they are keep their order.
LEMMA OrderQuiet ==
  ASSUME QueueOrder, UNCHANGED <<next, pending, cur, ucur>>,
         \A p \in Producers : Pushing(p)' => Pushing(p),
         Filling' => Filling
  PROVE  QueueOrder'
  BY DEF QueueOrder

\* A push begins when nobody else is inside one.
LEMMA PushLoadOrder ==
  ASSUME RingInv, QueueOrder, NEW p \in Producers, NEW k \in Kinds, PushLoad(p, k)
  PROVE  QueueOrder'
<1> USE DEF RingInv, TypeOK, WriterTypeOK, PushLoad, ProducerGoto
<1>1. \A q \in Producers \ {p} : ~Pushing(q)'
  BY DEF Exclusive, Pushing, InPush
<1>2. ~Filling'
  BY DEF Exclusive, Filling, InUnstuck
<1>3. cur'[p] = next'
  OBVIOUS
<1>4. QED
  BY <1>1, <1>2, <1>3 DEF QueueOrder

\* An overflowed item goes behind all that overflowed before.
LEMMA PushPendingOrder ==
  ASSUME RingInv, OnePlace, QueueOrder, NEW p \in Producers, PushPending(p)
  PROVE  QueueOrder'
<1> USE DEF RingInv, TypeOK, WriterTypeOK, PushPending, ProducerGoto, history
<1>1. Pushing(p) /\ ~Filling /\ ~Filling'
  BY DEF Pushing, Filling, Exclusive, InPush, InUnstuck
<1>2. cur[p] = next /\ ~InPending(cur[p]) /\ cur[p] \in Nat
  BY <1>1 DEF QueueOrder, OnePlace, Holding, Items
<1>3. \A k \in DOMAIN pending : pending[k].item < cur[p]
  <2> SUFFICES ASSUME NEW k \in DOMAIN pending PROVE pending[k].item < cur[p]
    OBVIOUS
  <2>1. pending[k].item \in 1 .. next
    BY DEF OnePlace, Fresh
  <2>2. pending[k].item # cur[p]
    BY <1>2 DEF InPending
  <2>3. QED
    BY <1>2, <2>1, <2>2
<1> DEFINE task == [item |-> cur[p], waiter |-> kind[p] = "await"]
<1>4. task \in Task /\ task.item = cur[p]
  BY <1>1 DEF Holding, Task
<1> HIDE DEF task
<1>5. /\ DOMAIN pending' = DOMAIN pending \cup {Len(pending) + 1}
      /\ \A k \in DOMAIN pending : pending'[k] = pending[k]
      /\ pending'[Len(pending) + 1] = task
  BY <1>4, AppendHolds DEF task
<1>6. DOMAIN pending = 1 .. Len(pending) /\ Len(pending) \in Nat
  OBVIOUS
<1>7. ASSUME NEW j \in DOMAIN pending', NEW k \in DOMAIN pending', j < k
      PROVE  pending'[j].item < pending'[k].item
  <2>1. j \in DOMAIN pending
    BY <1>5, <1>6, <1>7
  <2>2. CASE k \in DOMAIN pending
    BY <1>5, <1>7, <2>1, <2>2 DEF QueueOrder
  <2>3. CASE k = Len(pending) + 1
    BY <1>3, <1>4, <1>5, <2>1, <2>3
  <2>4. QED
    BY <1>5, <2>2, <2>3
<1>8. \A q \in Producers : Pushing(q)' => Pushing(q)
  BY DEF Pushing
<1>9. QED
  BY <1>1, <1>7, <1>8 DEF QueueOrder

\* unstuck_handler takes the first task, which all others are behind.
LEMMA FillOrder ==
  ASSUME RingInv, QueueOrder, UnstuckFill
  PROVE  QueueOrder'
<1> USE DEF RingInv, TypeOK, WriterTypeOK, UnstuckFill, UnstuckGoto, history
<1>1. \A p \in Producers : ~Pushing(p)'
  BY DEF Exclusive, InPush, InUnstuck, Pushing
<1>2. CASE pending' = pending /\ upc' = "check"
  BY <1>1, <1>2 DEF QueueOrder, Filling
<1>3. CASE pending # << >> /\ ucur' = Head(pending) /\ pending' = Tail(pending) /\ upc' = "write"
  <2>1. \A k \in DOMAIN pending' : k + 1 \in DOMAIN pending /\ pending'[k] = pending[k + 1]
        /\ k \in Nat /\ 1 < k + 1
    BY <1>3
  <2>2. ucur' = pending[1] /\ 1 \in DOMAIN pending
    BY <1>3
  <2>3. \A k \in DOMAIN pending' : ucur'.item < pending'[k].item
    BY <2>1, <2>2 DEF QueueOrder
  <2>4. ASSUME NEW j \in DOMAIN pending', NEW k \in DOMAIN pending', j < k
        PROVE  pending'[j].item < pending'[k].item
    <3>1. j + 1 \in DOMAIN pending /\ k + 1 \in DOMAIN pending /\ j + 1 < k + 1
      BY <2>1, <2>4
    <3>2. pending'[j] = pending[j + 1] /\ pending'[k] = pending[k + 1]
      BY <2>1
    <3>3. QED
      BY <3>1, <3>2 DEF QueueOrder
  <2>5. QED
    BY <1>1, <2>3, <2>4 DEF QueueOrder
<1>4. QED
  BY <1>2, <1>3

\* No step puts two items in the wrong order.
LEMMA StepOrder ==
  ASSUME RingInv, OnePlace, QueueOrder, [Next]_vars
  PROVE  QueueOrder'
<1> USE DEF RingInv, TypeOK, WriterTypeOK
<1>1. CASE ReaderStep
  BY <1>1, OrderQuiet DEF ReaderStep, MarkWorking, PopLoad, PopRead, PopAdvance, StuckCheck,
     MarkUnstuck, NotifyUnstuck, HandleItem, RingDrained, YieldCheck, MarkUnworking, RecheckEmpty,
     AwaitWork, writeVars, history, Pushing, Filling
<1>2. CASE UnstuckStep
  <2> USE DEF UnstuckGoto, Pushing, Filling, history
  <2>1. CASE UnstuckFill
    BY <2>1, FillOrder
  <2>2. CASE UnstuckLock \/ UnstuckWrite \/ UnstuckPublish \/ UnstuckWake
    BY <2>2, OrderQuiet DEF UnstuckLock, UnstuckWrite, UnstuckPublish, UnstuckWake
  <2>3. CASE UnstuckCheck \/ UnstuckMark \/ UnstuckNotify
    BY <2>3, OrderQuiet DEF UnstuckCheck, UnstuckMark, UnstuckNotify
  <2>4. CASE UnstuckRestick \/ UnstuckFull \/ AwaitUnstuck
    BY <2>4, OrderQuiet DEF UnstuckRestick, UnstuckFull, AwaitUnstuck
  <2>5. QED
    BY <1>2, <2>1, <2>2, <2>3, <2>4 DEF UnstuckStep, UnstuckBody
<1>3. ASSUME NEW p \in Producers, ProducerStep(p) PROVE QueueOrder'
  <2> USE DEF ProducerGoto, Pushing, Filling, history
  <2>1. CASE PushStart(p)
    BY <2>1, PushLoadOrder, MemRingAssumption DEF PushStart
  <2>2. CASE PushPending(p)
    BY <2>2, PushPendingOrder
  <2>3. CASE PushWrite(p) \/ PushPublish(p) \/ PushCheck(p) \/ PushMark(p) \/ PushNotify(p)
    BY <2>3, OrderQuiet DEF PushWrite, PushPublish, PushCheck, PushMark, PushNotify
  <2>4. CASE PollHandle(p) \/ DropHandle(p) \/ NotifyManually(p)
    BY <2>4, OrderQuiet DEF PollHandle, DropHandle, NotifyManually
  <2>5. QED
    BY <1>3, <2>1, <2>2, <2>3, <2>4 DEF ProducerStep, PushStep
<1>4. CASE UNCHANGED vars
  BY <1>4, OrderQuiet DEF vars, writeVars, history, Pushing, Filling
<1>5. QED
  BY <1>1, <1>2, <1>3, <1>4 DEF Next

\* Pushes and overflows keep their order in every reachable state.
THEOREM OrderInvariant == Spec => []QueueOrder
<1>1. Init => QueueOrder
  BY DEF Init, QueueOrder, Pushing, Filling
<1>2. QED
  BY <1>1, StepOrder, RingInvariant, PlacesInvariant, PTL DEF Spec

\* What a step may publish: the newest item there is, or one that is older than
\* all that are pending.
PublishesInOrder ==
  log' # log =>
    \E i \in Items :
      /\ log' = Append(log, i)
      /\ \/ i = next /\ \A k \in DOMAIN log : log[k] < i
         \/ \A k \in DOMAIN pending : i < pending[k].item

\* A producer publishes the newest item, unstuck_handler the oldest it has, and
\* nobody else publishes.
LEMMA StepPublishes ==
  ASSUME RingInv, OnePlace, QueueOrder, [Next]_vars
  PROVE  PublishesInOrder
<1> USE DEF RingInv
<1>1. CASE UnstuckPublish
  <2>1. Filling /\ log' = Append(log, ucur.item)
    BY <1>1 DEF UnstuckPublish, UnstuckGoto, Filling
  <2>2. ucur.item \in Items
    BY <2>1 DEF Holding, Filling, Task
  <2>3. QED
    BY <2>1, <2>2 DEF QueueOrder, PublishesInOrder
<1>2. ASSUME NEW p \in Producers, PushPublish(p) PROVE PublishesInOrder
  <2>1. Pushing(p) /\ log' = Append(log, cur[p])
    BY <1>2 DEF PushPublish, ProducerGoto, Pushing
  <2>2. cur[p] \in Items /\ cur[p] = next /\ ~InLog(cur[p]) /\ \A k \in DOMAIN log : Fresh(log[k])
    BY <2>1 DEF Holding, QueueOrder, OnePlace
  <2>3. ASSUME NEW k \in DOMAIN log PROVE log[k] < cur[p]
    <3>1. log[k] \in 1 .. next /\ log[k] # next /\ next \in Nat
      BY <2>2 DEF Fresh, InLog, Items
    <3>2. QED
      BY <2>2, <3>1
  <2>4. QED
    BY <2>1, <2>2, <2>3 DEF PublishesInOrder
<1>3. CASE UNCHANGED log
  BY <1>3 DEF PublishesInOrder
<1>4. UnstuckPublish \/ (\E p \in Producers : PushPublish(p)) \/ UNCHANGED log
  <2>1. CASE ReaderStep
    BY <2>1 DEF ReaderStep, MarkWorking, PopLoad, PopRead, PopAdvance, StuckCheck, MarkUnstuck,
       NotifyUnstuck, HandleItem, RingDrained, YieldCheck, MarkUnworking, RecheckEmpty, AwaitWork,
       history
  <2>2. CASE UnstuckStep
    BY <2>2 DEF UnstuckStep, UnstuckBody, UnstuckLock, UnstuckFill, UnstuckWrite, UnstuckWake,
       UnstuckCheck, UnstuckMark, UnstuckNotify, UnstuckRestick, UnstuckFull, AwaitUnstuck, history
  <2>3. CASE \E p \in Producers : ProducerStep(p)
    BY <2>3 DEF ProducerStep, PushStart, PushStep, PushLoad, PushWrite, PushCheck, PushMark,
       PushNotify, PushPending, PollHandle, DropHandle, NotifyManually, history
  <2>4. CASE UNCHANGED vars
    BY <2>4 DEF vars, history
  <2>5. QED
    BY <2>1, <2>2, <2>3, <2>4 DEF Next
<1>5. QED
  BY <1>1, <1>2, <1>3, <1>4

\* Messages may overtake one another only where the ring was full: an item that
\* found room at its load is published after all older ones that found room, and
\* those that overflowed are published in the order of their pushes.  An item
\* that overflowed can be overtaken by any number of younger ones, for push looks
\* at the ring and not at pending_tasks.
THEOREM OrderKept == Spec => [][PublishesInOrder]_vars
  BY StepPublishes, OrderInvariant, RingInvariant, PlacesInvariant, PTL DEF Spec

-----------------------------------------------------------------------------
(* At rest *)

\* Nobody can move on its own: the reader sleeps with no byte in flight,
\* unstuck_handler sleeps so too or wants a mutex that is taken, and no producer
\* is inside a call or is due to poll its handle.  Every other position of the
\* three has a step that is not guarded.
ReaderRests   == rpc = "wait" /\ workFd = 0
UnstuckSleeps == upc = "wait" /\ unstuckFd = 0
UnstuckBlocks == upc = "drain" /\ lock # NoOne
Halted ==
  /\ ReaderRests
  /\ UnstuckSleeps \/ UnstuckBlocks
  /\ \A p \in Producers : pc[p] \in {"idle", "parked"}

\* What was pushed is either handled or still pending, and never both.
Settled ==
  \A i \in 1 .. next : IF InPending(i) THEN i \notin SetOf(handled) ELSE i \in SetOf(handled)

\* Who waits for a handle waits for a task that is still pending.
SleepersPending ==
  \A p \in Producers : pc[p] = "parked"
    => \E k \in DOMAIN pending : pending[k] = [item |-> cur[p], waiter |-> TRUE]

RestSound ==
  Halted =>
    /\ lock = NoOne /\ upc = "wait"
    /\ unnotified \/ (IsEmpty /\ Settled)
    /\ pending # << >> => stuck = 1
    /\ SleepersPending

\* A reader at rest has popped all there is.
LEMMA RestDrains ==
  ASSUME NoLostWakeup, Halted, ~unnotified
  PROVE  IsEmpty
<1>1. ~\E p \in Producers : pc[p] \in {"check", "mark", "notify"}
  BY DEF Halted
<1>2. upc \notin {"fill", "write", "publish", "wake", "check", "mark", "notify"}
  BY DEF Halted, UnstuckSleeps, UnstuckBlocks
<1>3. QED
  BY <1>1, <1>2 DEF NoLostWakeup, WakeupOwed, Halted, ReaderRests

\* With the ring empty the handled items are the published ones.
LEMMA RestHandled ==
  ASSUME RingInv, ReaderRests, IsEmpty
  PROVE  \A i : InLog(i) <=> i \in SetOf(handled)
<1>1. ritem = None /\ head = tail
  BY DEF RingInv, ReaderView, ReaderRests, IsEmpty
<1>2. Len(handled) = Len(log) /\ \A k \in DOMAIN handled : handled[k] = log[k]
  BY <1>1 DEF RingInv, HandledInOrder, RingHoldsLog
<1>3. DOMAIN handled = DOMAIN log
  BY <1>2 DEF RingInv, TypeOK, HistoryTypeOK
<1>4. QED
  BY <1>2, <1>3 DEF InLog, SetOf

\* Nobody holds an item at rest, so what is not in the ring is pending.
LEMMA RestSettles ==
  ASSUME RingInv, OnePlace, Somewhere, Halted, IsEmpty
  PROVE  Settled
<1>1. \A i : InLog(i) <=> i \in SetOf(handled)
  BY RestHandled DEF Halted
<1>2. ~Filling /\ \A p \in Producers : ~Pushing(p)
  BY DEF Halted, UnstuckSleeps, UnstuckBlocks, Filling, Pushing
<1>3. \A i \in 1 .. next : InLog(i) \/ InPending(i)
  BY <1>2 DEF Somewhere, HeldByPusher, HeldByTask
<1>4. \A i : ~(InLog(i) /\ InPending(i))
  BY DEF OnePlace, InPending
<1>5. QED
  BY <1>1, <1>3, <1>4 DEF Settled

\* A parked caller's task is pending: nobody else has it at rest.
LEMMA RestSleepers ==
  ASSUME AwaiterSound, Halted
  PROVE  SleepersPending
  BY DEF AwaiterSound, ToBeWoken, Halted, UnstuckSleeps, UnstuckBlocks, SleepersPending

\* Nobody owns the mutex at rest, so that unstuck_handler is not kept from it.
LEMMA RestUnlocked ==
  ASSUME TypeOK, MutexOwned, Halted
  PROVE  lock = NoOne /\ upc = "wait" /\ unstuckFd = 0
<1>1. \A p \in Producers : lock # p
  BY DEF MutexOwned, InPush, Halted
<1>2. lock # UTask
  BY DEF MutexOwned, InUnstuck, Halted, UnstuckSleeps, UnstuckBlocks
<1>3. lock = NoOne
  BY <1>1, <1>2 DEF TypeOK, WriterTypeOK
<1>4. QED
  BY <1>3 DEF Halted, UnstuckSleeps, UnstuckBlocks

\* The invariants together are what RestSound needs.
LEMMA RestEnough ==
  RingInv /\ OnePlace /\ Somewhere /\ AwaiterSound /\ MutexOwned /\ NoLostWakeup /\ PendingFlagged
    => RestSound
<1> SUFFICES ASSUME RingInv, OnePlace, Somewhere, AwaiterSound, MutexOwned, NoLostWakeup,
                    PendingFlagged, Halted
             PROVE  /\ lock = NoOne /\ upc = "wait"
                    /\ unnotified \/ (IsEmpty /\ Settled)
                    /\ pending # << >> => stuck = 1
                    /\ SleepersPending
  BY DEF RestSound
<1>1. lock = NoOne /\ upc = "wait" /\ unstuckFd = 0
  BY RestUnlocked DEF RingInv
<1>2. unnotified \/ (IsEmpty /\ Settled)
  BY RestDrains, RestSettles
<1>3. pending # << >> => stuck = 1
  BY <1>1 DEF PendingFlagged, Halted, ReaderRests
<1>4. QED
  BY <1>1, <1>2, <1>3, RestSleepers

\* The ring never comes to rest with work it knows of: when nothing moves any
\* more, no mutex is held, the handler has seen every item but those that are
\* pending, those are announced by the stuck flag for the next pop to see, and
\* every sleeping caller waits for one of them.  The exception is an item
\* published by push_without_notify whose notify_manually is still to come.
THEOREM NothingLeftAtRest == Spec => []RestSound
  BY RestEnough, RingInvariant, PlacesInvariant, SomewhereInvariant, HandlesKeepTheirPromise,
     MutexCorrect, WakeupsKept, FlagKept, PTL
=============================================================================
