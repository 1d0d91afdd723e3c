------------------------ MODULE MemRingChannelProofs ------------------------
(***************************************************************************)
(* MemRing implements Channel: an item given to push is handled at most    *)
(* once, and nothing else is handled.                                      *)
(*                                                                         *)
(* The only difficult step is HandleItem: the item must not have been      *)
(* handled before.  RingInv says that the handler follows the log; OnePlace *)
(* says that an item enters the log once, because it is taken out of one   *)
(* place (a producer, pending_tasks, unstuck_handler) when it enters the   *)
(* next.                                                                   *)
(***************************************************************************)
EXTENDS MemRingProofs

USE MemRingAssumption

Fresh(i)      == i \in 1 .. next
InLog(i)      == \E k \in DOMAIN log : log[k] = i
InPending(i)  == \E k \in DOMAIN pending : pending[k].item = i

\* The places exclude one another, and none holds an item twice.
OnePlace ==
  /\ \A k \in DOMAIN log : Fresh(log[k])
  /\ \A k \in DOMAIN pending : Fresh(pending[k].item)
  /\ \A j, k \in DOMAIN log : log[j] = log[k] => j = k
  /\ \A j, k \in DOMAIN pending : pending[j].item = pending[k].item => j = k
  /\ \A k \in DOMAIN pending : ~InLog(pending[k].item)
  /\ \A p \in Producers : Pushing(p) => Fresh(cur[p]) /\ ~InLog(cur[p]) /\ ~InPending(cur[p])
  /\ Filling => Fresh(ucur.item) /\ ~InLog(ucur.item) /\ ~InPending(ucur.item)

\* Steps that keep every item where it is.
LEMMA PlacesQuiet ==
  ASSUME RingInv, OnePlace,
         UNCHANGED <<next, log, pending, cur, ucur>>,
         \A p \in Producers : Pushing(p)' => Pushing(p),
         Filling' => Filling
  PROVE  OnePlace'
  BY DEF OnePlace, Fresh, InLog, InPending, Pushing, Filling

\* A push begins with an item that is in no place yet.
LEMMA PushLoadPlaces ==
  ASSUME RingInv, OnePlace, NEW p \in Producers, NEW k \in Kinds, PushLoad(p, k)
  PROVE  OnePlace'
<1> USE DEF RingInv, TypeOK, WriterTypeOK, HistoryTypeOK, PushLoad, ProducerGoto
<1>1. PICK new \in Items : new = next + 1
  BY DEF Items
<1>2. Fresh(new)' /\ ~InLog(new) /\ ~InPending(new) /\ cur'[p] = new
  BY <1>1 DEF OnePlace, Fresh, InLog, InPending
<1>3. \A q \in Producers \ {p} : ~Pushing(q)'
  BY DEF Exclusive, Pushing, InPush
<1>4. ~Filling'
  BY DEF Exclusive, Filling, InUnstuck
<1>5. QED
  BY <1>2, <1>3, <1>4 DEF OnePlace, Fresh, InLog, InPending

\* The item at hand moves into the log.
LEMMA LogPlaces ==
  ASSUME RingInv, OnePlace, NEW item \in Items,
         Fresh(item), ~InLog(item), ~InPending(item),
         log' = Append(log, item), UNCHANGED <<next, pending>>,
         \A p \in Producers : ~Pushing(p)', ~Filling'
  PROVE  OnePlace'
<1> USE DEF RingInv, TypeOK, WriterTypeOK, HistoryTypeOK
<1>1. /\ DOMAIN log' = 1 .. Len(log) + 1
      /\ \A k \in DOMAIN log : log'[k] = log[k]
      /\ log'[Len(log) + 1] = item
      /\ DOMAIN log = 1 .. Len(log)
  OBVIOUS
<1>2. \A i : InLog(i)' => InLog(i) \/ i = item
  BY <1>1 DEF InLog
<1>3. \A j, k \in DOMAIN log' : log'[j] = log'[k] => j = k
  BY <1>1 DEF OnePlace, InLog
<1>4. \A k \in DOMAIN log' : Fresh(log'[k])
  BY <1>1 DEF OnePlace, Fresh
<1>5. \A k \in DOMAIN pending : ~InLog(pending[k].item)'
  BY <1>2 DEF OnePlace, InPending
<1>6. QED
  BY <1>3, <1>4, <1>5 DEF OnePlace, Fresh

\* A store to tail moves an item from the hands of its writer into the log.
LEMMA PublishPlaces ==
  ASSUME RingInv, OnePlace,
         UnstuckPublish \/ \E p \in Producers : PushPublish(p)
  PROVE  OnePlace'
<1> USE DEF RingInv, TypeOK, WriterTypeOK
<1>1. CASE UnstuckPublish
  <2> USE DEF UnstuckPublish, UnstuckGoto
  <2>1. Filling /\ ucur.item \in Items
    BY <1>1 DEF Filling, Holding, Task
  <2>2. ~Filling' /\ \A p \in Producers : ~Pushing(p)'
    BY <1>1 DEF Filling, Pushing, Exclusive, InPush, InUnstuck
  <2>3. QED
    BY <1>1, <2>1, <2>2, LogPlaces DEF OnePlace
<1>2. ASSUME NEW p \in Producers, PushPublish(p) PROVE OnePlace'
  <2> USE DEF PushPublish, ProducerGoto
  <2>1. Pushing(p) /\ cur[p] \in Items
    BY <1>2 DEF Pushing, Holding
  <2>2. ~Filling' /\ \A q \in Producers : ~Pushing(q)'
    BY <1>2 DEF Filling, Pushing, Exclusive, InPush, InUnstuck
  <2>3. QED
    BY <1>2, <2>1, <2>2, LogPlaces DEF OnePlace
<1>3. QED
  BY <1>1, <1>2

\* The item of a producer moves to the end of pending_tasks.
LEMMA PushPendingPlaces ==
  ASSUME RingInv, OnePlace, NEW p \in Producers, PushPending(p)
  PROVE  OnePlace'
<1> USE DEF RingInv, TypeOK, WriterTypeOK, PushPending, ProducerGoto, history
<1>1. Fresh(cur[p]) /\ ~InLog(cur[p]) /\ ~InPending(cur[p])
  BY DEF OnePlace, Pushing
<1>2. /\ DOMAIN pending = 1 .. Len(pending) /\ DOMAIN pending' = 1 .. Len(pending) + 1
      /\ \A k \in DOMAIN pending : pending'[k] = pending[k]
      /\ pending'[Len(pending) + 1].item = cur[p]
  OBVIOUS
<1>3. ~Filling' /\ \A q \in Producers : ~Pushing(q)'
  BY DEF Filling, Pushing, Exclusive, InPush, InUnstuck
<1>4. \A j, k \in DOMAIN pending' : pending'[j].item = pending'[k].item => j = k
  BY <1>1, <1>2 DEF OnePlace, InPending
<1>5. \A k \in DOMAIN pending' : Fresh(pending'[k].item) /\ ~InLog(pending'[k].item)
  BY <1>1, <1>2 DEF OnePlace
<1>6. QED
  BY <1>3, <1>4, <1>5 DEF OnePlace, Fresh, InLog

\* unstuck_handler takes the first pending task into its hands, or none.
LEMMA FillPlaces ==
  ASSUME RingInv, OnePlace, UnstuckFill
  PROVE  OnePlace'
<1> USE DEF RingInv, TypeOK, WriterTypeOK, UnstuckFill, UnstuckGoto, history
<1>1. CASE pending' = pending /\ upc' = "check"
  BY <1>1 DEF OnePlace, Fresh, InLog, InPending, Pushing, Filling
<1>2. CASE pending # << >> /\ ucur' = Head(pending) /\ pending' = Tail(pending)
  <2>1. /\ DOMAIN pending = 1 .. Len(pending) /\ 1 \in DOMAIN pending
        /\ DOMAIN pending' = 1 .. Len(pending) - 1
        /\ \A k \in DOMAIN pending' : pending'[k] = pending[k + 1]
        /\ ucur' = pending[1]
    BY <1>2
  <2>2. \A k \in DOMAIN pending' : k + 1 \in DOMAIN pending /\ k + 1 # 1
    BY <2>1
  <2>3. Fresh(ucur'.item) /\ ~InLog(ucur'.item)
    BY <2>1 DEF OnePlace
  <2>4. \A k \in DOMAIN pending' : pending'[k].item # ucur'.item
    BY <2>1, <2>2 DEF OnePlace
  <2>5. \A k \in DOMAIN pending' : Fresh(pending'[k].item) /\ ~InLog(pending'[k].item)
    BY <2>1, <2>2 DEF OnePlace
  <2>6. \A j, k \in DOMAIN pending' : pending'[j].item = pending'[k].item => j = k
    <3>1. TAKE j, k \in DOMAIN pending'
    <3>2. HAVE pending'[j].item = pending'[k].item
    <3>3. j + 1 = k + 1
      BY <2>1, <2>2, <3>2 DEF OnePlace
    <3>4. QED
      BY <2>1, <3>3
  <2>7. \A p \in Producers : ~Pushing(p)'
    BY DEF Pushing, Exclusive, InPush, InUnstuck
  <2>8. QED
    BY <2>3, <2>4, <2>5, <2>6, <2>7 DEF OnePlace, Fresh, InLog, InPending
<1>3. QED
  BY <1>1, <1>2

\* No step puts an item into two places, or into one place twice.
LEMMA StepPlaces ==
  ASSUME RingInv, OnePlace, [Next]_vars
  PROVE  OnePlace'
<1> USE DEF RingInv, TypeOK, WriterTypeOK
<1>1. CASE ReaderStep
  BY <1>1, PlacesQuiet DEF ReaderStep, MarkWorking, PopLoad, PopRead, PopAdvance, StuckCheck,
     MarkUnstuck, NotifyUnstuck, HandleItem, RingDrained, YieldCheck, MarkUnworking, RecheckEmpty,
     AwaitWork, writeVars, history, Pushing, Filling
<1>2. CASE UnstuckStep
  <2> USE DEF UnstuckGoto, Pushing, Filling, history
  <2>1. CASE UnstuckFill \/ UnstuckPublish
    BY <2>1, FillPlaces, PublishPlaces
  <2>2. CASE UnstuckLock \/ UnstuckWrite \/ UnstuckWake
    BY <2>2, PlacesQuiet DEF UnstuckLock, UnstuckWrite, UnstuckWake
  <2>3. CASE UnstuckCheck \/ UnstuckMark \/ UnstuckNotify
    BY <2>3, PlacesQuiet DEF UnstuckCheck, UnstuckMark, UnstuckNotify
  <2>4. CASE UnstuckRestick \/ UnstuckFull \/ AwaitUnstuck
    BY <2>4, PlacesQuiet DEF UnstuckRestick, UnstuckFull, AwaitUnstuck
  <2>5. QED
    BY <1>2, <2>1, <2>2, <2>3, <2>4 DEF UnstuckStep, UnstuckBody
<1>3. ASSUME NEW p \in Producers, ProducerStep(p) PROVE OnePlace'
  <2> USE DEF ProducerGoto, Pushing, Filling, history
  <2>1. CASE PushStart(p) \/ PushPublish(p) \/ PushPending(p)
    BY <2>1, PushLoadPlaces, PublishPlaces, PushPendingPlaces DEF PushStart
  <2>2. CASE PushWrite(p) \/ PushCheck(p) \/ PushMark(p) \/ PushNotify(p)
    BY <2>2, PlacesQuiet DEF PushWrite, PushCheck, PushMark, PushNotify
  <2>3. CASE PollHandle(p) \/ DropHandle(p) \/ NotifyManually(p)
    BY <2>3, PlacesQuiet DEF PollHandle, DropHandle, NotifyManually
  <2>4. QED
    BY <1>3, <2>1, <2>2, <2>3 DEF ProducerStep, PushStep
<1>4. CASE UNCHANGED vars
  BY <1>4, PlacesQuiet DEF vars, writeVars, history, Pushing, Filling
<1>5. QED
  BY <1>1, <1>2, <1>3, <1>4 DEF Next

\* push, pending_tasks, unstuck_handler and the ring never hold the same item.
THEOREM PlacesInvariant == Spec => []OnePlace
<1>1. Init => OnePlace
  BY DEF Init, OnePlace, Pushing, Filling
<1>2. QED
  BY <1>1, StepPlaces, RingInvariant, PTL DEF Spec

-----------------------------------------------------------------------------
(* The refinement *)

\* push of a new item is Send.
LEMMA PushIsSend ==
  ASSUME RingInv, NEW p \in Producers, NEW k \in Kinds, PushLoad(p, k)
  PROVE  C!Send(next + 1) /\ next + 1 \in Items
  BY DEF RingInv, TypeOK, HistoryTypeOK, PushLoad, C!Send, Items

\* The call of the handler is Deliver.
LEMMA HandleIsDeliver ==
  ASSUME RingInv, OnePlace, HandleItem
  PROVE  C!Deliver(ritem) /\ ritem \in Items
<1> USE DEF RingInv, TypeOK, HandleItem, ReaderGoto
<1>1. /\ ritem \in Items /\ head \in Nat /\ head > 0 /\ ritem = log[head]
      /\ Len(handled) = head - 1 /\ head <= Len(log)
  BY DEF ReaderView, ReaderTypeOK, HandledInOrder, RingHoldsLog, SharedTypeOK
<1>2. DOMAIN handled = 1 .. head - 1 /\ DOMAIN log = 1 .. Len(log)
  BY <1>1 DEF HistoryTypeOK
<1>3. \A k \in DOMAIN handled : handled[k] # ritem
  BY <1>1, <1>2 DEF OnePlace, HandledInOrder
<1>4. ritem \in 1 .. next
  BY <1>1, <1>2 DEF OnePlace, Fresh
<1>5. ritem \notin C!Delivered
  BY <1>3 DEF C!Delivered
<1>6. QED
  BY <1>1, <1>4, <1>5 DEF C!Deliver

\* Every other step of the reader, and every step of the writers after the
\* push began, is invisible to the channel.
LEMMA StepIsChannelStep ==
  ASSUME RingInv, OnePlace, [Next]_vars
  PROVE  [C!ChanNext]_C!chanVars
<1> USE DEF C!chanVars
<1>1. CASE ReaderStep
  <2>1. CASE HandleItem
    BY <2>1, HandleIsDeliver DEF C!ChanNext
  <2>2. CASE ~HandleItem
    BY <1>1, <2>2 DEF ReaderStep, MarkWorking, PopLoad, PopRead, PopAdvance, StuckCheck,
       MarkUnstuck, NotifyUnstuck, RingDrained, YieldCheck, MarkUnworking, RecheckEmpty,
       AwaitWork, history
  <2>3. QED
    BY <2>1, <2>2
<1>2. CASE UnstuckStep
  BY <1>2 DEF UnstuckStep, UnstuckBody, UnstuckLock, UnstuckFill, UnstuckWrite, UnstuckPublish,
     UnstuckWake, UnstuckCheck, UnstuckMark, UnstuckNotify, UnstuckRestick, UnstuckFull,
     AwaitUnstuck, history
<1>3. ASSUME NEW p \in Producers, ProducerStep(p) PROVE [C!ChanNext]_C!chanVars
  <2>1. CASE PushStart(p)
    BY <2>1, PushIsSend DEF PushStart, C!ChanNext
  <2>2. CASE PushStep(p)
    BY <2>2 DEF PushStep, PushWrite, PushPublish, PushCheck, PushMark, PushNotify, PushPending,
       PollHandle, history
  <2>3. CASE DropHandle(p) \/ NotifyManually(p)
    BY <2>3 DEF DropHandle, NotifyManually, history
  <2>4. QED
    BY <1>3, <2>1, <2>2, <2>3 DEF ProducerStep
<1>4. CASE UNCHANGED vars
  BY <1>4 DEF vars, history
<1>5. QED
  BY <1>1, <1>2, <1>3, <1>4 DEF Next

\* The ring with its overflow list and its tasks implements the channel.
THEOREM MemRingImplementsChannel == Spec => ChannelSpec
<1>1. Init => C!ChanInit
  BY DEF Init, C!ChanInit
<1>2. QED
  BY <1>1, StepIsChannelStep, RingInvariant, PlacesInvariant, PTL DEF Spec, ChannelSpec, C!ChanSpec
=============================================================================
