-------------------------- MODULE AtomicSlotProofs --------------------------
(***************************************************************************)
(* Theorems about AtomicSlot, for any set of tasks.                        *)
(*                                                                         *)
(* None of the safety properties is inductive: whether the slot may be     *)
(* freed depends on the two "gone" bits saying where the two sides are     *)
(* (BitsInv), and what is in the cell and in the attachment on the written *)
(* bit being set before the store, and cleared by the one read that is     *)
(* made after the writer is gone (CellInv, AttachmentInv).                 *)
(***************************************************************************)
EXTENDS AtomicSlot, TLAPS

\* The gone bits say which side has left, and the last one to leave frees.
BitsInv ==
  /\ go = "not started" <=> allocated = "not yet"
  /\ go = "not started" => fut \in {"init", "dropped"} /\ ~writerGone /\ ~readerGone
  /\ go # "not started" => fut # "init" /\ (readerGone <=> fut \in {"fused", "dropped"})
  /\ writerGone <=> go \in {"wake", "done"}
  /\ allocated = "freed" <=> readerGone /\ writerGone
  /\ poll # "out" => fut = "executed"
  /\ go = "wake" => taken # NoTask

\* Whoever took the value off the cell did it after the writer was gone.
Taken == poll \in {"attachment", "fuse"} \/ fut = "fused"

\* The written bit is set before the store; the read clears it.
CellInv ==
  /\ go \in {"not started", "request", "claim"} => ~written /\ data = "uninit"
  /\ go = "store" => written /\ data = "uninit"
  /\ go \in {"take", "gone"} => written /\ data = "value"
  /\ Taken => writerGone /\ ~written /\ data = "moved"
  /\ writerGone /\ ~Taken => written /\ data = (IF readerGone THEN "dropped" ELSE "value")

\* The request stays in the slot until the writer is gone and the poll takes it.
AttachmentInv ==
  /\ GoInSlot \/ fut = "init" => attachment = "held"
  /\ fut = "executed" /\ poll # "fuse" => attachment = "held"
  /\ poll = "fuse" => attachment = "returned"

SlotInv == TypeOK /\ BitsInv /\ CellInv /\ AttachmentInv

-----------------------------------------------------------------------------
USE AtomicSlotAssumption

\* The future before its first poll satisfies the invariant.
LEMMA InitSlot == Init => SlotInv
  BY DEF Init, SlotInv, TypeOK, BitsInv, CellInv, Taken, AttachmentInv, GoInSlot

\* Every step of the future keeps the invariant.
LEMMA FutureSlot ==
  ASSUME SlotInv, FutStep
  PROVE  SlotInv'
<1> USE DEF SlotInv, TypeOK, BitsInv, CellInv, Taken, AttachmentInv, GoInSlot, bits, slot
<1>1. CASE FirstPoll
  BY <1>1 DEF FirstPoll
<1>2. CASE SetWaker
  BY <1>2 DEF SetWaker
<1>3. CASE ReadSlot
  BY <1>3 DEF ReadSlot
<1>4. CASE TakeAttachment
  BY <1>4 DEF TakeAttachment
<1>5. CASE Fuse
  BY <1>5 DEF Fuse, DropReader, Free, Keep
<1>6. CASE DropFuture
  BY <1>6 DEF DropFuture, DropReader, Free, Keep
<1>7. CASE MoveFuture
  BY <1>7 DEF MoveFuture
<1>8. QED
  BY <1>1, <1>2, <1>3, <1>4, <1>5, <1>6, <1>7 DEF FutStep, PollStep

\* Every step of the goroutine and of the callback keeps the invariant.
LEMMA GoSlot ==
  ASSUME SlotInv, GoStep
  PROVE  SlotInv'
<1> USE DEF SlotInv, TypeOK, BitsInv, CellInv, Taken, AttachmentInv, GoInSlot, GoGoto, bits, slot
<1>1. CASE Answer
  BY <1>1 DEF Answer
<1>2. CASE Claim
  BY <1>2 DEF Claim
<1>3. CASE Store
  BY <1>3 DEF Store
<1>4. CASE TakeWaker
  BY <1>4 DEF TakeWaker
<1>5. CASE DropWriter
  BY <1>5 DEF DropWriter, Free, Keep
<1>6. CASE Wake
  BY <1>6 DEF Wake
<1>7. QED
  BY <1>1, <1>2, <1>3, <1>4, <1>5, <1>6 DEF GoStep

-----------------------------------------------------------------------------
(* Theorems *)

\* SlotInv holds in every state a call can reach.
THEOREM SlotInvariant == Spec => []SlotInv
<1>1. SlotInv /\ [Next]_vars => SlotInv'
  <2> SUFFICES ASSUME SlotInv, [Next]_vars PROVE SlotInv'
    OBVIOUS
  <2>1. CASE UNCHANGED vars
    BY <2>1 DEF vars, slot, bits, SlotInv, TypeOK, BitsInv, CellInv, Taken, AttachmentInv, GoInSlot
  <2>2. QED
    BY <2>1, FutureSlot, GoSlot DEF Next
<1>2. QED
  BY InitSlot, <1>1, PTL DEF Spec

\* Every variable keeps its type.
THEOREM TypeCorrect == Spec => []TypeOK
<1>1. SlotInv => TypeOK
  BY DEF SlotInv
<1>2. QED
  BY <1>1, SlotInvariant, PTL

\* Neither the future nor the callback touches a slot the other one has freed
\* (the two Drop implementations, slot.rs 160-174 and 218-232).
THEOREM SlotStaysAlive == Spec => []NoUseAfterFree
<1>1. SlotInv => NoUseAfterFree
  BY DEF SlotInv, TypeOK, BitsInv, NoUseAfterFree, RustInSlot, GoInSlot
<1>2. QED
  BY <1>1, SlotInvariant, PTL

\* The request Go reads in place outlives Go's use of it, also when the future
\* is dropped first (future.rs 64-65).
THEOREM RequestStaysAlive == Spec => []RequestAlive
<1>1. SlotInv => RequestAlive
  BY DEF SlotInv, AttachmentInv, RequestAlive
<1>2. QED
  BY <1>1, SlotInvariant, PTL

\* The response is moved out or dropped, never both and never neither.
THEOREM ResponseMovesOnce == Spec => []ResponseOnce
<1>1. SlotInv => ResponseOnce
  BY DEF SlotInv, TypeOK, BitsInv, CellInv, Taken, ResponseOnce
<1>2. QED
  BY <1>1, SlotInvariant, PTL

\* Whichever side leaves last frees the slot.
THEOREM SlotIsFreed == Spec => []NoLeak
<1>1. SlotInv => NoLeak
  BY DEF SlotInv, TypeOK, BitsInv, NoLeak
<1>2. QED
  BY <1>1, SlotInvariant, PTL

\* No step reads an empty cell, reads a cell twice or overwrites a value.
THEOREM CellMoves == Spec => DataMoves
<1> DEFINE Move == data' # data => \/ data = "uninit" /\ data' = "value"
                                   \/ data = "value" /\ data' \in {"moved", "dropped"}
<1>1. SlotInv /\ [Next]_vars => [Move]_vars
  <2> SUFFICES ASSUME SlotInv, Next PROVE Move
    BY DEF vars
  <2> USE DEF SlotInv, TypeOK, BitsInv, CellInv, Taken, GoGoto, bits, slot
  <2>1. CASE FutStep
    BY <2>1 DEF FutStep, PollStep, FirstPoll, SetWaker, ReadSlot, TakeAttachment, Fuse,
       DropFuture, MoveFuture, DropReader, Free, Keep
  <2>2. CASE GoStep
    BY <2>2 DEF GoStep, Answer, Claim, Store, TakeWaker, DropWriter, Wake, Free, Keep
  <2>3. QED
    BY <2>1, <2>2 DEF Next
<1>2. Spec => [][Move]_vars
  BY <1>1, SlotInvariant, PTL DEF Spec
<1>3. QED
  BY <1>2 DEF DataMoves

-----------------------------------------------------------------------------
(* Refinement *)

\* A future before its first poll is a call that was not made.
LEMMA InitIsOneShot == Init => S!ShotInit
  BY DEF Init, S!ShotInit, OneShotResponse

\* The first poll is the call, the end of the poll that read the cell is where
\* the caller receives, the drop is where it gives up.
LEMMA FutureIsOneShot ==
  ASSUME SlotInv, FutStep
  PROVE  [S!ShotNext]_S!shotVars
<1> USE DEF SlotInv, TypeOK, BitsInv, CellInv, Taken, AttachmentInv, GoInSlot, bits, slot,
            OneShotResponse, S!shotVars
<1>1. CASE FirstPoll
  BY <1>1 DEF FirstPoll, S!ShotNext, S!Call
<1>2. CASE SetWaker \/ ReadSlot \/ TakeAttachment \/ MoveFuture
  <2>1. CASE SetWaker
    BY <2>1 DEF SetWaker
  <2>2. CASE ReadSlot
    BY <2>2 DEF ReadSlot
  <2>3. CASE TakeAttachment
    BY <2>3 DEF TakeAttachment
  <2>4. CASE MoveFuture
    BY <2>4 DEF MoveFuture
  <2>5. QED
    BY <1>2, <2>1, <2>2, <2>3, <2>4
<1>3. CASE Fuse
  <2>1. data = "moved" /\ ~written /\ writerGone /\ fut = "executed" /\ poll = "fuse"
    BY <1>3 DEF Fuse
  <2>2. fut' = "fused" /\ poll' = "out" /\ UNCHANGED <<data, writerGone, attachment>>
    BY <1>3, <2>1 DEF Fuse, DropReader, Free
  <2>3. attachment = "returned"
    BY <2>1
  <2>4. QED
    BY <2>1, <2>2, <2>3 DEF S!ShotNext, S!Receive
<1>4. CASE DropFuture
  BY <1>4 DEF DropFuture, DropReader, Free, Keep, S!ShotNext, S!GiveUp
<1>5. QED
  BY <1>1, <1>2, <1>3, <1>4 DEF FutStep, PollStep

\* The other side responds when the writer is dropped, not when it stores.
LEMMA GoIsOneShot ==
  ASSUME SlotInv, GoStep
  PROVE  [S!ShotNext]_S!shotVars
<1> USE DEF SlotInv, TypeOK, BitsInv, CellInv, Taken, AttachmentInv, GoInSlot, GoGoto, bits, slot,
            OneShotResponse, S!shotVars
<1>1. CASE DropWriter
  BY <1>1 DEF DropWriter, Free, Keep, S!ShotNext, S!Respond
<1>2. CASE Answer
  BY <1>2 DEF Answer
<1>3. CASE Claim
  BY <1>3 DEF Claim
<1>4. CASE Store
  BY <1>4 DEF Store
<1>5. CASE TakeWaker
  BY <1>5 DEF TakeWaker
<1>6. CASE Wake
  BY <1>6 DEF Wake
<1>7. QED
  BY <1>1, <1>2, <1>3, <1>4, <1>5, <1>6 DEF GoStep

\* The slot with its two halves (slot.rs) and the future over it (future.rs)
\* implement the one-shot call, for any number of tasks.
THEOREM SlotImplementsOneShot == Spec => ShotSpec
<1>1. SlotInv /\ [Next]_vars => [S!ShotNext]_S!shotVars
  <2> SUFFICES ASSUME SlotInv, [Next]_vars PROVE [S!ShotNext]_S!shotVars
    OBVIOUS
  <2>1. CASE UNCHANGED vars
    BY <2>1 DEF vars, slot, bits, OneShotResponse, S!shotVars
  <2>2. QED
    BY <2>1, FutureIsOneShot, GoIsOneShot DEF Next
<1>2. QED
  BY InitIsOneShot, <1>1, SlotInvariant, PTL DEF Spec, ShotSpec, S!ShotSpec

-----------------------------------------------------------------------------
(* Wake-ups *)

\* The future stays where its first poll was.
InPlace == fut = "executed" => owner' = owner

\* The one who awaits the call is woken: once the callback is over, a future
\* that is not being polled has been asked to poll again.
WakeupKept == fut = "executed" /\ poll = "out" /\ go = "done" => owner \in woken

\* Its waker is in the slot, in the hands of the callback, or was called; a poll
\* that began after that finds the response.
WakeInv ==
  fut = "executed" /\ poll \in {"out", "read"} =>
    \/ go \in {"request", "claim", "store", "take"} /\ waker = owner
    \/ go \in {"gone", "wake"} /\ taken = owner
    \/ go = "done" /\ (owner \in woken \/ poll = "read")

\* A future that stays in its task keeps WakeInv.
LEMMA StepWake ==
  ASSUME SlotInv, WakeInv, [Next]_vars, [InPlace]_vars
  PROVE  WakeInv'
<1> USE DEF WakeInv, SlotInv, TypeOK, BitsInv, CellInv, Taken, bits, slot
<1>1. CASE FirstPoll
  BY <1>1 DEF FirstPoll
<1>2. CASE SetWaker
  BY <1>2 DEF SetWaker
<1>3. CASE ReadSlot
  BY <1>3 DEF ReadSlot
<1>4. CASE TakeAttachment \/ Fuse \/ DropFuture
  BY <1>4 DEF TakeAttachment, Fuse, DropFuture
<1>5. CASE MoveFuture
  <2>1. fut = "init" /\ fut' = "init"
    BY <1>5 DEF MoveFuture, InPlace, vars
  <2>2. QED
    BY <2>1
<1>6. CASE Answer \/ Claim \/ Store
  BY <1>6 DEF Answer, Claim, Store, GoGoto
<1>7. CASE TakeWaker
  BY <1>7 DEF TakeWaker, GoGoto
<1>8. CASE DropWriter
  BY <1>8, AtomicSlotAssumption DEF DropWriter, GoGoto
<1>9. CASE Wake
  BY <1>9 DEF Wake, GoGoto
<1>10. CASE UNCHANGED vars
  BY <1>10 DEF vars
<1>11. QED
  BY <1>1, <1>2, <1>3, <1>4, <1>5, <1>6, <1>7, <1>8, <1>9, <1>10 DEF Next, FutStep, PollStep, GoStep

\* What AnsweredInPlace rests on: no interleaving of polls and callback loses
\* the wake-up of a future that is polled by one task (slot.rs 148-157, 181-191).
\* Without the premise it is lost (MoveFuture between TakeWaker and Wake).
THEOREM WakesInPlace == Spec /\ [][InPlace]_vars => []WakeupKept
<1>1. Init => WakeInv
  BY DEF Init, WakeInv
<1>2. WakeInv => WakeupKept
  BY DEF WakeInv, WakeupKept
<1>3. QED
  BY <1>1, <1>2, StepWake, SlotInvariant, PTL DEF Spec

\* A later poll that leaves its waker between TakeWaker and DropWriter is one of
\* the task whose waker was just taken.
OnTime == SetWaker /\ go = "gone" => owner = taken

\* Where the wake-up of the future is: a task that was handed the future has yet
\* to poll it, its waker is in the slot, in the hands of the callback, or was
\* called, or the poll that is under way finds the response.
RouseInv ==
  fut = "executed" /\ poll \in {"out", "read"} =>
    \/ owner \in woken
    \/ go \in {"request", "claim", "store", "take"} /\ waker = owner
    \/ go \in {"gone", "wake"} /\ taken = owner
    \/ poll = "read" /\ writerGone

\* Every step on time keeps it, the moves to other tasks included.
LEMMA StepRouse ==
  ASSUME SlotInv, RouseInv, [Next]_vars, [OnTime]_vars
  PROVE  RouseInv'
<1> USE DEF RouseInv, SlotInv, TypeOK, BitsInv, CellInv, Taken, bits, slot
<1>1. CASE FirstPoll
  BY <1>1 DEF FirstPoll
<1>2. CASE SetWaker
  <2>1. poll' # poll
    BY <1>2 DEF SetWaker
  <2>2. go = "gone" => owner = taken
    BY <1>2, <2>1 DEF OnTime, vars
  <2>3. QED
    BY <1>2, <2>2 DEF SetWaker
<1>3. CASE ReadSlot
  BY <1>3 DEF ReadSlot
<1>4. CASE TakeAttachment \/ Fuse \/ DropFuture
  BY <1>4 DEF TakeAttachment, Fuse, DropFuture
<1>5. CASE MoveFuture
  BY <1>5 DEF MoveFuture
<1>6. CASE Answer \/ Claim \/ Store
  <2>1. go' \in {"request", "claim", "store", "take"} /\ go \in {"request", "claim", "store"}
    BY <1>6 DEF Answer, Claim, Store, GoGoto
  <2>2. UNCHANGED <<fut, owner, poll, writerGone, waker, woken>>
    BY <1>6 DEF Answer, Claim, Store
  <2>3. QED
    BY <2>1, <2>2
<1>7. CASE TakeWaker
  BY <1>7 DEF TakeWaker, GoGoto
<1>8. CASE DropWriter
  BY <1>8, AtomicSlotAssumption DEF DropWriter, GoGoto
<1>9. CASE Wake
  BY <1>9 DEF Wake, GoGoto
<1>10. CASE UNCHANGED vars
  BY <1>10 DEF vars
<1>11. QED
  BY <1>1, <1>2, <1>3, <1>4, <1>5, <1>6, <1>7, <1>8, <1>9, <1>10 DEF Next, FutStep, PollStep, GoStep

\* There is no other window in which a wake-up can be lost: a future may be
\* moved between tasks at any time, also while the callback runs, and is woken,
\* unless a task other than the one whose waker was taken polls it between
\* waker.take() and the drop of the writer (slot.rs 181-191). That it can be lost
\* there is what the run moved of MCAtomicSlot shows.
THEOREM WakesOnTime == Spec /\ [][OnTime]_vars => []WakeupKept
<1>1. Init => RouseInv
  BY DEF Init, RouseInv
<1>2. SlotInv /\ RouseInv => WakeupKept
  BY DEF SlotInv, BitsInv, RouseInv, WakeupKept
<1>3. QED
  BY <1>1, <1>2, StepRouse, SlotInvariant, PTL DEF Spec

-----------------------------------------------------------------------------
(* Branches the code need not take *)

\* The branch in which SlotInner::write hands the response back is never taken,
\* and the attachment is there when the poll that got a response unwraps it.
NoneRefused ==
  /\ go = "claim" => ~written
  /\ poll = "attachment" => attachment = "held"

\* "data has been written or another writer has got this bit(but this would not
\* happen in fact)" (slot.rs 114): it does not, the one writer finds the bit
\* clear, so that no response is dropped there; and attachment.unwrap() in poll
\* (future.rs 50) does not panic, whatever was polled, moved or dropped before.
THEOREM WriteNeverRefused == Spec => []NoneRefused
<1>1. SlotInv => NoneRefused
  BY DEF SlotInv, TypeOK, BitsInv, CellInv, AttachmentInv, NoneRefused
<1>2. QED
  BY <1>1, SlotInvariant, PTL
=============================================================================
