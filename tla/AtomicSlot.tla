----------------------------- MODULE AtomicSlot -----------------------------
(***************************************************************************)
(* One asynchronous call from Rust to Go: rust2go/src/future.rs            *)
(* (ResponseFuture) and the slot the two sides share, rust2go/src/slot.rs. *)
(*                                                                         *)
(* The future is owned by one task at a time and may be polled when no     *)
(* waker asked for it (a select around it), moved to another task, or      *)
(* dropped between any two polls.  On the other side a goroutine reads the *)
(* request out of memory the slot keeps alive, produces a response, and    *)
(* calls back into SlotWriter::write, which runs while the future is       *)
(* polled or dropped.                                                      *)
(*                                                                         *)
(* An action is one access to what both sides can reach: the state byte,   *)
(* the data cell, the waker under its mutex, the allocation.               *)
(***************************************************************************)
EXTENDS FiniteSets

CONSTANTS
  Tasks,     \* the tasks the future can be polled from
  NoTask     \* Option::<Waker>::None

ASSUME AtomicSlotAssumption == NoTask \notin Tasks

VARIABLES
  fut,        \* "init", "executed", "fused" or "dropped"
  owner,      \* the task that owns the future
  poll,       \* where a poll is: "out", "read", "attachment" or "fuse"
  go,         \* where the goroutine and the callback are
  taken,      \* the waker SlotWriter::write took and has yet to call
  written, writerGone, readerGone,  \* the bits 0b100, 0b001, 0b010
  data,       \* the cell: "uninit", "value", "moved" or "dropped"
  attachment, \* the request and its buffer: "held", "returned" or "dropped"
  waker,      \* the waker in the slot
  allocated,  \* the Box of SlotInner: "not yet", "live" or "freed"
  woken       \* the tasks a waker was called for and that have not polled since

bits == <<written, writerGone, readerGone>>
slot == <<bits, data, attachment, waker, allocated>>
vars == <<fut, owner, poll, go, taken, slot, woken>>

Init ==
  /\ fut = "init" /\ owner \in Tasks /\ poll = "out"
  /\ go = "not started" /\ taken = NoTask
  /\ written = FALSE /\ writerGone = FALSE /\ readerGone = FALSE
  /\ data = "uninit" /\ attachment = "held" /\ waker = NoTask
  /\ allocated = "not yet"
  /\ woken = {owner}

\* Box::from_raw and the Drop of SlotInner: the data is dropped if the written
\* bit is set, and the attachment and the waker with it.
Free ==
  /\ allocated' = "freed"
  /\ data' = IF written THEN "dropped" ELSE data
  /\ attachment' = IF attachment = "held" THEN "dropped" ELSE attachment
  /\ waker' = NoTask

Keep == UNCHANGED <<allocated, data, attachment, waker>>

-----------------------------------------------------------------------------
(* ResponseFuture *)

\* The first poll: nobody shares the slot until the call at its end, which
\* starts the goroutine.
FirstPoll ==
  /\ fut = "init" /\ poll = "out"
  /\ fut' = "executed" /\ go' = "request"
  /\ waker' = owner /\ allocated' = "live"
  /\ woken' = woken \ {owner}
  /\ UNCHANGED <<owner, poll, taken, bits, data, attachment>>

\* A later poll leaves its waker first.
SetWaker ==
  /\ fut = "executed" /\ poll = "out"
  /\ poll' = "read"
  /\ waker' = owner
  /\ woken' = woken \ {owner}
  /\ UNCHANGED <<fut, owner, go, taken, bits, data, attachment, allocated>>

\* Mutant: a written slot is read before its writer is gone.
ReadSlot_Early ==
  /\ poll = "read"
  /\ IF written
       THEN poll' = "attachment" /\ data' = "moved" /\ written' = FALSE
       ELSE poll' = "out" /\ UNCHANGED <<data, written>>
  /\ UNCHANGED <<fut, owner, go, taken, writerGone, readerGone, attachment, waker, allocated, woken>>

\* Mutant: the written bit stays set.
ReadSlot_KeepsBit ==
  /\ poll = "read"
  /\ IF written /\ writerGone
       THEN poll' = "attachment" /\ data' = "moved"
       ELSE poll' = "out" /\ UNCHANGED data
  /\ UNCHANGED <<fut, owner, go, taken, bits, attachment, waker, allocated, woken>>

\* Only a written slot whose writer is gone is read; the copy and the clearing
\* of the written bit cannot be told apart, for nobody else changes the state.
ReadSlot ==
  /\ poll = "read"
  /\ IF written /\ writerGone
       THEN poll' = "attachment" /\ data' = "moved" /\ written' = FALSE
       ELSE poll' = "out" /\ UNCHANGED <<data, written>>
  /\ UNCHANGED <<fut, owner, go, taken, writerGone, readerGone, attachment, waker, allocated, woken>>

TakeAttachment ==
  /\ poll = "attachment"
  /\ poll' = "fuse"
  /\ attachment' = "returned"
  /\ UNCHANGED <<fut, owner, go, taken, bits, data, waker, allocated, woken>>

\* Mutant: the reader frees the slot as a plain Box would.
DropReader_Frees ==
  /\ readerGone' = TRUE
  /\ Free
  /\ UNCHANGED <<written, writerGone>>

\* Drop of SlotReader: set the bit, and free the slot if the writer is gone.
DropReader ==
  /\ readerGone' = TRUE
  /\ IF writerGone THEN Free ELSE Keep
  /\ UNCHANGED <<written, writerGone>>

\* Executed becomes Fused, which drops the reader, and the poll is Ready.
Fuse ==
  /\ poll = "fuse"
  /\ poll' = "out" /\ fut' = "fused"
  /\ DropReader
  /\ UNCHANGED <<owner, go, taken, woken>>

\* The caller drops the future, before its first poll or between two polls.
DropFuture ==
  /\ fut \in {"init", "executed"} /\ poll = "out"
  /\ fut' = "dropped"
  /\ IF fut = "executed" THEN DropReader
     ELSE /\ attachment' = "dropped"
          /\ UNCHANGED <<bits, data, waker, allocated>>
  /\ UNCHANGED <<owner, poll, go, taken, woken>>

\* The future is handed to another task, which polls what it was given.
MoveFuture ==
  /\ fut \in {"init", "executed"} /\ poll = "out"
  /\ \E t \in Tasks \ {owner} : owner' = t /\ woken' = woken \cup {t}
  /\ UNCHANGED <<fut, poll, go, taken, slot>>

-----------------------------------------------------------------------------
(* The goroutine and SlotWriter::write *)

GoGoto(from, to) == go = from /\ go' = to

\* The Go function returned; the callback has copied the response.
Answer ==
  /\ GoGoto("request", "claim")
  /\ UNCHANGED <<fut, owner, poll, taken, slot, woken>>

\* Set the written bit, which nobody else can have set.
Claim ==
  /\ GoGoto("claim", IF written THEN "gone" ELSE "store")
  /\ written' = TRUE
  /\ UNCHANGED <<fut, owner, poll, taken, writerGone, readerGone, data, attachment, waker,
                 allocated, woken>>

Store ==
  /\ GoGoto("store", "take")
  /\ data' = "value"
  /\ UNCHANGED <<fut, owner, poll, taken, bits, attachment, waker, allocated, woken>>

\* Mutant: the waker is called before the writer is dropped.
TakeWaker_WakesFirst ==
  /\ GoGoto("take", "gone")
  /\ taken' = NoTask /\ waker' = NoTask
  /\ woken' = IF waker = NoTask THEN woken ELSE woken \cup {waker}
  /\ UNCHANGED <<fut, owner, poll, bits, data, attachment, allocated>>

TakeWaker ==
  /\ GoGoto("take", "gone")
  /\ taken' = waker /\ waker' = NoTask
  /\ UNCHANGED <<fut, owner, poll, bits, data, attachment, allocated, woken>>

\* Mutant: the writer frees the slot without asking for the reader.
DropWriter_Frees ==
  /\ GoGoto("gone", IF taken = NoTask THEN "done" ELSE "wake")
  /\ writerGone' = TRUE
  /\ Free
  /\ UNCHANGED <<fut, owner, poll, taken, written, readerGone, woken>>

\* Mutant: the writer leaves the slot to the reader.
DropWriter_Leaks ==
  /\ GoGoto("gone", IF taken = NoTask THEN "done" ELSE "wake")
  /\ writerGone' = TRUE
  /\ Keep
  /\ UNCHANGED <<fut, owner, poll, taken, written, readerGone, woken>>

\* Drop of SlotWriter, explicitly before the waker is called, or at the end of
\* write: set the bit, and free the slot if the reader is gone.
DropWriter ==
  /\ GoGoto("gone", IF taken = NoTask THEN "done" ELSE "wake")
  /\ writerGone' = TRUE
  /\ IF readerGone THEN Free ELSE Keep
  /\ UNCHANGED <<fut, owner, poll, taken, written, readerGone, woken>>

Wake ==
  /\ GoGoto("wake", "done")
  /\ woken' = woken \cup {taken} /\ taken' = NoTask
  /\ UNCHANGED <<fut, owner, poll, slot>>

-----------------------------------------------------------------------------

PollStep == ReadSlot \/ TakeAttachment \/ Fuse
FutStep  == FirstPoll \/ SetWaker \/ PollStep \/ DropFuture \/ MoveFuture
GoStep   == Answer \/ Claim \/ Store \/ TakeWaker \/ DropWriter \/ Wake
Next     == FutStep \/ GoStep
Spec     == Init /\ [][Next]_vars

\* The executor polls a task that was woken, and a poll runs to its end.  The
\* user's Go function returns, and the callback runs to its end.
WokenPoll == owner \in woken /\ (FirstPoll \/ SetWaker)
FairSpec  == Spec /\ WF_vars(WokenPoll) /\ WF_vars(PollStep) /\ WF_vars(GoStep)

-----------------------------------------------------------------------------
(* Properties *)

\* Every variable stays in its set.
TypeOK ==
  /\ fut \in {"init", "executed", "fused", "dropped"} /\ owner \in Tasks
  /\ poll \in {"out", "read", "attachment", "fuse"}
  /\ go \in {"not started", "request", "claim", "store", "take", "gone", "wake", "done"}
  /\ taken \in Tasks \cup {NoTask} /\ waker \in Tasks \cup {NoTask}
  /\ written \in BOOLEAN /\ writerGone \in BOOLEAN /\ readerGone \in BOOLEAN
  /\ data \in {"uninit", "value", "moved", "dropped"}
  /\ attachment \in {"held", "returned", "dropped"}
  /\ allocated \in {"not yet", "live", "freed"}
  /\ woken \subseteq Tasks

\* Neither side reaches into the slot after it is freed, whichever side goes
\* first and wherever the other one is.
RustInSlot     == fut = "executed"
GoInSlot       == go \in {"request", "claim", "store", "take", "gone"}
NoUseAfterFree == RustInSlot \/ GoInSlot => allocated = "live"

\* "the slot pointer of the callback ffi operation, and the user parameters are
\* valid when the future drops" (README.md 41): the goroutine reads the request
\* in place, and it is there until the goroutine is done with it, also when the
\* future was dropped in the meantime.
RequestAlive == GoInSlot => attachment = "held"

\* The response leaves the slot once: it is moved to the caller, or dropped
\* with the slot.  A caller that gets one gets a complete one.
ResponseOnce ==
  /\ poll \in {"attachment", "fuse"} \/ fut = "fused" => data = "moved"
  /\ allocated = "freed" => data \in {"moved", "dropped"}

\* A slot both sides have left is freed: nobody leaks it.
NoLeak == fut \in {"fused", "dropped"} /\ go \in {"wake", "done"} => allocated = "freed"

\* What is moved out of the cell is a value that was stored there, and it is
\* moved at most once: an action property on the data cell.
DataMoves ==
  [][data' # data => \/ data = "uninit" /\ data' = "value"
                     \/ data = "value" /\ data' \in {"moved", "dropped"}]_vars

\* The future, the slot and the callback together are a OneShot: the caller is
\* given the response and its request together, or the slot ends both, and the
\* request ends when Go has left.  To the caller the response is there when the
\* writer has gone, and still there until the poll that reads it is over.
OneShotResponse ==
  IF ~writerGone THEN "none"
  ELSE IF poll \in {"attachment", "fuse"} \/ data = "value" THEN "ready"
  ELSE IF data = "moved" THEN "given" ELSE data

S == INSTANCE OneShot WITH
       caller <- CASE fut = "init" -> "idle" [] fut = "executed" -> "waiting"
                   [] fut = "fused" -> "answered" [] OTHER -> "gone",
       request <- IF poll = "fuse" THEN "held" ELSE attachment,
       response <- OneShotResponse
ShotSpec == S!ShotSpec

\* A call that Go answers is answered: the task that awaits it polls again after
\* the answer is there, however its polls and the callback interleave.
Answered == go = "done" ~> fut \in {"fused", "dropped"}

\* The same for a future that is never polled from another task once its first
\* poll started the call.  Without that, a poll from another task between
\* TakeWaker and DropWriter leaves a waker nobody calls.
AnsweredInPlace ==
  \A t \in Tasks : [](fut = "executed" => owner = t) => Answered
=============================================================================
