# A formal model of rust2go

rust2go lets Rust call Go (and Go call Rust) through generated code. Calls go
either through cgo and a one-shot slot, or through two rings in shared memory
(`mem-ring`, `rust2go-mem-ffi`). This directory holds TLA+ modules of the
concurrent core of that code, of its data conversions and of its code generation and
build, TLC configurations that check them, and proofs that
TLAPS checks. `PROJECT.json` maps every definition to the lines it stands for.

## 1. The system

| component | state | operations | behaviours that are hard |
|---|---|---|---|
| `mem-ring/src/queue.rs`, `eventfd.rs` | `head`, `tail`, `working`, `stuck`, slots (shared memory); two socket pairs; `WriteQueueInner { queue, pending_tasks }` under a mutex; a `WakerSlot` per awaited push | `push`, `push_without_notify`, `push_with_awaiter`, `notify_manually`, `pop`; tasks `working_handler`, `unstuck_handler`; `PushJoinHandle::poll`; `Guard` | the reader holds no lock; wake-ups cross with going to sleep; overflow list; full sockets |
| `mem-ring/queue.go`, `waiter.go`, `eventfd.go` | the same memory and sockets, `pendingTasks` under a `sync.Mutex` | `Push`, `RunHandler`, the goroutine of `Write` | mirrors the Rust code with differences in exactly the delicate places |
| `mem-ring/slab.go` | slots with a free list threaded through them, several slabs behind one key space | `Push`, `Pop` | the sentinel 0 of the free list, reuse of keys |
| `rust2go/src/slot.rs`, `future.rs` | state byte, data cell, attachment, waker, the allocation; `Init / Executed / Fused` | `poll`, `set_waker`, `read_with_attachment`, `write`, both `Drop`s | a future dropped, moved or polled while the callback runs; whoever leaves last frees |
| `rust2go-mem-ffi` and the code `r2g.rs` generates for `#[mem]` | request slab (Rust), reply slab (Go), two rings, `LocalFut` | `call`, `ringsInit`'s handlers, replies, drop messages | three messages per call, each keeping memory of the other side alive |
| `rust2go-convert`, and the conversions `rust2go-macro` and `rust2go-common` generate | buffers of one call | `to_size`, `to_ref`, `from_ref`; Go's `new`, `own`, `cnt`, `ref` functions | a buffer filled by other code than the one that computed its size, read by code of the other language |
| the rest of `rust2go-common`, `rust2go-macro`; `rust2go-cli` | the user's file, the Go file (which first holds the `Ref` structs cbindgen reads) | the checks of `try_from`, the macros `r2g` and `g2r`, `generate()` | Rust and Go code come from two readings of one file; functions in the ring are called by a number; what is imported follows from every function there is |
| `rust2go/src/build.rs` | the Go file, the library in `OUT_DIR` and its copy, what cargo believes to be up to date | `Builder::build` | skipped and failed runs, edits and a second generator meanwhile, a library that is loaded later |
| `asmcall`, `cgocall` | none | one C call on the system stack | assembly |

How they interact. A `#[mem]` call pushes a descriptor on the ring *Rust → Go*;
the Go reader starts a goroutine, which pushes the reply on the ring *Go → Rust*;
the Rust handler completes the `LocalFut` and pushes a drop message. A call that
is not `#[mem]` allocates a slot shared by a `ResponseFuture` and a C callback.
All shared state is either the memory of a ring, its sockets, or one slot.

What makes each part correct:

* ring: nothing torn, lost, repeated or overwritten; an item in exactly one
  place; a reader never asleep on an item nobody announces; overflowed tasks
  announced; an awaiting pusher woken; the mutex given back.
* slot: no access after free, no leak, no double move of the response; the
  request alive while Go reads it; an answered call completes.
* slab: a key in use is never handed out again; a key gives back what was stored.
* mem-ffi: request memory alive until the reply, reply memory until the drop
  message; a reply completes the call it belongs to.
* convert: buffers filled to the byte and aligned; arguments and results arrive;
  Go keeps no pointer into what Rust drops.
* generation: what both sides make of one version of a file fits, in the ring too; a
  function that may leave Go with parameters that have gone is declared `unsafe`; the Go
  file has the imports it needs.
* build: a program built of a file nobody touched meanwhile fits, whatever was
  skipped, repeated or failed before.

## 2. Modules

| module | what it is |
|---|---|
| `Channel` | abstract promise of one ring: each item delivered at most once, none invented. No order (see 5), no delivery guarantee. |
| `MemRing` | `queue.rs`, both sides in Rust. Implements `Channel`. |
| `GoRing` | `queue.go`'s reader and writer. `RustToGo` pairs the Go reader with the Rust writers, `GoToRust` the Go writers with the Rust reader; the shared memory and every action that is the same come from `MemRing`. |
| `MemFfi` | `rust2go-mem-ffi`, the code `r2g.rs` generates for `#[mem]` and `ringsInit` of `common.rs`: composes two `Channel`s and two `KeyPool`s. Implements `RemoteCall`. |
| `RemoteCall` | abstract promise of a call: run at most once and only if called, answered at most once, after its run, with its own response. |
| `OneShot` | abstract promise of an asynchronous call through a slot: the caller is given the response and its request together or neither, each ends once, the request not before the other side has left. |
| `KeyPool` | abstract promise of a slab: a key in use is not handed out, and gives back what was stored. |
| `GoSlab` | `slab.go`. Implements `KeyPool`. |
| `AtomicSlot` | `slot.rs` and `future.rs`, with the generated callback as environment. Implements `OneShot`. |
| `Convert` | `convert.rs`, the derive, the conversions `common.rs` generates, and the four ways `r2g.rs` and `g2r.rs` use them for a call. |
| `Generate` | what the macros and the generator make of a file's traits: refusals, `unsafe`, call numbers, names and numbers of arguments, imports, and what rustc, the linker and Go hold against them. |
| `Build` | `Builder::build` under cargo, `rust2go-cli` by hand, the user editing; uses `Generate`. |
| `Program` | composes `Build` and `Convert`: from the user's file to one call of the program built of it. |
| `MCMemRing`, `MCGoRing`, `MCRingPairs`, `MCMemFfi`, `MCGoSlab`, `MCAtomicSlot`, `MCConvert`, `MCProgram` | instances for TLC. `MCRingPairs` chooses one of the three rings (`MemRing!FairSpec`, `GoRing!RustToGoFair`, `GoRing!GoToRustFair`) in its initial state. |
| `MemRingProofs`, `MemRingChannelProofs`, `MemRingItemProofs`, `GoRingProofs`, `GoSlabProofs`, `AtomicSlotProofs`, `MemFfiProofs`, `BuildProofs` | theorems |

The stack: `MemRing` ⇒ `Channel` and `GoSlab` ⇒ `KeyPool` are what `MemFfi` is built
from; with them it implements `RemoteCall`. All three are checked and proved; so are
`AtomicSlot` ⇒ `OneShot`, and `Channel` for both mixed rings.
Beside it stand `Build`, which says which function a call reaches, and `Convert`, which
says what reaches it; `Program` puts them one after the other.

**MemRing.** One action is one access to something another actor can see: an
atomic, a slot, a socket. Locking, unlocking and what is touched only under the
lock are folded into the neighbouring access. The three actors have their own
program counters: `rpc` (`working_handler`: `mark`, `pop`, `read`, `advance`,
`stuck?`, ...), `pc[p]` (a thread inside a push), `upc` (`unstuck_handler`).
`head` and `tail` count up as the `AtomicU64`s do (they cannot wrap in practice)
and `Slot(i)` takes them modulo `BufferLen`. A socket is a bounded count of bytes:
`Notified` drops the byte when it is full (the code ignores the error),
`Drained` takes up to `ReadChunk`. Items are numbered in the order of their push.
`next`, `log`, `handled` and `unnotified` are history variables: pushed,
published, handled, and whether the last publication came from
`push_without_notify` and found the reader asleep.

**GoRing.** The four differences to Rust are listed at its top. They are read off
`queue.go`: `RunHandler` takes items with `pop` (line 76), which does not look at `stuck`
(`ReadQueue::pop` of `queue.rs` does); it polls on with
`working = 0` while its `TinyWaiter` is not done (any waiter is allowed: the
choice is nondeterministic); `continue` in `Write`'s goroutine skips `Unlock`.

**MemFfi.** One thread of Rust with its two rings; other threads have rings and
slabs of their own. The positions are those of the caller (`Insert`, `SendCall`),
of Go's ring reader (`GoReceive`, then one of `GoStart`, `GoAck`, `GoPop`), of one
goroutine per call (`GoRun`, `GoStore`, `GoReply`) and of Rust's ring handler
(`RustReceive` to `RustAck`). A message names the call its pointer leads to; its
two keys are what the code has to go by. The ring is a `Channel`, so messages
arrive in any order, which is more than the rings do among published items and
covers the overflow list.

**GoSlab.** `Spread` is the atomic add outside the mutex; `Push` and `Pop` under a
slab's mutex are one action each. Keys are the code's numbers
(`inner_idx << exp | slab_idx`), and the list is threaded through the slots with
index 0 as its end, as in the code. Popping slot 0 therefore empties the list:
the slots behind it are never used again. Slot 0 itself is lost too, so this
happens once per slab, and a slab has at most twice as many slots as it ever had keys in use
(`GrowthBounded`).

**AtomicSlot.** The three bits of the state byte, the cell, the attachment, the
waker and the allocation are variables; `poll` and `go` are the positions of a
poll and of goroutine plus callback. A poll need not have been asked for, and
the future may be dropped or change tasks between two polls. As a `OneShot`, the
response is there for the caller from the drop of the writer on (not from the store, nor
from the setting of the written bit), and the poll that reads it receives at its end,
when it gives up its half.

**Convert.** Types and values are trees. A `Ref` is a number, a struct of `Ref`s or
a pointer and a length; a buffer is its computed size and the sequence of writes
made to it, so that too many, too few and overlapping writes all show. `ReadAt`
gives `Garbage` unless exactly the `Ref` asked for was written there. `ToSize`,
`ToRef`, `FromRef`, `CopyStruct` and `MemType` are the Rust side, `GoLevel`, `GoCount`,
`GoRef`, `GoNew` and `GoOwn` the Go side; both are written out, for that they agree is
what the run checks. The layout is that of a 64-bit machine. `Reordered` names the
struct types whose own layout in Rust is not the one of their `Ref`; `view` marks a
Go value that points into the caller's memory. The call itself has six stages
(`call`, `request`, `run`, `answer`, `reply`, `done`); what the user's function returns is
any value. How long the memory of a call lives is the subject of `MemFfi` and
`AtomicSlot`. These operators are recursive, so nothing is proved about them.

**Generate.** A declaration maps the traits of a file to their functions; a function is
its name, the types of its parameters and result (told apart, not looked into: that is
`Convert`), whether it borrows, is `async` or returns a future, and its attributes.
`Accepted` is `try_from` with its errors and panics, `CallId` the counter
`mem_cnt`, `TraitUnsafe` and `ImplUnsafe` the two places that write `unsafe`, `Held` where the
parameters live during the call. `Imports` is the set of packages and preamble
parts `generate()` decides on from flags it collects, `Uses` what the functions it
writes need. `Called` and `CalledBack` follow a call through the names of C functions, or
through the table given to `ringsInit`. `Links` is all the compilers can see of a
mismatch: names and numbers of arguments, for the callbacks names only. `RustCompiles` and
`GoCompiles` are about names and imports; whether generated expressions are well typed is not checked.

**Build.** One action is one write of a file or one run of a tool. `gen` holds the two
processes that may be in `generate()`: the build script's and one started by hand. Both
write the `Ref` structs to the Go file, let cbindgen read that file, and then write the Go
code over it. `pc` is the build, `archive` the library in `OUT_DIR`, `lib` its copy. Cargo
is external: it skips the script (`SkipScript`) only if the last run went through and
`go_src` was not touched since that run began. Every tool may fail, the copy halfway too
(`GenFails`, `CopyFails`, `BindgenFails`, `CompileFails`). `quiet` is history: nobody else was
writing the Go file when the build began, nobody edited the source during it, and
without `with_regen_arg` the Go file was up to date.

**Program.** Steps of `Build` until a build went through, then `Start`, which chooses a way
of calling (`PathOf`) that the program's declarations contain, then `Convert`'s call.

## 3. Runs

| run | instance | what it shows |
|---|---|---|
| `ring_safety` | 2 producers, all four operations, 2 slots, 4 items, sockets of 1 byte; 4.0 M states | types, slots, order, one holder per item, awaiters, no lost wake-up, pending tasks announced |
| `ring_pairs` | each of the three rings, 2 producers, `push`, 2 slots, 3 items, sockets of 1 byte, fair; 0.1 M states | slots and wake-ups, published ⇒ handled, `Channel` implemented; for a Rust reader overflow moves, for a Rust writer the mutex is returned |
| `ring_stranded` | 1 producer, 1 slot, 2 items, fair | **violated:** "it will be sent to queue when the queue is not full" |
| `r2g_pending` | 1 Rust producer, Go reader, fair | **violated:** overflow moves while the reader still pops |
| `g2r_lock` | 1 Go producer, Rust reader, fair | **violated:** the Go goroutine returns its mutex |
| `mem_ffi` | 3 calls, one of them one-way, 2 keys per slab, fair; 0.36 M states | memory of each side alive while the other reads it, keys stay with their calls, no leak, completion, `RemoteCall` implemented |
| `mem_ffi_oneway` | 2 calls, fair | **violated:** a one-way call runs |
| `go_slab` | 2 goroutines, 2 slabs, at most 2 keys in use per slab, 5 slots; 0.40 M states | free list, data under its key, growth, `KeyPool` implemented |
| `slot_safety` | 3 tasks, fair; 1482 states | all of AtomicSlot's safety, `OneShot` implemented, and completion where the future stays in a task |
| `slot_moved` | 2 tasks, fair | **violated:** completion where it moves |
| `convert` | 5 versions of a file in 6 set-ups of the build, 1 edit, 2 runs by hand, and one build of each of 1000 further declarations of one to three functions; then a call of one of 5 signatures on 4 paths, lists of up to 2 elements three levels deep, strings of up to 1 byte; 1.1 M states | a program fits its library, generated code fits, `unsafe` and imports are right; buffers, alignment, arguments and results, nothing of Rust's kept |
| `convert_layout` | a list of structs `{u8, u32}` | **violated:** a list passed by reference has the layout Go reads |

Every property of a passing run has a mutant in `PROJECT.json`: a plausible bug in
one mapped definition under which TLC refutes the property.

*Bounds.* A ring of one slot is full after one push, one of two slots can hold
items at two positions: with three or four items both overflow, wrap, fill the
overflow list with more than one task and drain it again. Two producers plus
`unstuck_handler` make three contenders for the mutex; which producer is which
does not matter (symmetry in the safety run only). A socket of one byte is full
after one notification, so ignored errors happen. `YieldCnt = 1` where the code
has 3: further yields only repeat the same look at the ring; `yields` is still
modelled and the proofs cover any value. Two keys for three calls make keys
be used again while messages with the old ones may still be in a ring. Two
slabs of at most two keys in use each are enough to pop slot 0 before and
after others and to lose a list of one slot; `MaxSlots = 5` is one more than
`GrowthBounded` allows, so the bound is never what stops a slab from growing.
Two elements and two levels of lists are what it takes for a list's
elements to have lists of their own that are placed behind one another; each
function mixes a packed number with a list, so that sizes are no multiples of
the alignment, and empty lists occur at every level. The five versions of the edited
file differ as little as possible (the order of two functions in the ring, a
type, the number of parameters), so that rustc and the linker take some mixtures
of them and refuse others; one edit and two runs by hand let either
overlap every step of the build. The further declarations are every function with at
most one parameter, with every subset of the attributes, and traits of two and three
functions of every kind. Their builds see no edits: what they are for holds of one version. Deadlock checking is off where the instance ends by design: producers stop
at `MaxPush`, a call ends, each call is made once, and everybody then sleeps as
intended. `go_slab` never ends and is checked for deadlock.

*Fairness.* `working_handler` and `unstuck_handler` run on an executor that polls
a woken task (weak fairness). A thread inside `push` runs on; nobody is obliged to
start a push, to poll a handle that was dropped or to call `notify_manually`.
The mutex is `parking_lot`'s, which is eventually fair, and `sync.Mutex` has its
starvation mode: `UnstuckLock`, which competes with producers again and again, is
strongly fair; producers do not need it, for each takes the lock only finitely
often. In `MemFfi`, `Progress` is every step but those a caller is free not to take
(starting a call, polling unasked, dropping a future): ring readers and handlers,
goroutines and a caller inside `push` run on, a woken task is polled. It
assumes that the rings deliver what is sent, which the ring runs show for
published items; where findings 1 to 3 strand an item, its call does not
complete. For a slot: a woken task is polled, a poll and the callback run to
their end, the user's Go function returns.

## 4. Proofs

All for any set of producers or tasks, any ring size, any number of items, any
socket capacity, any number and size of slabs, any set of calls and keys, any number of
traits, functions, edits and runs. Assumptions: `MemRingAssumption`
(the owners of the mutex are distinct, sizes are positive), `GoSlabAssumption`
(sizes are positive), `AtomicSlotAssumption`, `MemFfiAssumption` (the constants that stand
for nothing are not calls or keys), `MessageAssumption` and, as a hypothesis of its theorems,
`SourcesTyped` (every version of a file maps traits to sequences of functions, and a set-up links
statically or dynamically).

* `MemRingProofs`. `RingInv` is inductive: `Exclusive` (who is between lock and
  unlock), `Holding` (an item in hand), `Room` (the room seen at the load is
  still there at the store), `Written` (the slot at `tail` holds what is about to
  be published), `ReaderView` (what the reader knows between load and handler),
  with `TypeOK`, `RingHoldsLog` and `HandledInOrder`. None of the last three is
  inductive without the first five: a publication is only as good as the write
  before it, the write only as good as the room, and the room only as good as the
  mutex. The arithmetic fact underneath is `SlotsApart`. From it follow
  `TypeCorrect`, `RingFaithful`, `InOrder`, `NoRace`, `MutexCorrect`. `WakeupsKept`
  (no lost wake-up) and `FlagKept` (pending tasks announced) have inductive
  invariants of their own, which say at which positions of the reader a writer
  is still on its way to the check of `working`.
* `MemRingChannelProofs`. Every step of `MemRing` is `Send`, `Deliver` or a stutter of
  `Channel`. A delivery must be of an item not delivered before, so the proof
  needs that an item is in one place only (`OnePlace`).
* `MemRingItemProofs`. `Somewhere`: an item that was pushed is in at least one of the four
  places; with `OnePlace` there is exactly one (`NoItemLost`). `AwaitInv` follows a
  `WakerSlot`: it does not exist while the item is in the hands of its producer, is
  Finished only when the item is in the log, and until then the task that carries it
  is pending or in the hands of `unstuck_handler` (`HandlesKeepTheirPromise`). `QueueOrder`
  (who is between load and store has the newest item, `pending_tasks` is in push order and
  `unstuck_handler` holds what was before all of it) gives `OrderKept`: an item overtakes another only
  if that one found the ring full. `NothingLeftAtRest` puts the invariants together: in a state in
  which nobody can move, nothing is left behind but announced pending tasks.
* `GoRingProofs`. The same invariants hold of both mixed rings; only the actions
  that differ are proved anew. A step of either ring is a step of `MixedNext`, which is `MemRing`'s
  `Next` and the actions in which Go differs; these move no item, so items stay in one place,
  awaiters are served (`RustToGoKeepsItems`, `GoToRustKeepsItems`), both rings are
  `Channel`s, and pending tasks are announced (`RustToGoFlag`, `GoToRustFlag`). Where the rings
  differ from `MemRing` for the worse is proved as well: `OverflowStaysPending` says of
  the ring for calls that, whatever the reader does, the overflow list never gets shorter once
  `unstuck_handler` has slept, and `GoToRustMutex` says that the goroutine that starts
  over is the only place where a Go writer holds the mutex outside of lock and unlock.
  `CallsInOrder` and `RepliesInOrder` are `OrderKept` of the two rings, `RustToGoAtRest` and
  `GoToRustAtRest` say how they can stop: the ring for replies asleep or with the goroutine waiting for its own
  mutex, and nothing else. In the latter case it has replies in its hands (`BlockedWithReplies`:
  it looks for room a second time only with tasks left over), and no step of anybody undoes the block or
  sends them (`BlockIsForGood`).
* `GoSlabProofs`. `SlabInv`: keys in use lie inside their slab and hold their data,
  and the free list leads only to free slots and to each at most once. That the
  key handed out is free, which the refinement of `KeyPool` needs, is not
  inductive without the second part: after a reuse the next head is whatever
  the slot linked to. The lemmas about keys (`KeysApart`) hold for any
  number of slabs, a power of two or not. `GrowthInv` is behind `GrowthStaysBounded`: a slab
  has at most `peak` slots and one more for each that is *lost*, slot 0 and what was behind it
  when it was popped; that is at most `peak`, and happens once. The list leads to every other free slot, so a `Push`
  that finds it empty finds all of them in use. To say so without induction over the
  list, the invariant says that every set that holds the head, and with each slot the next one,
  holds every free slot that is not lost.
* `AtomicSlotProofs`. `SlotInv`: the gone bits say where the two sides are, the
  written bit says what is in the cell, and the attachment is held as long as
  the writer may read it. All safety properties of the slot follow, and that it is a `OneShot`
  (`SlotImplementsOneShot`), where `Fuse` is the step at which the caller receives and
  `DropWriter` the one at which Go responds. `WakesInPlace` is the safety half of `AnsweredInPlace`: a
  future that stays in one task has its waker in the slot, in the hands of the callback, or called
  (`WakeInv`), or is in a poll that finds the response. `WakesOnTime` says the same of a future
  that is moved at will, on the one condition that between `waker.take()` and the drop of the writer
  it is polled only by the task whose waker was taken (`RouseInv`): finding 4 has no second window.
  `WriteNeverRefused` proves the comment at `slot.rs:114` and that `attachment.unwrap()` does not panic.
* `MemFfiProofs`. `CallInv` follows a call: a reply needs a call message given to
  Go's reader and a goroutine that is done with it, a drop message a reply given to
  Rust's handler, and there is one of each. What either slab and the memory of the
  request hold is then a matter of how far the call has come, and a key is used again
  only when no message with it is under way. `Chain` is the other direction,
  every stage of a call has the next ahead of it or is over, and gives `NothingLeaks`. `History`
  ties the variables of `RemoteCall` to the messages for `CallsRefine`. `NoSleeperForgotten` is the
  safety half of `Completes`: a future that sleeps has no value, and a call under way whose reply
  the handler has yet to pass on. `NobodyStuck` goes through the places where the code goes on
  without waiting and the model's action has a guard: it holds there, so the model never stops where
  the code would not, and `slab.remove` does not panic. It needs `Keyed`: a caller between insert and
  push, and a goroutine about to reply, have their key. `CallsEndAnswered` is then about all
  the ways in which a call can be over. None of the
  properties is inductive alone: that a response is still in its slab when Rust
  reads it depends on there being no second reply, that on there being no second call
  message, and that on the key in it.
* `BuildProofs`. `GeneratedFits`: what is generated from one version fits. The step that
  needs an argument is that the call numbers, counted before each function of the ring, are
  different and lie inside the table (`CallIdGrows`). `BuildInv` then carries one version through an
  undisturbed build: into both generators, through the file both write, the library and
  its copy. A skipped script rests on what the last run left, so the invariant says
  of every state in which nothing was touched since a run that went through that the
  library was made of the file as it is. `ImportsAreRight` is a matter of one version only.

*Only model-checked:* `Convert` (recursive operators over trees, which the prover does not take, and
facts about them that only induction over the tree gives), with the five properties of the run
`convert` that are about a call; and everything temporal (fairness and `ENABLED` are outside the prover's reach):
`PublishedHandled`, `RustPendingMoves`, `RustLockReleased`, `AnsweredInPlace`, `Completes`,
`CleanedUp`. Of these the half that is about states is proved: that nobody is stuck in the middle
(`NobodyStuck`), and what holds when everything stands still (`NothingLeftAtRest`, `RustToGoAtRest`,
`GoToRustAtRest`, `CallsEndAnswered`, `NoSleeperForgotten`, `NothingLeaks`, `WakesOnTime`). `Halted`
spells out, without `ENABLED`, that no step but those a producer is free not to take can be taken.
What is left to TLC is that such a state is reached, or that what a process can do it does. That the violated properties of section 5
are violated is TLC's result; the proofs say that two of them fail for the reason given there.

## 5. Findings and limits

1. `queue.rs:208`: the ring found full may be empty when `stuck` is stored; the
   pending task is then stranded until another push (`ring_stranded`).
2. `queue.go:187`: the Go reader never clears `stuck`, so calls that overflow
   stay in `pending_tasks` (`r2g_pending`; `OverflowStaysPending` for every ring size).
3. `queue.go:162`: `continue` with the mutex locked (`g2r_lock`; `GoToRustMutex`: nowhere else;
   `BlockIsForGood`: never undone, and the replies pending then are never sent).
4. `slot.rs:185`: a future polled from another task (or with another waker)
   between the take of the waker and the drop of the writer misses its wake-up
   (`slot_moved`); one that stays is safe (`WakesInPlace`), and so is one that is moved at any
   other time (`WakesOnTime`).

5. `r2g.rs:357`: the Go handler of a `#[mem]` function without return value
   acknowledges the call and never runs the user's function
   (`mem_ffi_oneway`). Calling it there would not be enough: `SendCall` shows that such
   a call keeps no parameters, so the request would refer to memory that is gone.
6. `convert.rs:153`: a `Vec` of a struct of numbers is passed as it lies in Rust's
   memory, and Go reads it with the layout of the `#[repr(C)]` `Ref`; the struct itself
   is not `#[repr(C)]` (`convert_layout`). `RequestArrives` leaves such lists out.

Also visible, and no property:

* the storage of a result that Go asks to be dropped (`rust2go/src/lib.rs:37`) is cast
  from `*mut ()` to `*mut dyn Any`, the trait object of an empty value, so nothing is freed;
* `char` is accepted as a type and given a C and a Go name (`common.rs:690`) but has no
  converter, so the generator stops there;
* a shared-memory function with a number as its result does not compile: Go gets
  `C.uint8_t{}`, which is no value of a number type (`r2g.rs:393`); the functions of
  `convert` return structs and lists there;
* the parameters of a shared-memory call are packed, so Go reads them unaligned;
* a push that finds room overtakes pending tasks; `unstuck_handler` may look at a ring
  the reader drained and raise a flag nobody reads until the next push;
* a file whose only functions are one-way and not in the ring imports `runtime` (with `cgo`
  also `cgocall`) and does not use it, and Go refuses it; `ImportsSuffice` leaves such
  files out;
* `{fn}_cb` is `#[no_mangle]` without the name of its trait, so two traits that both
  have an answering function of one name do not compile together;
* `#[go_pass_struct]`: `trait-attrs.md:12` says it passes a pointer, the code passes the
  struct; and any attribute that is not a bare path, a doc comment for one, turns `go_ptr` off as well;
  `parse_attrs` stores the word `binding` and not its value;
  the test `user.rs:71` has `#[mem_call]`, which no code knows;
* a dynamic library is replaced before rustc runs, so a build that fails leaves a
  new library beside the old program; an edit during a build, or a second generator that
  began before it, can give a program whose halves differ and which rustc and the linker accept;
* a queue of size 0 (`queue.rs:697`) is full and empty at once.

Not modelled:

* store buffers. Accesses interleave in program order, while the code uses
  Release and Acquire, also for the pair (`working`, `tail`): the reader stores `working` and
  then loads `tail`, the writer the other way round. On a machine that delays stores
  both may load the old value, and the wake-up is lost;
* the `tpc` feature (one thread, no mutex), `Guard` and the exit of the tasks,
  `Drop` of a `Queue` and its descriptors;
* quit messages, which `lib.rs` defines and nothing sends;
* several threads of Rust in `MemFfi`: each has rings and slabs of its own;
* the Go code of conversions for Go 1.18, formatting, cbindgen and bindgen themselves;
* assembly (`asmcall`, `cgocall`): no state of its own.

## 6. Plan

Done: `Channel`, `MemRing`, `GoRing`, `KeyPool`, `GoSlab`, `RemoteCall`, `MemFfi`, `OneShot`,
`AtomicSlot`, `Convert`, `Generate`, `Build`, `Program`, and proofs of all but `Convert`. Left, in
this order:

1. `MemRingTSO`: the ring over store buffers, for the lost wake-up named above.
2. `RingLifecycle`: `Guard`, exits, descriptors and `Drop`.
3. The storage of a result Go asks for, from `c_{trait}_{name}` to the drop.

A new module should share a run with what it composes where it can: the checks
already take most of an hour of one machine.
