------------------------------ MODULE Generate ------------------------------
(***************************************************************************)
(* What rust2go makes of the traits in a user's file: what the macros r2g  *)
(* and g2r expand to on the Rust side, what rust2go-cli writes for Go, and *)
(* what the two compilers and the linker hold against each other.  Both    *)
(* sides are generated from a reading of the same file, possibly not of    *)
(* the same version of it.                                                 *)
(*                                                                         *)
(* A declaration maps the names of traits to their functions.  A function  *)
(* is a record: name, params (a sequence of types), ret (a type or None),  *)
(* borrows (some parameter is a reference), async (async fn), future (it   *)
(* returns impl Future) and attrs, the names of its attributes.            *)
(***************************************************************************)
EXTENDS Integers, Sequences, FiniteSets

CONSTANTS None   \* no return value

-----------------------------------------------------------------------------
(* R2GTraitRepr::try_from *)

Has(f, names) == f.attrs \cap names # {}

IsAsync(f)       == f.async \/ f.future
DropSafe(f)      == Has(f, {"drop_safe", "drop_safe_ret"})
InRing(f)        == Has(f, {"mem", "shm"})
CgoCallback(f)   == Has(f, {"cgo", "cgo_callback"})
CgoCall(f)       == Has(f, {"cgo", "cgo_call"})

\* Mutant: borrowed parameters are not looked at.
Accepted_Borrows(f) ==
  /\ ~(f.async /\ f.future)
  /\ IsAsync(f) => f.ret # None
  /\ InRing(f) /\ ~IsAsync(f) => f.ret = None

\* What try_from refuses, by an error or a panic.
Accepted(f) ==
  /\ ~(f.async /\ f.future)
  /\ IsAsync(f) => f.ret # None
  /\ IsAsync(f) /\ DropSafe(f) => ~f.borrows
  /\ InRing(f) /\ ~IsAsync(f) => f.ret = None

\* What the other try_from refuses, of a function Go calls.
AcceptedBack(f) == ~f.async /\ ~f.future

IsSafe(f) ==
  /\ IsAsync(f) => DropSafe(f)
  /\ InRing(f) => IsAsync(f)

\* Mutant: every function takes a number.
CallId_All(fns, i) == i - 1

\* mem_call_id: mem_cnt as it is when try_from comes to the function.
CallId(fns, i) == Cardinality({j \in 1 .. i - 1 : InRing(fns[j])})

RingFns(fns) == {i \in DOMAIN fns : InRing(fns[i])}
Answers(f)   == f.ret # None

-----------------------------------------------------------------------------
(* The Rust side *)

\* r2g_trait writes "unsafe" into the trait, to_rs_impl into its impl.
TraitUnsafe(f) ==
  \/ ~Answers(f) /\ ~IsAsync(f) /\ InRing(f)
  \/ IsAsync(f) /\ ~IsSafe(f)
ImplUnsafe(f) == ~IsSafe(f)

\* The parameters stay where they are until Go has answered: the caller waits,
\* or the slot (the TaskDesc) owns them, whatever becomes of the future.  A
\* call without an answer in the ring leaves nobody to own them (params_ptr: 0).
Held(f) ==
  IF IsAsync(f) THEN ~f.borrows ELSE ~InRing(f)

\* The argument list of a C function C{trait}_{name}.
ForeignArgs(f) == f.params \o (IF Answers(f) THEN <<"slot", "cb">> ELSE << >>)

\* Names are unique in a trait, and among the callbacks: {name}_cb is
\* #[no_mangle] and has no trait in its name.  RustCompiles is about names only,
\* not about what rustc makes of the types.
HasCallback(f) == ~InRing(f) /\ Answers(f)
UniqueNames(fns) == \A i, j \in DOMAIN fns : fns[i].name = fns[j].name => i = j
RustCompiles(d) ==
  /\ \A T \in DOMAIN d.r2g : UniqueNames(d.r2g[T])
  /\ \A T \in DOMAIN d.g2r : UniqueNames(d.g2r[T])
  /\ \A S, T \in DOMAIN d.r2g : \A i \in DOMAIN d.r2g[S], j \in DOMAIN d.r2g[T] :
       LET f == d.r2g[S][i]
           g == d.r2g[T][j]
       IN HasCallback(f) /\ HasCallback(g) /\ f.name = g.name => S = T

-----------------------------------------------------------------------------
(* The Go side *)

\* The functions the generator gets through without a refusal.
Generates(d) ==
  /\ \A T \in DOMAIN d.r2g : \A i \in DOMAIN d.r2g[T] : Accepted(d.r2g[T][i])
  /\ \A T \in DOMAIN d.g2r : \A i \in DOMAIN d.g2r[T] : AcceptedBack(d.g2r[T][i])

FnsOf(traits) == UNION {{traits[T][i] : i \in DOMAIN traits[T]} : T \in DOMAIN traits}
Direct(d)     == {f \in FnsOf(d.r2g) : ~InRing(f)}

When(b, names) == IF b THEN names ELSE {}

\* Mutant: the calls from Go to Rust are forgotten.
Imports_R2gOnly(d) ==
  When(\E f \in FnsOf(d.r2g) : InRing(f), {"mem_ring", "ants", "QueueMeta"})
  \cup When(Direct(d) # {} \/ FnsOf(d.g2r) # {}, {"runtime"})
  \cup When(\E f \in Direct(d) : CgoCallback(f), {"cgocall"})
  \cup When(\E f \in Direct(d) : ~CgoCallback(f) /\ Answers(f), {"asmcall"})
  \cup When(\E f \in FnsOf(d.g2r) : Answers(f), {"internal_drop"})

\* The packages, and parts of the C preamble, generate() puts in the Go file...
Imports(d) ==
  When(\E f \in FnsOf(d.r2g) : InRing(f), {"mem_ring", "ants", "QueueMeta"})
  \cup When(Direct(d) # {} \/ FnsOf(d.g2r) # {}, {"runtime"})
  \cup When((\E f \in Direct(d) : CgoCallback(f)) \/ (\E f \in FnsOf(d.g2r) : CgoCall(f)),
            {"cgocall"})
  \cup When(\/ \E f \in Direct(d) : ~CgoCallback(f) /\ Answers(f)
            \/ \E f \in FnsOf(d.g2r) : ~CgoCall(f), {"asmcall"})
  \cup When(\E f \in FnsOf(d.g2r) : Answers(f), {"internal_drop"})

\* ... and those the functions it writes there need.
UsedToAnswer(f) ==
  IF InRing(f) THEN {"mem_ring", "ants", "QueueMeta"}
  ELSE When(Answers(f), {"runtime", IF CgoCallback(f) THEN "cgocall" ELSE "asmcall"})
UsedToCall(f) ==
  {IF CgoCall(f) THEN "cgocall" ELSE "asmcall"}
  \cup When(Answers(f), {"runtime", "internal_drop"})
  \cup When(f.params # << >>, {"runtime"})
Uses(d) ==
  (UNION {UsedToAnswer(f) : f \in FnsOf(d.r2g)}) \cup UNION {UsedToCall(f) : f \in FnsOf(d.g2r)}

\* Go refuses a name it does not know, and a package nobody uses.  What else it
\* may refuse, such as expressions of a wrong type, is left to CompileFails.
GoCompiles(d) == Imports(d) = Uses(d)

-----------------------------------------------------------------------------
(* The two together *)

\* Which of Go's functions runs when Rust calls function i of trait T: the one
\* of that name, or the one whose ringHandle is in that place of the table given
\* to ringsInit, which has a place for each function in the ring.
Called(rust, go, T, i) ==
  LET f  == rust.r2g[T][i]
      gs == IF T \in DOMAIN go.r2g THEN go.r2g[T] ELSE << >>
      id == CallId(rust.r2g[T], i)
  IN IF InRing(f) THEN {j \in RingFns(gs) : CallId(gs, j) = id /\ id < Cardinality(RingFns(gs))}
     ELSE {j \in DOMAIN gs : ~InRing(gs[j]) /\ gs[j].name = f.name}

\* Which of Rust's functions is c_{trait}_{name}.
CalledBack(rust, go, T, i) ==
  LET fs == IF T \in DOMAIN rust.g2r THEN rust.g2r[T] ELSE << >>
  IN {j \in DOMAIN fs : fs[j].name = go.g2r[T][i].name}

\* What rustc and the linker see of the Go side is the header: names, numbers
\* of arguments (transmute takes any type of the right size), RingsInit.  The
\* other way there are names only.
Links(rust, go) ==
  /\ \A T \in DOMAIN rust.r2g : \A i \in DOMAIN rust.r2g[T] :
       LET f == rust.r2g[T][i]
       IN IF InRing(f) THEN T \in DOMAIN go.r2g /\ RingFns(go.r2g[T]) # {}
          ELSE \E j \in Called(rust, go, T, i) :
                 Len(ForeignArgs(go.r2g[T][j])) = Len(ForeignArgs(f))
  /\ \A T \in DOMAIN go.g2r : \A i \in DOMAIN go.g2r[T] : CalledBack(rust, go, T, i) # {}

Same(f, g) == f.name = g.name /\ f.params = g.params /\ f.ret = g.ret

\* Every call, either way, runs the function it names, and both sides agree on
\* what it takes and returns.
Fits(rust, go) ==
  /\ \A T \in DOMAIN rust.r2g : \A i \in DOMAIN rust.r2g[T] :
       \E j \in Called(rust, go, T, i) :
         Called(rust, go, T, i) = {j} /\ Same(rust.r2g[T][i], go.r2g[T][j])
  /\ \A T \in DOMAIN go.g2r : \A i \in DOMAIN go.g2r[T] :
       \E j \in CalledBack(rust, go, T, i) :
         CalledBack(rust, go, T, i) = {j} /\ Same(rust.g2r[T][j], go.g2r[T][i])
=============================================================================
