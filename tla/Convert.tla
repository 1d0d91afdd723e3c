------------------------------ MODULE Convert ------------------------------
(***************************************************************************)
(* How arguments and results cross between Rust and Go: ToRef and FromRef  *)
(* (convert.rs, and the impls r2g_derive emits) on the Rust side, the new, *)
(* own, cnt and ref functions common.rs generates on the Go side, and the  *)
(* four ways r2g.rs and g2r.rs put them together for a call:               *)
(*                                                                         *)
(*   "sync"   Rust calls Go, one buffer for each parameter                 *)
(*   "async"  Rust calls Go, one buffer for the tuple of the parameters    *)
(*   "mem"    Rust calls Go over shared memory, the Refs of the parameters *)
(*            lie in the buffer too                                        *)
(*   "g2r"    Go calls Rust                                                *)
(*                                                                         *)
(* A Ref is what both sides can read: a number, a struct of Refs, or the   *)
(* pointer and length of a list.  Lists whose elements hold no pointer are *)
(* passed where they are; the Refs of all others go to a buffer whose size *)
(* is computed before it is filled.                                        *)
(***************************************************************************)
EXTENDS Integers, Sequences
LOCAL INSTANCE SequencesExt

CONSTANTS
  Signatures,   \* the functions called: [params |-> types, ret |-> type]
  Paths,        \* the ways to call, see above
  Reordered,    \* struct types rustc lays out in another order than their Ref
  ValuesOf(_)   \* bound: the values of a type that are passed

-----------------------------------------------------------------------------
(* Types, and the C layout of their Refs.  A value is a tree of parts with   *)
(* numbers at its leaves; "view" marks memory of the caller seen through a   *)
(* pointer.                                                                  *)

Type(k, w, ts) == [kind |-> k, width |-> w, parts |-> ts]
Prim(w)    == Type("prim", w, << >>)
Byte       == Prim(1)
Str        == Type("string", 0, <<Byte>>)
List(T)    == Type("list", 0, <<T>>)
Struct(ts) == Type("struct", 0, ts)
Elem(T)    == T.parts[1]

Leaf(n)  == [leaf |-> n, parts |-> << >>, view |-> FALSE]
Node(vs) == [leaf |-> 0, parts |-> vs, view |-> FALSE]
View(vs) == [leaf |-> 0, parts |-> vs, view |-> TRUE]
Garbage  == Leaf(-1)   \* what a read of the wrong bytes, or a fatal one, gives

Total(s)   == FoldLeft(LAMBDA a, b : a + b, 0, s)
Largest(s) == FoldLeft(LAMBDA a, b : IF a < b THEN b ELSE a, 0, s)
RoundUp(n, a) == ((n + a - 1) \div a) * a

Word == 8   \* a pointer or a length

RECURSIVE AlignOf(_)
AlignOf(T) ==
  CASE T.kind = "prim"   -> T.width
    [] T.kind = "struct" -> Largest(<<1>> \o [i \in DOMAIN T.parts |-> AlignOf(T.parts[i])])
    [] OTHER             -> Word

\* size_of::<T::Ref>() and size_of[R](): the struct is #[repr(C)], a StringRef
\* or ListRef is a DataView.
RECURSIVE SizeOf(_)
SizeOf(T) ==
  CASE T.kind = "prim"   -> T.width
    [] T.kind = "struct" -> RoundUp(FoldLeft(LAMBDA n, f : RoundUp(n, AlignOf(f)) + SizeOf(f),
                                             0, T.parts), AlignOf(T))
    [] OTHER             -> 2 * Word

\* ToRef::MEM_TYPE: 0 Primitive, 1 SimpleWrapper, 2 Complex.
RECURSIVE MemType(_)
MemType(T) ==
  CASE T.kind = "prim"   -> 0
    [] T.kind = "string" -> 1
    [] T.kind = "list"   -> IF MemType(Elem(T)) = 0 THEN 1 ELSE 2
    [] T.kind = "struct" -> Largest([i \in DOMAIN T.parts |-> MemType(T.parts[i])])

-----------------------------------------------------------------------------
(* Memory: pointers, and a buffer as the writes made to it *)

Pointer(to, at, data) == [to |-> to, at |-> at, data |-> data]
Null         == Pointer("null", 0, << >>)
Dangling     == Pointer("dangling", 0, << >>)   \* NonNull::dangling()
InBuffer(at) == Pointer("buffer", at, << >>)
OwnMem(side, v) == Pointer(side, 0, v.parts)    \* the list's own memory

Ref(ptr, len) == [ptr |-> ptr, len |-> len]

NewWriter       == [pos |-> 0, writes |-> << >>]
Reserve(w, len) == [w EXCEPT !.pos = @ + len]
Write(at, T, ref) == [at |-> at, type |-> T, ref |-> ref]
PutList(w, at, T, refs) ==
  [w EXCEPT !.writes = @ \o [i \in DOMAIN refs |-> Write(at + (i - 1) * SizeOf(T), T, refs[i])]]
Buffer(size, w) == [size |-> size, writes |-> w.writes]

Meets(x, at, size) == x.at < at + size /\ at < x.at + SizeOf(x.type)

\* The Ref of type T at an offset; Garbage unless exactly that was written there.
ReadAt(buf, at, T) ==
  LET met == {k \in DOMAIN buf.writes : Meets(buf.writes[k], at, SizeOf(T))}
      hit == {k \in met : buf.writes[k].at = at /\ buf.writes[k].type = T}
  IN IF hit # {} /\ met = hit /\ at + SizeOf(T) <= buf.size
       THEN buf.writes[CHOOSE k \in hit : TRUE].ref ELSE Garbage

\* Rust keeps the fields of a struct that is not #[repr(C)] in any order.
RECURSIVE HasReordered(_)
HasReordered(T) == T \in Reordered \/ \E i \in DOMAIN T.parts : HasReordered(T.parts[i])

\* The n Refs of type T behind a pointer.
Slice(ptr, n, T, buf) ==
  LET readable == ptr.to = "go" \/ (ptr.to = "rust" /\ ~HasReordered(T))
  IN [i \in 1 .. n |-> IF ptr.to = "buffer" THEN ReadAt(buf, ptr.at + (i - 1) * SizeOf(T), T)
                       ELSE IF readable THEN ptr.data[i] ELSE Garbage]

-----------------------------------------------------------------------------
(* Rust: ToRef and FromRef *)

\* Mutant: the children of a list's elements are not counted.
RECURSIVE ToSize_Shallow(_, _)
ToSize_Shallow(T, v) ==
  LET children == [i \in DOMAIN T.parts |-> ToSize_Shallow(T.parts[i], v.parts[i])]
  IN CASE MemType(T) < 2    -> 0
       [] T.kind = "list"   -> Len(v.parts) * SizeOf(Elem(T))
       [] T.kind = "struct" -> Total(children)

RECURSIVE ToSize(_, _)
ToSize(T, v) ==
  LET part(i) == IF T.kind = "list" THEN Elem(T) ELSE T.parts[i]
      below   == Total([i \in DOMAIN v.parts |-> ToSize(part(i), v.parts[i])])
  IN CASE MemType(T) < 2    -> 0
       [] T.kind = "list"   -> Len(v.parts) * SizeOf(Elem(T)) + below
       [] T.kind = "struct" -> below

\* Mutant: an empty list keeps its dangling pointer.
DataView_Dangling(ptr, len) == Ref(ptr, len)

DataView(ptr, len) == Ref(IF len = 0 THEN Null ELSE ptr, len)

AsPtr(v) == IF v.parts = << >> THEN Dangling ELSE OwnMem("rust", v)

\* ToRef::to_ref, and a sequence of such calls with one writer.
RECURSIVE ToRef(_, _, _), ToRefs(_, _, _)
ToRef(T, v, w) ==
  LET n    == Len(v.parts)
      elem == Elem(T)
  IN CASE T.kind = "prim"   -> [ref |-> v, w |-> w]
       [] T.kind = "struct" -> LET r == ToRefs(T.parts, v.parts, w)
                               IN [ref |-> Node(r.refs), w |-> r.w]
       [] T.kind = "string" \/ (T.kind = "list" /\ (MemType(T) < 2 \/ n = 0)) ->
            [ref |-> DataView(AsPtr(v), n), w |-> w]
       [] OTHER ->
            LET r == ToRefs([i \in 1 .. n |-> elem], v.parts, Reserve(w, n * SizeOf(elem)))
            IN [ref |-> Ref(InBuffer(w.pos), n), w |-> PutList(r.w, w.pos, elem, r.refs)]
ToRefs(ts, vs, w) ==
  IF ts = << >> THEN [refs |-> << >>, w |-> w]
  ELSE LET first == ToRef(Head(ts), Head(vs), w)
           rest  == ToRefs(Tail(ts), Tail(vs), first.w)
       IN [refs |-> <<first.ref>> \o rest.refs, w |-> rest.w]

CalcRef(T, v) ==
  LET size == IF MemType(T) = 2 THEN ToSize(T, v) ELSE 0
      r    == ToRef(T, v, NewWriter)
  IN [ref |-> r.ref, buf |-> Buffer(size, r.w)]

OffsetOf(ts, i)  == Total([j \in 1 .. i - 1 |-> SizeOf(ts[j])])
ParamWrites(ts, refs, at) == [i \in DOMAIN ts |-> Write(at + OffsetOf(ts, i), ts[i], refs[i])]
CopySize(ts, vs) ==
  ToSize(Struct(ts), Node(vs)) + Total([i \in DOMAIN ts |-> SizeOf(ts[i])])

\* Mutant: the parameters come first, and their lists behind them.
CopyStruct_ParamsFirst(ts, vs) ==
  LET size == Total([i \in DOMAIN ts |-> SizeOf(ts[i])])
      r    == ToRefs(ts, vs, Reserve(NewWriter, size))
  IN [at |-> 0, buf |-> [size   |-> CopySize(ts, vs),
                         writes |-> r.w.writes \o ParamWrites(ts, r.refs, 0)]]

\* calc_ref of a CopyStruct: what the parameters refer to, then their Refs one
\* after the other, without padding; the result points to the first of them.
CopyStruct(ts, vs) ==
  LET r == ToRefs(ts, vs, NewWriter)
  IN [at |-> r.w.pos, buf |-> [size   |-> CopySize(ts, vs),
                               writes |-> r.w.writes \o ParamWrites(ts, r.refs, r.w.pos)]]

RECURSIVE FromRef(_, _, _)
FromRef(T, ref, buf) ==
  CASE ref = Garbage \/ T.kind = "prim" -> ref
    [] T.kind = "struct" -> Node([i \in DOMAIN T.parts |-> FromRef(T.parts[i], ref.parts[i], buf)])
    [] OTHER             -> LET refs == Slice(ref.ptr, ref.len, Elem(T), buf)
                            IN Node([i \in DOMAIN refs |-> FromRef(Elem(T), refs[i], buf)])

-----------------------------------------------------------------------------
(* Go: the generated new, own, cnt and ref functions *)

\* convert_structs_levels, and the level every converter returns: with which
\* functions a type is converted.
RECURSIVE GoLevel(_)
GoLevel(T) ==
  CASE T.kind = "prim"   -> 0
    [] T.kind = "string" -> 1
    [] T.kind = "list"   -> IF GoLevel(Elem(T)) = 0 THEN 1 ELSE 2
    [] T.kind = "struct" -> Largest([i \in DOMAIN T.parts |-> GoLevel(T.parts[i])])

\* unsafe.Slice; a stack with a dangling pointer on it kills the Go runtime.
GoSlice(ref, T, buf) ==
  IF ref.ptr = Dangling THEN <<Garbage>> ELSE Slice(ref.ptr, ref.len, T, buf)

RECURSIVE GoNew(_, _, _)
GoNew(T, ref, buf) ==
  CASE ref = Garbage \/ T.kind = "prim" -> ref
    [] T.kind = "struct" -> Node([i \in DOMAIN T.parts |-> GoNew(T.parts[i], ref.parts[i], buf)])
    [] OTHER             -> LET refs == GoSlice(ref, Elem(T), buf)
                            IN IF GoLevel(Elem(T)) = 0 THEN View(refs)
                               ELSE Node([i \in DOMAIN refs |-> GoNew(Elem(T), refs[i], buf)])

\* Mutant: a list of numbers is not copied.
RECURSIVE GoOwn_Borrows(_, _, _)
GoOwn_Borrows(T, ref, buf) ==
  CASE ref = Garbage \/ T.kind = "prim" -> ref
    [] T.kind = "struct" ->
         Node([i \in DOMAIN T.parts |-> GoOwn_Borrows(T.parts[i], ref.parts[i], buf)])
    [] T.kind = "list" /\ GoLevel(Elem(T)) = 0 -> View(GoSlice(ref, Elem(T), buf))
    [] OTHER -> LET refs == GoSlice(ref, Elem(T), buf)
                IN Node([i \in DOMAIN refs |-> GoOwn_Borrows(Elem(T), refs[i], buf)])

RECURSIVE GoOwn(_, _, _)
GoOwn(T, ref, buf) ==
  CASE ref = Garbage \/ T.kind = "prim" -> ref
    [] T.kind = "struct" -> Node([i \in DOMAIN T.parts |-> GoOwn(T.parts[i], ref.parts[i], buf)])
    [] OTHER             -> LET refs == GoSlice(ref, Elem(T), buf)
                            IN Node([i \in DOMAIN refs |-> GoOwn(Elem(T), refs[i], buf)])

\* A field is counted only where its own level is Complex.
RECURSIVE GoCount(_, _)
GoCount(T, v) ==
  CASE T.kind = "list" /\ GoLevel(Elem(T)) > 0 ->
         Total([i \in DOMAIN v.parts |-> GoCount(Elem(T), v.parts[i])])
           + Len(v.parts) * SizeOf(Elem(T))
    [] T.kind = "struct" /\ GoLevel(T) = 2 ->
         Total([i \in DOMAIN T.parts |->
                  IF GoLevel(T.parts[i]) = 2 THEN GoCount(T.parts[i], v.parts[i]) ELSE 0])
    [] OTHER -> 0

\* The ref functions.  They take the buffer as a slice and advance it: w.pos is
\* where it begins by now, size where it ends.
RECURSIVE GoRef(_, _, _, _), GoRefs(_, _, _, _)
GoRef(T, v, size, w) ==
  LET n    == Len(v.parts)
      elem == Elem(T)
  IN CASE T.kind = "prim"   -> [ref |-> v, w |-> w]
       [] T.kind = "struct" -> LET r == GoRefs(T.parts, v.parts, size, w)
                               IN [ref |-> Node(r.refs), w |-> r.w]
       [] T.kind = "string" \/ (T.kind = "list" /\ GoLevel(elem) = 0) ->
            [ref |-> Ref(IF n = 0 THEN Null ELSE OwnMem("go", v), n), w |-> w]
       [] OTHER ->
            IF w.pos = size THEN [ref |-> Ref(Null, n), w |-> w]
            ELSE LET r == GoRefs([i \in 1 .. n |-> elem], v.parts, size,
                                 Reserve(w, n * SizeOf(elem)))
                 IN [ref |-> Ref(InBuffer(w.pos), n), w |-> PutList(r.w, w.pos, elem, r.refs)]
GoRefs(ts, vs, size, w) ==
  IF ts = << >> THEN [refs |-> << >>, w |-> w]
  ELSE LET first == GoRef(Head(ts), Head(vs), size, w)
           rest  == GoRefs(Tail(ts), Tail(vs), size, first.w)
       IN [refs |-> <<first.ref>> \o rest.refs, w |-> rest.w]

CvtRef(T, v) ==
  LET size == GoCount(T, v)
      r    == GoRef(T, v, size, NewWriter)
  IN [ref |-> r.ref, buf |-> Buffer(size, r.w)]

\* Mutant: the buffer has no room for the Ref.  append moves to a new array, and
\* nobody keeps the one the Ref points into.
CvtRefAppend_NoCap(T, v) ==
  LET r == CvtRef(T, v)
  IN [at |-> r.buf.size, buf |-> [size   |-> r.buf.size + SizeOf(T),
                                  writes |-> <<Write(r.buf.size, T, r.ref)>>]]

\* cvt_ref_cap, and the append of the Ref that its spare capacity is for.
\* Whether the slice it returns was evaluated before or after ref_f advanced
\* it, its end is the end of the lists, and append stays in its array.
CvtRefAppend(T, v) ==
  LET r == CvtRef(T, v)
  IN [at |-> r.buf.size, buf |-> [size   |-> r.buf.size + SizeOf(T),
                                  writes |-> Append(r.buf.writes, Write(r.buf.size, T, r.ref))]]

-----------------------------------------------------------------------------
(* A call.  "wire" is what crosses: Refs passed by value, the buffers they   *)
(* point into, and for shared memory an offset into the one buffer.          *)

VARIABLES
  path, sig,   \* how it is made, and to which function
  stage,       \* "call", "request", "run", "answer", "reply", "done"
  sent, wire,  \* the arguments or the result, and what crosses for them
  got          \* what the other side makes of it

vars == <<path, sig, stage, sent, wire, got>>

Wire(refs, bufs, at) == [refs |-> refs, bufs |-> bufs, at |-> at]
Nothing == Wire(<< >>, << >>, 0)

Init ==
  /\ path \in Paths /\ sig \in Signatures
  /\ stage = "call" /\ sent = << >> /\ wire = Nothing /\ got = << >>

Types    == IF stage \in {"call", "request", "run"} THEN sig.params ELSE <<sig.ret>>
Tuples(ts) ==
  {vs \in [DOMAIN ts -> UNION {ValuesOf(ts[i]) : i \in DOMAIN ts}] :
     \A i \in DOMAIN ts : vs[i] \in ValuesOf(ts[i])}

GoTo(from, to, paths) == path \in paths /\ stage = from /\ stage' = to /\ UNCHANGED <<path, sig>>
Send(from, to, paths, Cross(_)) ==
  /\ GoTo(from, to, paths)
  /\ sent' \in Tuples(Types) /\ wire' = Cross(sent') /\ got' = << >>
Take(from, to, paths, values) ==
  /\ GoTo(from, to, paths)
  /\ got' = values /\ UNCHANGED <<sent, wire>>

\* One Ref and one buffer for each value.
Separate(rs) == Wire([i \in DOMAIN rs |-> rs[i].ref], [i \in DOMAIN rs |-> rs[i].buf], 0)
BufOf(i)     == wire.bufs[IF Len(wire.bufs) = 1 THEN 1 ELSE i]
OneBuffer(r) == Wire(<< >>, <<r.buf>>, r.at)
InWire       == ReadAt(wire.bufs[1], wire.at, sig.ret)

CallSync ==
  Send("call", "request", {"sync"},
       LAMBDA vs : Separate([i \in DOMAIN vs |-> CalcRef(Types[i], vs[i])]))

\* ResponseFuture::poll: calc_ref of the tuple, whose fields are passed.
CallAsync ==
  Send("call", "request", {"async"},
       LAMBDA vs : LET r == CalcRef(Struct(Types), Node(vs)) IN Wire(r.ref.parts, <<r.buf>>, 0))

CallMem == Send("call", "request", {"mem"}, LAMBDA vs : OneBuffer(CopyStruct(Types, vs)))

CallRust ==
  Send("call", "request", {"g2r"},
       LAMBDA vs : Separate([i \in DOMAIN vs |-> CvtRef(Types[i], vs[i])]))

GoTakesCall ==
  Take("request", "run", {"sync", "async"},
       [i \in DOMAIN Types |-> GoNew(Types[i], wire.refs[i], BufOf(i))])

\* The ring handler walks the parameters with unsafe.Sizeof.
GoTakesMemCall ==
  Take("request", "run", {"mem"},
       [i \in DOMAIN Types |->
          GoNew(Types[i], ReadAt(wire.bufs[1], wire.at + OffsetOf(Types, i), Types[i]), wire.bufs[1])])

RustTakesCall ==
  Take("request", "run", {"g2r"},
       [i \in DOMAIN Types |-> FromRef(Types[i], wire.refs[i], BufOf(i))])

\* The function called; it may return anything.
UserRuns ==
  /\ GoTo("run", "answer", Paths)
  /\ sent' = << >> /\ wire' = Nothing /\ got' = << >>

GoAnswers ==
  Send("answer", "reply", {"sync", "async"}, LAMBDA vs : Separate(<<CvtRef(sig.ret, vs[1])>>))
GoAnswersMem ==
  Send("answer", "reply", {"mem"}, LAMBDA vs : OneBuffer(CvtRefAppend(sig.ret, vs[1])))
RustAnswers ==
  Send("answer", "reply", {"g2r"}, LAMBDA vs : Separate(<<CalcRef(sig.ret, vs[1])>>))

RustTakesAnswer ==
  Take("reply", "done", {"sync", "async"}, <<FromRef(sig.ret, wire.refs[1], wire.bufs[1])>>)
RustTakesMemAnswer ==
  Take("reply", "done", {"mem"}, <<FromRef(sig.ret, InWire, wire.bufs[1])>>)

\* Go makes the result its own and has Rust drop its storage.
GoTakesAnswer ==
  Take("reply", "done", {"g2r"}, <<GoOwn(sig.ret, wire.refs[1], wire.bufs[1])>>)

Next ==
  \/ CallSync \/ CallAsync \/ CallMem \/ CallRust
  \/ GoTakesCall \/ GoTakesMemCall \/ RustTakesCall \/ UserRuns
  \/ GoAnswers \/ GoAnswersMem \/ RustAnswers
  \/ RustTakesAnswer \/ RustTakesMemAnswer \/ GoTakesAnswer

Spec == Init /\ [][Next]_vars

-----------------------------------------------------------------------------
(* Properties *)

\* Every buffer is filled to the byte: what one function counts is what the
\* other writes, no write leaves the buffer, no two meet.
Filled(buf) ==
  /\ Total([k \in DOMAIN buf.writes |-> SizeOf(buf.writes[k].type)]) = buf.size
  /\ \A k \in DOMAIN buf.writes :
       LET x == buf.writes[k]
       IN /\ x.at >= 0 /\ x.at + SizeOf(x.type) <= buf.size
          /\ \A j \in DOMAIN buf.writes \ {k} : ~Meets(buf.writes[j], x.at, SizeOf(x.type))
BufferFilled == \A i \in DOMAIN wire.bufs : Filled(wire.bufs[i])

\* Every Ref in a buffer is aligned as its type demands (counted from the start
\* of the buffer, which both allocators align), for from_raw_parts and the
\* reference made of response_ptr, and for what Go reads; except the parameters
\* of a shared-memory call, which are packed.
ListWrites(buf) ==
  IF path = "mem" /\ stage \in {"request", "run"}
    THEN SubSeq(buf.writes, 1, Len(buf.writes) - Len(Types)) ELSE buf.writes
RefsAligned ==
  \A i \in DOMAIN wire.bufs : LET ws == ListWrites(wire.bufs[i])
                              IN \A k \in DOMAIN ws : ws[k].at % AlignOf(ws[k].type) = 0

RECURSIVE Plain(_), HasView(_)
Plain(v)   == [v EXCEPT !.parts = [i \in DOMAIN v.parts |-> Plain(v.parts[i])], !.view = FALSE]
HasView(v) == v.view \/ \E i \in DOMAIN v.parts : HasView(v.parts[i])
Arrived    == [i \in DOMAIN got |-> Plain(got[i])] = sent

\* A list Rust passes where it is has the layout Go reads.
RECURSIVE LaidOut(_)
LaidOut(T) ==
  /\ T.kind = "list" /\ MemType(T) = 1 => ~HasReordered(T)
  /\ \A i \in DOMAIN T.parts : LaidOut(T.parts[i])
AllLaidOut == \A i \in DOMAIN Types : LaidOut(Types[i])

\* The function called sees the arguments it was given, on every path and for
\* nested and empty lists alike.
RequestArrives == stage = "run" /\ AllLaidOut => Arrived

\* The caller gets the result that was returned.
ReplyArrives == stage = "done" /\ AllLaidOut => Arrived

\* What Go returns from a call to Rust refers to nothing of Rust's, whose
\* storage is dropped on the way.
Detached == stage = "done" /\ path = "g2r" => \A i \in DOMAIN got : ~HasView(got[i])

\* "data that satisfies a specific memory layout is passed directly by reference
\* rather than copied" (README.md).  Whether a list of structs does is decided
\* by what the structs hold, not by how they are laid out.
EveryListArrives == stage = "run" => Arrived
=============================================================================
