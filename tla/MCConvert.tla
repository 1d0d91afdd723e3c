----------------------------- MODULE MCConvert -----------------------------
(***************************************************************************)
(* Instances of Convert for TLC: functions whose types nest lists, strings *)
(* and structs, and their values: lists up to a length of MaxLen, strings  *)
(* up to one byte.                                                         *)
(***************************************************************************)
EXTENDS Convert
LOCAL INSTANCE SequencesExt

CONSTANTS MaxLen

\* Different numbers, so that what is swapped or shifted shows.
RECURSIVE Values(_), Fields(_)
Values(T) ==
  CASE T.kind = "prim"   -> IF T = Byte THEN {Leaf(1), Leaf(2)} ELSE {Leaf(3)}
    [] T.kind = "struct" -> {Node(vs) : vs \in Fields(T.parts)}
    [] T.kind = "string" -> {Node(vs) : vs \in SeqOf(Values(Byte), 1)}
    [] T.kind = "list"   -> {Node(vs) : vs \in SeqOf(Values(Elem(T)), MaxLen)}
Fields(ts) ==
  IF ts = << >> THEN {<< >>}
  ELSE {<<v>> \o vs : v \in Values(Head(ts)), vs \in Fields(Tail(ts))}

Pixel  == Struct(<<Byte, Prim(4)>>)               \* numbers only, padded
User   == Struct(<<Str, Byte>>)                   \* DemoUser
Group  == Struct(<<Byte, List(Str)>>)
Sig(ps, r) == [params |-> ps, ret |-> r]

Functions ==
  {Sig(<<Byte, List(User)>>, User),
   Sig(<<Group, Pixel>>, List(List(Byte))),
   Sig(<<List(List(Byte)), Str>>, Pixel),
   Sig(<<List(Prim(4))>>, List(User)),
   Sig(<<List(Group)>>, Group)}
AllPaths == {"sync", "async", "mem", "g2r"}

PixelList   == {Sig(<<List(Pixel)>>, Pixel)}
PixelOnly   == {Pixel}
SyncPath    == {"sync"}
=============================================================================
