----------------------------- MODULE MCProgram -----------------------------
(***************************************************************************)
(* Instances of Program for TLC: a project whose file is edited between    *)
(* and during builds, in every configuration, and a build of every         *)
(* declaration with one or two functions.                                  *)
(***************************************************************************)
EXTENDS Program

CONSTANTS MaxLen

\* The functions called and the values they are called with are MCConvert's.
NoValues(T) == {}
V == INSTANCE MCConvert WITH
       Signatures <- {}, Paths <- {}, Reordered <- {}, ValuesOf <- NoValues
Functions == V!Functions
AllPaths  == V!AllPaths
PixelOnly == V!PixelOnly
Values(T) == V!Values(T)

Decl(r2g, g2r) == [r2g |-> r2g, g2r |-> g2r]
Fn(name, params, ret, attrs) ==
  [name |-> name, params |-> params, ret |-> ret, borrows |-> FALSE,
   async |-> attrs # {}, future |-> FALSE, attrs |-> attrs]
Ring(name, params) == Fn(name, params, "A", {"mem", "drop_safe"})

\* Versions of one file that differ as little as possible.
FewVersions == {
  Decl([T |-> <<Ring("f", <<"A">>), Ring("g", <<"A">>)>>], << >>),
  Decl([T |-> <<Ring("g", <<"A">>), Ring("f", <<"A">>)>>], << >>),
  Decl([T |-> <<Fn("f", <<"A">>, "A", {})>>], [G |-> <<Fn("h", <<"A">>, "A", {})>>]),
  Decl([T |-> <<Fn("f", <<"B">>, "A", {})>>], [G |-> <<Fn("h", <<"B">>, "A", {})>>]),
  Decl([T |-> <<Fn("f", <<"A", "B">>, "A", {"cgo"})>>], << >>)}

Configs ==
  {[regen |-> r, link |-> "static", copy |-> FALSE] : r \in BOOLEAN}
  \cup {[regen |-> r, link |-> "dynamic", copy |-> c] : r \in BOOLEAN, c \in BOOLEAN}

\* Every function there is, up to the names of its types.
AllAttrs == {"mem", "cgo", "drop_safe", "drop_safe_ret", "go_pass_struct"}
AllFns(name) ==
  [name: {name}, params: {<< >>, <<"A">>}, ret: {None, "A"}, borrows: BOOLEAN,
   async: BOOLEAN, future: BOOLEAN, attrs: SUBSET AllAttrs]

\* One of each kind, for traits of several functions.
Kinds(name) ==
  {Fn(name, <<"A">>, "A", as) : as \in {{}, {"mem", "drop_safe"}, {"cgo", "drop_safe_ret"}}}
  \cup {Fn(name, <<"A">>, None, {})}
  \cup {[Fn(name, <<"A">>, None, {"mem"}) EXCEPT !.async = FALSE]}
CallKinds(name) ==
  {Fn(name, ps, r, {}) : ps \in {<< >>, <<"A">>}, r \in {None, "A"}}
  \cup {[Fn(name, <<"A">>, "A", {"cgo"}) EXCEPT !.async = FALSE]}

Varied ==
  {Decl([T |-> <<f>>], << >>) : f \in AllFns("f")}
  \cup {Decl([T |-> <<f, g, h>>], << >>) : f \in Kinds("f"), g \in Kinds("g"), h \in Kinds("h")}
  \cup {Decl([T |-> <<f>>, S |-> <<g>>], << >>) : f \in Kinds("f"), g \in Kinds("f") \cup Kinds("g")}
  \cup {Decl([T |-> <<f>>], [G |-> <<h, k>>]) :
          f \in Kinds("f"), h \in CallKinds("h"), k \in CallKinds("k")}

Project(c, s, e, r) == [config |-> c, source |-> s, edits |-> e, runs |-> r]
AllProjects ==
  {Project(c, s, 1, 2) : c \in Configs, s \in FewVersions}
  \cup {Project([regen |-> TRUE, link |-> "static", copy |-> FALSE], s, 0, 0) : s \in Varied}

BufferFilled   == C!BufferFilled
RefsAligned    == C!RefsAligned
RequestArrives == C!RequestArrives
ReplyArrives   == C!ReplyArrives
Detached       == C!Detached
=============================================================================
