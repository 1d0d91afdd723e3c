------------------------------ MODULE Program ------------------------------
(***************************************************************************)
(* From the build to a call: Build makes a program out of the user's file, *)
(* the program is started, and one of its functions is called the way its  *)
(* declaration says (Convert).                                             *)
(***************************************************************************)
EXTENDS Build

CONSTANTS Signatures, Paths, Reordered, ValuesOf(_)

VARIABLES stage, path, sig, sent, wire, got

C == INSTANCE Convert

callVars    == <<stage, path, sig, sent, wire, got>>
programVars == <<vars, callVars>>

\* The match of to_rs_impl and to_go_export: how Rust calls the function.
PathOf(f) == IF InRing(f) THEN "mem" ELSE IF IsAsync(f) THEN "async" ELSE "sync"

PathsOf(d) ==
  {PathOf(f) : f \in {g \in FnsOf(d.r2g) : Answers(g)}}
  \cup {"g2r" : f \in {g \in FnsOf(d.g2r) : Answers(g)}}

ProgramInit ==
  /\ Init
  /\ stage = "built" /\ path = "none" /\ sig = [params |-> << >>, ret |-> C!Byte]
  /\ sent = << >> /\ wire = C!Nothing /\ got = << >>

BuildStep == stage = "built" /\ Next /\ UNCHANGED callVars

\* The types of the function called are those of Convert's instance, Build only
\* tells them apart.  What becomes of the project's files no longer matters.
Start ==
  /\ stage = "built" /\ ~Building /\ done /\ program.quiet
  /\ path' \in PathsOf(program.rust) /\ sig' \in Signatures
  /\ stage' = "call" /\ UNCHANGED <<sent, wire, got>>
  /\ Forgotten

CallStep == C!Next /\ UNCHANGED vars

ProgramNext == BuildStep \/ Start \/ CallStep
ProgramSpec == ProgramInit /\ [][ProgramNext]_programVars
=============================================================================
