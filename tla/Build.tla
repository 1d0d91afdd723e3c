------------------------------- MODULE Build -------------------------------
(***************************************************************************)
(* From the user's file to a program: the build script (Builder::build in  *)
(* build.rs) regenerates the Go file, has Go compile it, copies the        *)
(* library and writes the bindings; rustc then compiles the user's file    *)
(* and links.  The user edits the file at any time, and may run rust2go-cli*)
(* by hand, which writes the same Go file.                                 *)
(*                                                                         *)
(* Cargo, rustc and the Go compiler are external.  Cargo runs the script   *)
(* again when its last run failed or when something in go_src is newer     *)
(* than the start of that run (rerun-if-changed), and may do so for        *)
(* reasons of its own.  Every tool may fail, for reasons of the user's.    *)
(***************************************************************************)
EXTENDS Generate

CONSTANTS
  Projects,     \* the projects one starts with: [config, source, edits, runs], where
                \* edits and runs bound how often the user does either
  Versions      \* the declarations the user may change the file to

VARIABLES
  config,       \* [regen, link, copy]: how the Builder was set up
  source,       \* the declarations in the user's file
  goFile,       \* dst: None, or [kind, decl, header]
  touched,      \* go_src has changed since the last run of the script began
  gen,          \* generate(), run by the script ("cargo") or by hand ("cli")
  pc,           \* where the build is
  ok,           \* the last run of the script went through
  archive, lib, \* the Go library in OUT_DIR, and the copy in the target directory
  program,      \* None, or [rust, go, quiet]: what the last linked binary was made of
  done,         \* the last build went through
  quiet,        \* see Quiet
  edits, runs   \* how many edits, and runs of rust2go-cli by hand, are left

vars == <<config, source, goFile, touched, gen, pc, ok, archive, lib, program, done, quiet,
          edits, runs>>

Procs   == {"cargo", "cli"}
Refs(d) == [kind |-> "refs", decl |-> d, header |-> d]
Text(d, h) == [kind |-> "go", decl |-> d, header |-> h]
Idle    == [at |-> "idle", decl |-> None, header |-> None]
Building == pc # "idle"

Init ==
  /\ \E p \in Projects : /\ config = p.config /\ source = p.source
                         /\ edits = p.edits /\ runs = p.runs
  /\ goFile = None /\ touched = FALSE
  /\ gen = [p \in Procs |-> Idle]
  /\ pc = "idle" /\ ok = FALSE /\ archive = None /\ lib = None
  /\ program = None /\ done = FALSE /\ quiet = FALSE

\* The state in which nothing of a project is left.
Forgotten ==
  /\ config' = [regen |-> FALSE, link |-> "static", copy |-> FALSE]
  /\ source' = [r2g |-> << >>, g2r |-> << >>]
  /\ goFile' = None /\ touched' = FALSE
  /\ gen' = [p \in Procs |-> Idle]
  /\ pc' = "idle" /\ ok' = FALSE /\ archive' = None /\ lib' = None
  /\ program' = None /\ done' = FALSE /\ quiet' = FALSE
  /\ edits' = 0 /\ runs' = 0

-----------------------------------------------------------------------------
(* generate().  The Go file is also where the Ref structs are put for        *)
(* cbindgen to read, before it gets its contents.                            *)

GenStep(p, from, to) == gen[p].at = from /\ gen' = [gen EXCEPT ![p].at = to]
GenFrame == UNCHANGED <<config, source, pc, ok, archive, lib, program, done, quiet, edits, runs>>

ReadSource(p) == [at |-> "refs", decl |-> source, header |-> None]

WriteRefs(p) ==
  /\ GenStep(p, "refs", "cbindgen")
  /\ goFile' = Refs(gen[p].decl) /\ touched' = TRUE
  /\ GenFrame

\* cbindgen parses what is in the file by now.
Cbindgen(p) ==
  /\ gen[p].at = "cbindgen" /\ goFile # None /\ goFile.kind = "refs"
  /\ gen' = [gen EXCEPT ![p].at = "write", ![p].header = goFile.decl]
  /\ UNCHANGED <<goFile, touched>> /\ GenFrame

\* go fmt rewrites the file with the same contents.
WriteGo(p) ==
  /\ GenStep(p, "write", "done") /\ Generates(gen[p].decl)
  /\ goFile' = Text(gen[p].decl, gen[p].header) /\ touched' = TRUE
  /\ GenFrame

\* A panic, on what is not Rust or on a trait that is refused.  The file keeps
\* what was written to it.
GenFails(p) ==
  /\ \/ gen[p].at = "cbindgen" /\ (goFile = None \/ goFile.kind = "go")
     \/ gen[p].at = "write" /\ ~Generates(gen[p].decl)
  /\ gen' = [gen EXCEPT ![p].at = "failed"]
  /\ UNCHANGED <<goFile, touched>> /\ GenFrame

-----------------------------------------------------------------------------
(* The user *)

\* Whoever edits the file while it is being built has asked for nothing.
Edit ==
  /\ edits > 0
  /\ source' \in Versions \ {source}
  /\ edits' = edits - 1 /\ quiet' = FALSE
  /\ UNCHANGED <<config, goFile, touched, gen, pc, ok, archive, lib, program, done, runs>>

CliStart ==
  /\ gen["cli"].at = "idle" /\ runs > 0
  /\ gen' = [gen EXCEPT !["cli"] = ReadSource("cli")]
  /\ runs' = runs - 1
  /\ UNCHANGED <<config, source, goFile, touched, pc, ok, archive, lib, program, done, quiet, edits>>

CliEnds ==
  /\ gen["cli"].at \in {"done", "failed"}
  /\ gen' = [gen EXCEPT !["cli"] = Idle]
  /\ UNCHANGED <<goFile, touched>> /\ GenFrame

-----------------------------------------------------------------------------
(* cargo build *)

\* Nobody writes the Go file as the build starts, and if the script does not
\* regenerate it, it is up to date: "you should generate go code before build".
Quiet == gen["cli"].at = "idle" /\ (config.regen \/ goFile = Text(source, source))

BuildFrame == UNCHANGED <<config, source, goFile, edits, runs>>

\* Mutant: the Go library is built before the file is generated.
RunScript_GoFirst ==
  /\ pc = "idle"
  /\ touched' = FALSE /\ ok' = FALSE /\ done' = FALSE /\ quiet' = Quiet
  /\ pc' = "go"
  /\ gen' = [gen EXCEPT !["cargo"] = Idle]
  /\ UNCHANGED <<archive, lib, program>> /\ BuildFrame

RunScript ==
  /\ pc = "idle"
  /\ touched' = FALSE /\ ok' = FALSE /\ done' = FALSE /\ quiet' = Quiet
  /\ pc' = IF config.regen THEN "generate" ELSE "go"
  /\ gen' = [gen EXCEPT !["cargo"] = IF config.regen THEN ReadSource("cargo") ELSE Idle]
  /\ UNCHANGED <<archive, lib, program>> /\ BuildFrame

SkipScript ==
  /\ pc = "idle" /\ ok /\ ~touched
  /\ done' = FALSE /\ quiet' = Quiet /\ pc' = "rustc"
  /\ UNCHANGED <<touched, ok, gen, archive, lib, program>> /\ BuildFrame

Generated ==
  /\ pc = "generate" /\ gen["cargo"].at \in {"done", "failed"}
  /\ pc' = IF gen["cargo"].at = "done" THEN "go" ELSE "idle"
  /\ gen' = [gen EXCEPT !["cargo"] = Idle]
  /\ UNCHANGED <<touched, ok, archive, lib, program, done, quiet>> /\ BuildFrame

GoBuild ==
  /\ pc = "go" /\ goFile # None /\ goFile.kind = "go" /\ GoCompiles(goFile.decl)
  /\ archive' = goFile
  /\ pc' = IF config.link = "dynamic" /\ config.copy THEN "copy" ELSE "bindgen"
  /\ UNCHANGED <<touched, gen, ok, lib, program, done, quiet>> /\ BuildFrame

CopyLib ==
  /\ pc = "copy"
  /\ lib' = archive /\ pc' = "bindgen"
  /\ UNCHANGED <<touched, gen, ok, archive, program, done, quiet>> /\ BuildFrame

\* The bindings are made of the header that lies beside the library.
Bindgen ==
  /\ pc = "bindgen"
  /\ ok' = TRUE /\ pc' = "rustc"
  /\ UNCHANGED <<touched, gen, archive, lib, program, done, quiet>> /\ BuildFrame

Rustc ==
  /\ pc = "rustc" /\ RustCompiles(source) /\ Generates(source) /\ Links(source, archive.decl)
  /\ program' = [rust |-> source, go |-> archive, quiet |-> quiet]
  /\ done' = TRUE /\ pc' = "idle"
  /\ UNCHANGED <<touched, gen, ok, archive, lib, quiet>> /\ BuildFrame

\* The target directory is not found, or the copy fails, maybe halfway: then no
\* library that can be loaded is left there.
CopyFails ==
  /\ pc = "copy"
  /\ lib' \in {lib, None} /\ pc' = "idle"
  /\ UNCHANGED <<touched, gen, ok, archive, program, done, quiet>> /\ BuildFrame

\* The header is missing or not understood, or the bindings cannot be written.
BindgenFails ==
  /\ pc = "bindgen"
  /\ pc' = "idle"
  /\ UNCHANGED <<touched, gen, ok, archive, lib, program, done, quiet>> /\ BuildFrame

\* assert! in go_build, or a compile error of rustc.
CompileFails ==
  /\ pc \in {"go", "rustc"}
  /\ pc' = "idle"
  /\ UNCHANGED <<touched, gen, ok, archive, lib, program, done, quiet>> /\ BuildFrame

Generating == \E p \in Procs : WriteRefs(p) \/ Cbindgen(p) \/ WriteGo(p) \/ GenFails(p)
User       == Edit \/ CliStart \/ CliEnds
Cargo      == RunScript \/ SkipScript \/ Generated \/ GoBuild \/ CopyLib \/ Bindgen
                \/ Rustc \/ CopyFails \/ BindgenFails \/ CompileFails
Next == Generating \/ User \/ Cargo

Spec == Init /\ [][Next]_vars

-----------------------------------------------------------------------------
(* Properties *)

\* For every declaration the generator accepts and whose names do not clash in
\* Rust: what is generated from one version of it fits, in the ring with its
\* tables of numbers too, and the linker finds each function with as many
\* arguments as it is called with (mem_call_id, the tables of to_go_export).
OneVersionFits ==
  Generates(source) /\ RustCompiles(source) => Fits(source, source) /\ Links(source, source)

\* A function one may call without "unsafe" never leaves Go with parameters that
\* have gone, and the trait and its impl say the same.
SafetyDeclared ==
  Generates(source) =>
    \A f \in FnsOf(source.r2g) :
      /\ TraitUnsafe(f) = ImplUnsafe(f)
      /\ ~TraitUnsafe(f) => Held(f)

\* Whatever mixture of functions a file declares, the packages and declarations
\* the generated code needs are there, and those that are there for nothing are
\* so for a function that returns nothing to anybody.
Unanswered(d) ==
  {f \in Direct(d) : ~Answers(f)} \cup {f \in FnsOf(d.g2r) : ~Answers(f) /\ f.params = << >>}
ImportsSuffice ==
  Generates(source) =>
    /\ Uses(source) \subseteq Imports(source)
    /\ Unanswered(source) = {} => GoCompiles(source)

\* The Go side the program runs with: linked in, or what the loader finds.
Loaded ==
  IF config.link = "static" THEN program.go ELSE IF config.copy THEN lib ELSE archive

\* A program built while nobody edited the file calls, with every call and in
\* both directions, the function it means to, although rustc and the linker
\* would accept others, and although a second generator may have written to the
\* same file meanwhile.  For a program that loads the library this is so after
\* a build that went through: one that fails may leave a new library behind.
ProgramFits ==
  program # None /\ program.quiet /\ (config.link = "static" \/ done) =>
    Loaded.header = Loaded.decl /\ Fits(program.rust, Loaded.decl)
=============================================================================
