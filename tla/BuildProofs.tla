---------------------------- MODULE BuildProofs ----------------------------
(***************************************************************************)
(* Theorems about Generate and Build, for any declarations with any number *)
(* of traits and functions, and any number of edits and runs.              *)
(*                                                                         *)
(* The first part shows that what is generated from one version of a file  *)
(* fits.  The second follows one version through a build that nobody       *)
(* disturbs: into the two generators, the file both of them write, the     *)
(* library and its copy.  A build whose script is skipped rests on what    *)
(* the last one left: nothing touched since then means that the library    *)
(* was made of the file as it is.                                          *)
(***************************************************************************)
EXTENDS Build, FiniteSetTheorems, TLAPS

Typed(d) ==
  /\ \A T \in DOMAIN d.r2g : DOMAIN d.r2g[T] = 1 .. Len(d.r2g[T]) /\ Len(d.r2g[T]) \in Nat
  /\ \A T \in DOMAIN d.g2r : DOMAIN d.g2r[T] = 1 .. Len(d.g2r[T]) /\ Len(d.g2r[T]) \in Nat

-----------------------------------------------------------------------------
(* One version fits *)

\* The functions in the ring before function i are fewer than those before a
\* later one, and than there are in the trait.
LEMMA CallIdGrows ==
  ASSUME NEW fns, NEW n \in Nat, DOMAIN fns = 1 .. n,
         NEW i \in RingFns(fns)
  PROVE  /\ CallId(fns, i) \in Nat
         /\ CallId(fns, i) < Cardinality(RingFns(fns))
         /\ \A j \in RingFns(fns) : i < j => CallId(fns, i) < CallId(fns, j)
  <1> DEFINE Before(k) == {j \in 1 .. k - 1 : InRing(fns[j])}
  <1>1. i \in 1 .. n /\ InRing(fns[i])
    BY DEF RingFns
  <1>2. \A k \in 1 .. n : IsFiniteSet(Before(k)) /\ Cardinality(Before(k)) \in Nat
    <2> TAKE k \in 1 .. n
    <2>1. IsFiniteSet(1 .. k - 1)
      BY FS_Interval
    <2>2. Before(k) \in SUBSET (1 .. k - 1)
      OBVIOUS
    <2>3. IsFiniteSet(Before(k))
      BY <2>1, <2>2, FS_Subset
    <2> QED BY <2>3, FS_CardinalityType
  <1>3. IsFiniteSet(RingFns(fns)) /\ Cardinality(RingFns(fns)) \in Nat
    <2>1. IsFiniteSet(1 .. n)
      BY FS_Interval
    <2>2. RingFns(fns) \in SUBSET (1 .. n)
      BY DEF RingFns
    <2>3. IsFiniteSet(RingFns(fns))
      BY <2>1, <2>2, FS_Subset
    <2> QED BY <2>3, FS_CardinalityType
  <1>4. ASSUME NEW S, IsFiniteSet(S), Cardinality(S) \in Nat,
               Before(i) \in SUBSET S, i \in S
        PROVE  Cardinality(Before(i)) < Cardinality(S)
    <2>1. Cardinality(Before(i)) <= Cardinality(S)
          /\ (Cardinality(S) = Cardinality(Before(i)) => S = Before(i))
      BY <1>4, FS_Subset
    <2>2. i \notin Before(i)
      BY <1>1
    <2>3. Cardinality(S) # Cardinality(Before(i))
      BY <2>1, <2>2, <1>4
    <2>4. Cardinality(Before(i)) \in Nat
      BY <1>1, <1>2
    <2> HIDE DEF Before
    <2> QED BY <2>1, <2>3, <2>4, <1>4
  <1>5. Cardinality(Before(i)) < Cardinality(RingFns(fns))
    <2>1. Before(i) \in SUBSET RingFns(fns)
      BY <1>1 DEF RingFns
    <2> QED BY <2>1, <1>3, <1>4
  <1>6. ASSUME NEW j \in RingFns(fns), i < j
        PROVE  Cardinality(Before(i)) < Cardinality(Before(j))
    <2>1. j \in 1 .. n
      BY DEF RingFns
    <2>2. Before(i) \in SUBSET Before(j) /\ i \in Before(j)
      BY <1>1, <1>6, <2>1
    <2> QED BY <2>1, <2>2, <1>2, <1>4
  <1>7. \A k : CallId(fns, k) = Cardinality(Before(k))
    BY DEF CallId
  <1> QED BY <1>1, <1>2, <1>5, <1>6, <1>7

\* A call made in Rust runs the Go function it names, whether it goes by its
\* name or by its number.
LEMMA CallsItself ==
  ASSUME NEW d, Typed(d), RustCompiles(d),
         NEW T \in DOMAIN d.r2g, NEW i \in DOMAIN d.r2g[T]
  PROVE  Called(d, d, T, i) = {i}
  <1> DEFINE fns == d.r2g[T]
  <1>1. DOMAIN fns = 1 .. Len(fns) /\ Len(fns) \in Nat /\ UniqueNames(fns)
    BY DEF Typed, RustCompiles
  <1>2. CASE InRing(fns[i])
    <2>1. i \in RingFns(fns)
      BY <1>2 DEF RingFns
    <2>2. ASSUME NEW j \in RingFns(fns), CallId(fns, j) = CallId(fns, i)
          PROVE  j = i
      <3>1. j \in Int /\ i \in Int
        BY <1>1, <2>1 DEF RingFns
      <3>2. (i < j => CallId(fns, i) < CallId(fns, j)) /\ CallId(fns, i) \in Nat
        BY <1>1, <2>1, CallIdGrows
      <3>3. (j < i => CallId(fns, j) < CallId(fns, i)) /\ CallId(fns, j) \in Nat
        BY <1>1, <2>1, CallIdGrows
      <3> QED BY <3>1, <3>2, <3>3, <2>2
    <2>3. CallId(fns, i) < Cardinality(RingFns(fns))
      BY <1>1, <2>1, CallIdGrows
    <2>4. Called(d, d, T, i)
            = {j \in RingFns(fns) : CallId(fns, j) = CallId(fns, i)
                                    /\ CallId(fns, i) < Cardinality(RingFns(fns))}
      BY <1>2 DEF Called
    <2> QED BY <2>1, <2>2, <2>3, <2>4
  <1>3. CASE ~InRing(fns[i])
    <2>1. Called(d, d, T, i) = {j \in DOMAIN fns : ~InRing(fns[j]) /\ fns[j].name = fns[i].name}
      BY <1>3 DEF Called
    <2> QED BY <1>1, <1>3, <2>1 DEF UniqueNames
  <1> QED BY <1>2, <1>3

\* OneVersionFits for every declaration there is whose names do not clash: both
\* sides agree on every call, and the linker finds what is called.
THEOREM GeneratedFits ==
  ASSUME NEW d, Typed(d), RustCompiles(d)
  PROVE  Fits(d, d) /\ Links(d, d)
  <1>1. \A T \in DOMAIN d.r2g : \A i \in DOMAIN d.r2g[T] : Called(d, d, T, i) = {i}
    BY CallsItself
  <1>2. ASSUME NEW T \in DOMAIN d.g2r, NEW i \in DOMAIN d.g2r[T]
        PROVE  CalledBack(d, d, T, i) = {i}
    <2>1. UniqueNames(d.g2r[T])
      BY DEF RustCompiles
    <2> QED BY <2>1 DEF CalledBack, UniqueNames
  <1>3. Fits(d, d)
    BY <1>1, <1>2 DEF Fits, Same
  <1>4. ASSUME NEW T \in DOMAIN d.r2g, NEW i \in DOMAIN d.r2g[T], InRing(d.r2g[T][i])
        PROVE  RingFns(d.r2g[T]) # {}
    BY <1>4 DEF RingFns
  <1> QED BY <1>1, <1>2, <1>3, <1>4 DEF Links
-----------------------------------------------------------------------------
(* One build, one version *)

Sources == Versions \cup {p.source : p \in Projects}
Decls   == Sources \cup {None}
Files   == {None} \cup {Refs(d) : d \in Decls} \cup {Text(d, h) : d \in Decls, h \in Decls}
Busy    == {"refs", "cbindgen", "write", "done"}
Wrote   == {"cbindgen", "write", "done"}
Copies  == config.link = "dynamic" /\ config.copy

\* What a project and a version of its file are.
SourcesTyped ==
  /\ \A d \in Sources : Typed(d)
  /\ \A p \in Projects : p.config.link \in {"static", "dynamic"}

Types ==
  /\ config.link \in {"static", "dynamic"}
  /\ source \in Sources /\ goFile \in Files
  /\ gen \in [Procs -> [at : {"idle", "failed"} \cup Busy, decl : Decls, header : Decls]]
  /\ pc \in {"idle", "generate", "go", "copy", "bindgen", "rustc"}

\* Where the build is says what cargo's generator does and whether the script
\* has gone through.
Stages ==
  /\ pc # "generate" => gen["cargo"].at = "idle"
  /\ ok => pc \in {"idle", "rustc"}
  /\ pc = "rustc" => ok
  /\ done => pc = "idle" /\ ok /\ program.go = archive

\* While nobody edits the file, both generators write the same.
GenAgrees(p) ==
  /\ gen[p].at \in Busy => gen[p].decl = source
  /\ gen[p].at \in {"write", "done"} => gen[p].header = source
FileAgrees ==
  (\E p \in Procs : gen[p].at \in Wrote) \/ pc \in {"go", "copy", "bindgen", "rustc"} =>
    goFile \in {Refs(source), Text(source, source)}
OneVersion ==
  quiet /\ Building =>
    /\ \A p \in Procs : GenAgrees(p)
    /\ FileAgrees
    /\ pc \in {"copy", "bindgen", "rustc"} => archive = Text(source, source)

\* What the last run of the script left: a library made of the file as it is,
\* unless the file was touched, as it always is by a script that regenerates it.
LastRun ==
  /\ (ok \/ pc \in {"copy", "bindgen"}) /\ ~touched => archive = goFile
  /\ ok \/ pc = "bindgen" => (Copies => lib = archive)
  /\ config.regen /\ (\/ ok \/ pc \in {"go", "copy", "bindgen", "rustc"}
                      \/ gen["cargo"].at \in Wrote)
     => touched

Linked ==
  program # None /\ program.quiet =>
    /\ program.rust \in Sources /\ RustCompiles(program.rust)
    /\ program.go = Text(program.rust, program.rust)

BuildInv == Types /\ Stages /\ OneVersion /\ LastRun /\ Linked

\* A project before its first build satisfies the invariant.
LEMMA InitBuild == SourcesTyped /\ Init => BuildInv
  BY DEF Init, BuildInv, Types, Stages, OneVersion, GenAgrees, FileAgrees, LastRun, Linked, SourcesTyped, Sources,
     Decls, Files, Idle, Procs, Busy, Wrote, Copies, Building

\* The two generators keep the invariant.
LEMMA GeneratingKeeps ==
  ASSUME BuildInv, NEW p \in Procs, WriteRefs(p) \/ Cbindgen(p) \/ WriteGo(p) \/ GenFails(p)
  PROVE  BuildInv'
<1> USE DEF BuildInv, Procs, GenFrame, Copies, Building
<1>1. Types'
  BY DEF Types, WriteRefs, Cbindgen, WriteGo, GenFails, GenStep, Refs, Text, Files, Decls, Busy
<1>2. Stages'
  BY DEF Types, Stages, WriteRefs, Cbindgen, WriteGo, GenFails, GenStep
<1> DEFINE q == CHOOSE r \in Procs : r # p
<1>a. q \in Procs /\ q # p /\ \A r \in Procs : r = p \/ r = q
  OBVIOUS
<1>b. gen'[q] = gen[q] /\ UNCHANGED <<source, pc, quiet, archive>>
  BY <1>a DEF Types, WriteRefs, Cbindgen, WriteGo, GenFails, GenStep
<1>3. OneVersion'
  <2> SUFFICES ASSUME quiet, Building
               PROVE  GenAgrees(p)' /\ FileAgrees'
    BY <1>a, <1>b DEF OneVersion, GenAgrees
  <2> HIDE DEF q, Procs
  <2>0. GenAgrees(p) /\ FileAgrees
    BY DEF OneVersion
  <2>1. CASE WriteRefs(p)
    <3>1. gen'[p].at = "cbindgen" /\ gen'[p].decl = gen[p].decl /\ gen[p].at = "refs"
          /\ goFile' = Refs(gen[p].decl)
      BY <2>1 DEF Types, WriteRefs, GenStep
    <3> QED BY <1>b, <2>0, <3>1 DEF GenAgrees, FileAgrees, Busy
  <2>2. CASE Cbindgen(p)
    <3>1. gen'[p].at = "write" /\ gen'[p].decl = gen[p].decl /\ gen[p].at = "cbindgen"
          /\ gen'[p].header = goFile.decl /\ goFile' = goFile
      BY <2>2 DEF Types, Cbindgen
    <3>2. goFile.decl = source
      BY <2>0, <3>1 DEF FileAgrees, Wrote, Refs, Text
    <3> QED BY <1>b, <2>0, <3>1, <3>2 DEF GenAgrees, FileAgrees, Busy, Wrote
  <2>3. CASE WriteGo(p)
    <3>1. gen'[p].at = "done" /\ gen'[p].decl = gen[p].decl /\ gen[p].at = "write"
          /\ gen'[p].header = gen[p].header /\ goFile' = Text(gen[p].decl, gen[p].header)
      BY <2>3 DEF Types, WriteGo, GenStep
    <3> QED BY <1>b, <2>0, <3>1 DEF GenAgrees, FileAgrees, Busy
  <2>4. CASE GenFails(p)
    <3>1. gen'[p].at = "failed" /\ goFile' = goFile
      BY <2>4 DEF Types, GenFails
    <3> QED BY <1>a, <1>b, <2>0, <3>1 DEF GenAgrees, FileAgrees, Busy, Wrote
  <2> QED BY <2>1, <2>2, <2>3, <2>4
<1>4. LastRun'
  BY DEF Types, LastRun, WriteRefs, Cbindgen, WriteGo, GenFails, GenStep, Wrote
<1>5. Linked'
  BY DEF Linked, WriteRefs, Cbindgen, WriteGo, GenFails, RustCompiles, UniqueNames, HasCallback, 
         InRing, Has, Answers
<1> QED BY <1>1, <1>2, <1>3, <1>4, <1>5

\* What the user does keeps the invariant.
LEMMA UserKeeps ==
  ASSUME BuildInv, User
  PROVE  BuildInv'
<1> USE DEF BuildInv, Procs, GenFrame, Copies, Building, ReadSource, Idle
<1>1. Types'
  BY DEF Types, User, Edit, CliStart, CliEnds, Sources, Decls, Busy
<1>2. Stages'
  BY DEF Types, Stages, User, Edit, CliStart, CliEnds
<1>3. OneVersion'
  <2>1. CASE Edit
    BY <2>1 DEF Edit, OneVersion
  <2>2. CASE CliStart
    <3>1. gen'["cli"].at = "refs" /\ gen'["cli"].decl = source /\ gen'["cargo"] = gen["cargo"]
      BY <2>2 DEF Types, CliStart
    <3> QED BY <2>2, <3>1 DEF CliStart, OneVersion, GenAgrees, FileAgrees, Busy, Wrote
  <2>3. CASE CliEnds
    <3>1. gen'["cli"].at = "idle" /\ gen'["cargo"] = gen["cargo"]
      BY <2>3 DEF Types, CliEnds
    <3> QED BY <2>3, <3>1 DEF CliEnds, OneVersion, GenAgrees, FileAgrees, Busy, Wrote
  <2> QED BY <2>1, <2>2, <2>3 DEF User
<1>4. LastRun'
  BY DEF Types, LastRun, User, Edit, CliStart, CliEnds, Wrote
<1>5. Linked'
  BY DEF Linked, User, Edit, CliStart, CliEnds
<1> QED BY <1>1, <1>2, <1>3, <1>4, <1>5

\* The build and the compilers keep the invariant.
LEMMA CargoKeeps ==
  ASSUME BuildInv, Cargo
  PROVE  BuildInv'
<1> USE DEF BuildInv, BuildFrame, Copies
<1> DEFINE Keeps == Types' /\ Stages' /\ OneVersion' /\ LastRun' /\ Linked'
<1>1. CASE RunScript
  <2>1. gen'["cli"] = gen["cli"] /\ (config.regen => gen'["cargo"] = ReadSource("cargo"))
        /\ (~config.regen => gen'["cargo"] = Idle)
    BY <1>1 DEF RunScript, Types, Procs
  <2>2. Types'
    BY <1>1 DEF RunScript, Types, Procs, ReadSource, Idle, Decls, Busy
  <2>3. OneVersion'
    <3> SUFFICES ASSUME Quiet PROVE (\A p \in Procs : GenAgrees(p)') /\ FileAgrees'
      BY <1>1 DEF RunScript, OneVersion
    <3> QED BY <1>1, <2>1 DEF RunScript, GenAgrees, FileAgrees, Procs, ReadSource, Idle, Quiet,
       Busy, Wrote
  <2>4. Stages' /\ LastRun' /\ Linked'
    BY <1>1, <2>1 DEF RunScript, Stages, LastRun, Linked, ReadSource, Idle, Wrote
  <2> QED BY <2>2, <2>3, <2>4
<1>2. CASE SkipScript
  <2>1. Types' /\ Stages' /\ LastRun' /\ Linked'
    BY <1>2 DEF SkipScript, Types, Stages, LastRun, Linked
  <2>2. OneVersion'
    <3> SUFFICES ASSUME Quiet
                 PROVE  (\A p \in Procs : GenAgrees(p)') /\ FileAgrees'
                        /\ archive = Text(source, source)
      BY <1>2 DEF SkipScript, OneVersion
    <3>1. archive = goFile /\ ~config.regen
      BY <1>2 DEF SkipScript, LastRun
    <3>2. gen' = gen /\ gen["cli"].at = "idle" /\ gen["cargo"].at = "idle"
      BY <1>2 DEF SkipScript, Stages, Quiet
    <3> QED BY <1>2, <3>1, <3>2 DEF SkipScript, GenAgrees, FileAgrees, Quiet, Procs, Busy
  <2> QED BY <2>1, <2>2
<1>3. CASE Generated
  <2>1. gen'["cli"] = gen["cli"] /\ gen'["cargo"] = Idle
    BY <1>3 DEF Generated, Types, Procs
  <2>2. Types'
    BY <1>3 DEF Generated, Types, Procs, Idle, Decls
  <2>3. OneVersion'
    BY <1>3, <2>1 DEF Generated, OneVersion, GenAgrees, FileAgrees, Building, Procs, Idle, Busy, Wrote
  <2>4. Stages' /\ LastRun' /\ Linked'
    BY <1>3, <2>1 DEF Generated, Stages, LastRun, Linked, Idle, Wrote
  <2> QED BY <2>2, <2>3, <2>4
<1>4. CASE GoBuild
  <2>1. Types' /\ Stages' /\ LastRun' /\ Linked'
    BY <1>4 DEF GoBuild, Types, Stages, LastRun, Linked
  <2>2. OneVersion'
    BY <1>4 DEF GoBuild, OneVersion, GenAgrees, FileAgrees, Building, Refs
  <2> QED BY <2>1, <2>2
<1>5. CASE CopyLib
  BY <1>5 DEF CopyLib, Types, Stages, OneVersion, GenAgrees, FileAgrees, Building, LastRun, Linked
<1>6. CASE Bindgen
  BY <1>6 DEF Bindgen, Types, Stages, OneVersion, GenAgrees, FileAgrees, Building, LastRun, Linked
<1>7. CASE Rustc
  <2>1. Types' /\ Stages' /\ OneVersion' /\ LastRun'
    BY <1>7 DEF Rustc, Types, Stages, OneVersion, Building, LastRun
  <2>2. Linked'
    BY <1>7 DEF Rustc, Types, OneVersion, Building, Linked
  <2> QED BY <2>1, <2>2
<1>8. CASE CompileFails \/ BindgenFails
  BY <1>8 DEF CompileFails, BindgenFails, Types, Stages, OneVersion, Building, LastRun, Linked
<1>9. CASE CopyFails
  BY <1>9 DEF CopyFails, Types, Stages, OneVersion, Building, LastRun, Linked
<1> QED BY <1>1, <1>2, <1>3, <1>4, <1>5, <1>6, <1>7, <1>8, <1>9 DEF Cargo

\* The invariant holds in every state of every project.
THEOREM BuildInvariant ==
  ASSUME SourcesTyped
  PROVE  Spec => []BuildInv
<1>1. BuildInv /\ [Next]_vars => BuildInv'
  <2> SUFFICES ASSUME BuildInv, [Next]_vars PROVE BuildInv'
    OBVIOUS
  <2>1. CASE Generating
    BY <2>1, GeneratingKeeps DEF Generating
  <2>2. CASE UNCHANGED vars
    BY <2>2 DEF vars, BuildInv, Types, Stages, OneVersion, GenAgrees, FileAgrees, Building,
       LastRun, Copies, Linked
  <2> QED BY <2>1, <2>2, UserKeeps, CargoKeeps DEF Next
<1> QED BY <1>1, InitBuild, PTL DEF Spec

\* A program built while nobody edited the file calls what it means to, however
\* the build was set up and whatever was built before (Builder::build).
THEOREM BuiltProgramFits ==
  ASSUME SourcesTyped
  PROVE  Spec => []ProgramFits
<1>1. BuildInv => ProgramFits
  <2> SUFFICES ASSUME BuildInv, program # None, program.quiet,
                      config.link = "static" \/ done
               PROVE  Loaded.header = Loaded.decl /\ Fits(program.rust, Loaded.decl)
    BY DEF ProgramFits
  <2>1. Loaded = program.go
    BY DEF Loaded, BuildInv, Types, Stages, LastRun, Copies
  <2>2. program.go = Text(program.rust, program.rust)
    BY DEF BuildInv, Linked
  <2>3. Fits(program.rust, program.rust)
    BY GeneratedFits DEF BuildInv, Linked, SourcesTyped
  <2> QED BY <2>1, <2>2, <2>3 DEF Text
<1> QED BY <1>1, BuildInvariant, PTL

\* What the two sides agree on holds for every version of the file, whatever its
\* traits (R2GTraitRepr::try_from, mem_call_id).
THEOREM EveryVersionFits ==
  ASSUME SourcesTyped
  PROVE  Spec => []OneVersionFits
<1>1. BuildInv => OneVersionFits
  BY GeneratedFits DEF BuildInv, Types, SourcesTyped, OneVersionFits
<1> QED BY <1>1, BuildInvariant, PTL

\* No function one may call without "unsafe" leaves Go with parameters that have
\* gone, and a trait and its impl say the same of each (r2g.rs 120-135, 574).
THEOREM SafetyIsDeclared == Spec => []SafetyDeclared
<1>1. SafetyDeclared
  <2> SUFFICES ASSUME Generates(source), NEW f \in FnsOf(source.r2g)
               PROVE  TraitUnsafe(f) = ImplUnsafe(f) /\ (~TraitUnsafe(f) => Held(f))
    BY DEF SafetyDeclared
  <2>1. Accepted(f)
    BY DEF Generates, FnsOf
  <2> QED BY <2>1 DEF Accepted, TraitUnsafe, ImplUnsafe, Held, IsSafe, Answers
<1> QED BY <1>1, PTL
\* Whatever mixture of functions a file declares, the Go file has the packages
\* and declarations it needs, and where everybody answers, no other (lib.rs 82).
THEOREM ImportsAreRight == Spec => []ImportsSuffice
<1>0. ASSUME NEW d, NEW x
      PROVE  x \in Uses(d) <=> \/ \E f \in FnsOf(d.r2g) : x \in UsedToAnswer(f)
                               \/ \E f \in FnsOf(d.g2r) : x \in UsedToCall(f)
  <2> DEFINE A == {UsedToAnswer(f) : f \in FnsOf(d.r2g)}
             B == {UsedToCall(f) : f \in FnsOf(d.g2r)}
  <2>1. x \in Uses(d) <=> (\E S \in A : x \in S) \/ (\E S \in B : x \in S)
    <3>1. Uses(d) = (UNION A) \cup (UNION B)
      BY Zenon DEF Uses
    <3> HIDE DEF A, B
    <3> QED BY <3>1
  <2>2. (\E S \in A : x \in S) <=> \E f \in FnsOf(d.r2g) : x \in UsedToAnswer(f)
    BY Zenon
  <2>3. (\E S \in B : x \in S) <=> \E f \in FnsOf(d.g2r) : x \in UsedToCall(f)
    BY Zenon
  <2> QED BY <2>1, <2>2, <2>3
<1>1. ASSUME NEW d
      PROVE  Uses(d) \subseteq Imports(d)
  <2>1. ASSUME NEW f \in FnsOf(d.r2g) PROVE UsedToAnswer(f) \subseteq Imports(d)
    <3>1. CASE InRing(f)
      BY <2>1, <3>1 DEF UsedToAnswer, Imports, When
    <3>2. CASE ~InRing(f) /\ Answers(f)
      <4>1. f \in Direct(d)
        BY <3>2 DEF Direct
      <4>2. "runtime" \in Imports(d)
        BY <4>1 DEF Imports, When
      <4>3. IF CgoCallback(f) THEN "cgocall" \in Imports(d) ELSE "asmcall" \in Imports(d)
        BY <3>2, <4>1 DEF Imports, When
      <4> QED BY <3>2, <4>2, <4>3 DEF UsedToAnswer, When
    <3>3. CASE ~InRing(f) /\ ~Answers(f)
      BY <3>3 DEF UsedToAnswer, When
    <3> QED BY <3>1, <3>2, <3>3
  <2>2. ASSUME NEW f \in FnsOf(d.g2r) PROVE UsedToCall(f) \subseteq Imports(d)
    <3>1. "runtime" \in Imports(d)
      BY <2>2 DEF Imports, When
    <3>2. IF CgoCall(f) THEN "cgocall" \in Imports(d) ELSE "asmcall" \in Imports(d)
      BY <2>2 DEF Imports, When
    <3>3. Answers(f) => "internal_drop" \in Imports(d)
      BY <2>2 DEF Imports, When
    <3> QED BY <3>1, <3>2, <3>3 DEF UsedToCall, When
  <2> QED BY <1>0, <2>1, <2>2
<1>2. ASSUME NEW d, Unanswered(d) = {}, NEW x \in Imports(d)
      PROVE  x \in Uses(d)
  <2>1. \A f \in FnsOf(d.r2g) : UsedToAnswer(f) \subseteq Uses(d)
    BY <1>0
  <2>2. \A f \in FnsOf(d.g2r) : UsedToCall(f) \subseteq Uses(d)
    BY <1>0
  <2>3. /\ \A f \in Direct(d) : f \in FnsOf(d.r2g) /\ ~InRing(f) /\ Answers(f)
        /\ \A f \in FnsOf(d.g2r) : Answers(f) \/ f.params # << >>
    BY <1>2 DEF Unanswered, Direct
  <2>4. ASSUME x \in {"mem_ring", "ants", "QueueMeta"} PROVE x \in Uses(d)
    <3>1. PICK f \in FnsOf(d.r2g) : InRing(f)
      BY <1>2, <2>4 DEF Imports, When
    <3> QED BY <2>1, <2>4, <3>1 DEF UsedToAnswer
  <2>5. ASSUME x = "runtime" PROVE x \in Uses(d)
    <3>1. CASE \E f \in Direct(d) : TRUE
      BY <2>1, <2>3, <2>5, <3>1 DEF UsedToAnswer, When
    <3>2. CASE \E f \in FnsOf(d.g2r) : TRUE
      BY <2>2, <2>3, <2>5, <3>2 DEF UsedToCall, When
    <3> QED BY <1>2, <2>5, <3>1, <3>2 DEF Imports, When
  <2>6. ASSUME x = "cgocall" PROVE x \in Uses(d)
    <3>1. CASE \E f \in Direct(d) : CgoCallback(f)
      BY <2>1, <2>3, <2>6, <3>1 DEF UsedToAnswer, When
    <3>2. CASE \E f \in FnsOf(d.g2r) : CgoCall(f)
      BY <2>2, <2>6, <3>2 DEF UsedToCall
    <3> QED BY <1>2, <2>6, <3>1, <3>2 DEF Imports, When
  <2>7. ASSUME x = "asmcall" PROVE x \in Uses(d)
    <3>1. CASE \E f \in Direct(d) : ~CgoCallback(f)
      BY <2>1, <2>3, <2>7, <3>1 DEF UsedToAnswer, When
    <3>2. CASE \E f \in FnsOf(d.g2r) : ~CgoCall(f)
      BY <2>2, <2>7, <3>2 DEF UsedToCall
    <3> QED BY <1>2, <2>7, <3>1, <3>2 DEF Imports, When
  <2>8. ASSUME x = "internal_drop" PROVE x \in Uses(d)
    <3>1. PICK f \in FnsOf(d.g2r) : Answers(f)
      BY <1>2, <2>8 DEF Imports, When
    <3> QED BY <2>2, <2>8, <3>1 DEF UsedToCall, When
  <2> QED BY <1>2, <2>4, <2>5, <2>6, <2>7, <2>8 DEF Imports, When
<1>3. ImportsSuffice
  BY <1>1, <1>2 DEF ImportsSuffice, GoCompiles
<1> QED BY <1>3, PTL
=============================================================================
