# Idrisiser: verification project

Idrisiser turns a manifest (`idrisiser.toml`) that lists interfaces - OpenAPI
files, C headers, protobuf files, type signatures - into Idris2 modules with
dependently-typed wrappers and proof obligations, a Zig bridge that exports the
functions the modules call, an Idris2 package and a build script. Beside the
generator the repository holds a Zig *proof engine* library behind a C ABI, and
the Idris2 declarations of that ABI.

This directory holds TLA+ models of those parts, TLC configurations that check
them on small instances, and TLAPS proofs for every value of the constants.
`PROJECT.json` is the machine-readable index: components, runs, the lines each
definition models, mutants, hazards, findings and theorems. Paths below are
relative to the repository, `codegen/` and `manifest/` to its `src/` directory.

    tlc -workers 2 -config engine.cfg MCProofEngine     # a run
    tlapm GeneratePipelineProofs.tla                    # the proofs of a module

## 1. The system

| component | state it keeps | operations | hard behaviour |
|---|---|---|---|
| **Zig proof engine** (`src/interface/ffi/src/main.zig`) | per handle: `initialized`, `interface_loaded`, `obligation_count`, `discharged_count`, `proofs_compiled`; per thread: `last_error`; blocks and strings on the C heap | init, free, is_initialized, parse_interface, generate_proofs, compile_proofs, emit_wrapper, the two counters, get_string, free_string, last_error | several threads, workflow order, handles freed and reused, no memory, u32 subtraction |
| **Generate pipeline** (`main.rs`, `lib.rs`, `codegen/mod.rs`) | the files in the output directory | load, validate, parse every source, write modules, bridge, package, script | runs that overlap, fail or are killed at any system call; files edited meanwhile |
| **Manifest** (`manifest/mod.rs`) | `idrisiser.toml` | load, validate, init, print_info | check-then-write in init |
| **Interface parser** (`codegen/parser.rs`) | none (a function of manifest and text) | four line parsers, fallback contracts, clauses, verify filter | missing, irrelevant or partial sources; slices that panic |
| **Idris2 generator** (`codegen/idris2.rs`) | none | five sections, one after the other | sections decide under conditions of their own which names exist; names formed by concatenation |
| **Zig bridge generator** (`codegen/zig_bridge.rs`) | none | per contract an `extern` (the user's function) and an `export` that calls it; init, shutdown, version | must agree with the Idris2 side on symbols, arity and width; all interfaces share one file |
| **CLI: init, build, run** (`main.rs`, `manifest/mod.rs`, `codegen/mod.rs`) | `idrisiser.toml`, output directories, build products | init, validate, generate, build, run, info | check-then-write; paths fixed in the code and resolved twice; stale products |
| **Foreign client** (`Foreign.idr`) | handles and strings it owns | one wrapper per engine function: call, decode, copy, free | ownership of blocks across the ABI; sessions that end anywhere |
| **ABI layouts** (`Layout.idr`) | none | alignment, offsets, struct size, checks | arithmetic at boundaries |
| **Rust ABI types** (`abi/mod.rs`) | none | summary of a list of obligations | the empty list |
| **ABI gate** (`scripts/abi-ffi-gate.jl`), templates | none | | |

**How they interact.** A `generate` run calls the manifest loader, then the parser
once per interface, then hands *the same* list of contracts to the Idris2
generator and the bridge generator, and then writes the package and the build
script. The build script is run later, by the user or by `idrisiser build`: it
compiles what the directory holds *then*. The two generated languages meet at the
C ABI: `%foreign` declarations in the modules against `export fn` in the bridge.
The proof engine is a separate library that Idris2 callers reach through
`Foreign.idr`; threads share its handles and its heap but not its errors.

**What makes each part correct** - one paragraph per component, with the
properties that say it:

* *Proof engine*: a caller can emit a wrapper only if every obligation of the
  interface loaded *now* was proved (`ImplementsWorkflow`); flags and counters never
  drift apart (`CountersTrackProof`); a thread's error tells how its own last call
  ended (`ErrorReflectsLastCall`); and all this although a call is a sequence of plain
  loads and stores (`ImplementsAtomicEngine`), which leave memory consistent
  (`EnginesAtRest`).
* *Generate pipeline*: what a successful run leaves is one consistent set of files,
  whatever was there before (`PublishedIsCoherent`); at no moment does a complete file
  name one that was never written (`ReferencedFilesExist`).
* *Parser and generators*: a source on which the parser panics leaves no artifact
  (`PanicLeavesNoArtifact`); no clause of the manifest gets lost from one on which it returns
  (`ContractsHonourManifest`); modules are well scoped, but for names that meet
  (`NamesDefinedBeforeUse`); preconditions are asked for on every call
  (`PreconditionsCheckedOnEveryCall`, which fails); the three
  sides of a call agree (`ArgumentsAgree`); Zig accepts the names of the bridge
  (`BridgeDeclaresOnce`).
* *Foreign client*: what a wrapper returns is what happened (`OutcomesAreTrue`); every
  block has one owner (`HeapAccounted`); calls respect the engine's rules on every path
  (`CallsAreLegal`); engines are freed and others get their turn (`SessionsGoOn`).
* *CLI*: init spares a manifest that was there (`InitSparesManifest`, proved); build
  works on what generate left (`BuildFindsTheScript`, which fails).
* *Layouts, summary*: the arithmetic returns what its comments say (theorems).

## 2. Modules

    ProofWorkflow         abstract: what a caller of the engine may observe
      ^ refined by
    ProofEngine           the library, one action per exported function
      ^ refined by          ^ used through the wrappers of
    EngineThreads         ForeignClient
      calls taken apart     sessions of Idris2 clients
      into loads, stores

    GeneratePipeline      generate as a process over the files
    IdrisiserCli          all commands as processes over manifest and directories

    InterfaceParser       parse_interface: manifest + text -> contracts (operators)
    GeneratedCode         contracts -> items of the module, declarations of the bridge
    Codegen               the run of generate_all over the two

    AbiLayout             Layout.idr (operators)
    AbiSummary            abi/mod.rs (operators)

Modules `MC...` hold the instances for TLC. Theorems are in `ProofEngineProofs`,
`EngineThreadsProofs`, `ForeignClientProofs`, `GeneratePipelineProofs`, `CodegenProofs`,
`CliProofs` and `AbiProofs`; `SequenceLemmas` holds what they need of sequences and induction.

`GeneratePipeline` and `Codegen` are the two halves of `generate`: the first knows
*when* each file is written and from which edition of which source, and treats what
a file holds as a token; the second knows *what* is in the files and treats writing
as atomic. They meet at `Plan` / `WriteModule`, `WriteBridge`: same artifacts, same
order, one parse for both generators.

### ProofEngine

`engine[a]` is the `EngineState` in the heap block at address `a`, `NoEngine` when
there is none; `strings` are the blocks that hold strings handed to callers;
`lastError[t]` is thread `t`'s `threadlocal last_error`; `reply[t]` is a history
variable: the last call of `t`, what it returned, and whether it was carried out.
Every exported function that touches state is an action with its guards in the
order of the code (null handle, uninitialized handle, then the function's own
checks), its stores, and `setError`/`clearError`. Allocation picks any unused block or
fails. `free` clears the block, which may then be handed out again. A handle passed
to a call is null or live: using a freed one is undefined behaviour that no C
library detects, and callers are assumed not to.

Interface parsing, obligation derivation and compilation are `TODO` placeholders
in the code; the model has what the handlers around them do. The number of derived
obligations is the constant `DerivedCounts`. The code as it stands is
`DerivedCounts = {0}` (`main.zig:180-182`), which run `engine_zero` uses. With 0
obligations `compile_proofs` always refuses and nothing behind it can be reached, so run
`engine` lets derivation count 0 or 2: this is what the guards, the counters and
the workflow test of `main.zig` are written for, and the results hold for the
shipped code as the special case. The proofs are for any set of counts.

`ProofWorkflow` is the abstract specification: stages closed - open - loaded -
derived - proved, and what each call may answer at each stage. It has no flags, no
counters and no error string. `ImplementsWorkflow` maps the engine state to its stage
(`StageOf`) and drops what a caller does not see.

### EngineThreads

The same functions as threads run them. A call *enters*: it evaluates its guards in
the code's order, allocates, and decides what it will store (`call[t]`, `becomes[a]`).
It then *stores* the fields one at a time and in any order, since they are plain
stores that the optimizer may move; `free` stores `initialized` and then *destroys* the
block, which may be handed out again while `free` is still running, with its old
contents; a new engine starts from whatever is there. A call *leaves* by setting or
clearing the error of its thread. `engine` is what is in memory.

The code takes no lock, so it must rely on its callers: `MayCall` lets calls that
change one engine come one at a time, and `free` come alone. This is the least one can
ask: two threads that compile and parse on one handle overwrite each other's
fields. The three queries may overlap a call that changes the engine - that is what polling the
progress of another thread does; what such a query returns is a data race and is not
recorded (`raced`), but it must disturb nobody. `ImplementsAtomicEngine` is `Spec` of
`ProofEngine` under the mapping in which a call happens when it enters and a query when
it leaves. It is what makes `ProofEngine`'s one-step calls an adequate model.

### ForeignClient

A client is a thread of the engine that runs sessions: it opens an engine (and asks
again while there is no memory), runs a script of wrappers until one returns `Left`,
reads the error or not, and frees the engine. Each wrapper is an action that makes the
`ProofEngine` call with the client's handle and decodes the reply as `Foreign.idr` does;
`getString` is three steps (take, copy, give back), between which others run. The
sessions are external: they are what the wrappers' types suggest a program does. That a
client forgets its handle when it frees it is part of that, and `CallsAreLegal` is about such
clients; `Foreign.free` itself only calls the engine. `getString` binds its copy with `let`, as a
call without IO: Idris2 is strict and evaluates it there, before the action that frees the block, and
this is the one order modelled. What a backend that moved the copy would do is not.
`leaked` is a history variable: `lastError` (`Foreign.idr:221-226`) copies the message
and never frees the block it came in.

### IdrisiserCli

`toml` is what `idrisiser.toml` holds, `tree[d]` what output directory `d` holds, `cmd[c]` an
invocation: its command, where it is, its `-o`, the manifest it loaded. `init` looks,
truncates and writes in three steps; `run` finds no binary unless the user put one there, and what
it calls ends as it likes; `load` is followed by `validate` for the commands for which
`main` calls it; `generate` is two steps (its writes are `GeneratePipeline`'s); `build` resolves the
path of the script as bash does, in the directory it is started in. Commands fail or
are killed anywhere; the user edits the manifest at any time. `edited` and `ready` are history
variables.

### AbiLayout, AbiSummary

`Layout.idr` function by function, with `Maybe` and `Either` of a proof as BOOLEAN. `StructLayout` holds
what `MkStructLayout` can construct: the sum of the sizes fits and the alignment divides the total (144-145). The two
folds of `calcStructSize` by what they compute (the left one ends with the last
field, the right one with the first it folds). `from_obligations` of `abi/mod.rs`
counts. There is no state, so these have theorems and no run.

### GeneratePipeline

`out` maps each file to absent, empty, torn (part of a content, or parts of two) or
made (from a manifest and from editions of sources). `run[p]` is invocation `p`: where
it is (`load`, `parse`, `open`, `write`, `chmod`), the manifest it loaded, the editions
it parsed, the write it is at. `published` and the field `alone` are history
variables: what the last run that overlapped with no other wrote. The name of a module file is
what `idris2.rs:30-52` makes of prefix and interface: `module_prefix` is an Option, an empty string
is a prefix too, and `Slashed` replaces each `.` of the whole name by `/`. `Listed` and `Scripted` are what the
package and the script refer to.

`fs::write` is two steps, `Open` (create or truncate) and `Write`. A run can fail or be
killed at each point (`Fail`), in the middle of a write too. Overlapping writes to one
file leave the content of either or a mixture. The user may save, break or remove
the manifest and the sources at any time; since the program reads each exactly
once, at a moment of the user's choosing, it suffices that each read returns any
of the possible contents. Edition 0 is a source that cannot be read: the code
treats it like an empty one (`parser.rs:52`).

### InterfaceParser, GeneratedCode, Codegen

The parser works on lines that are records saying what the code's string tests
recognise in them (a path line, a method line, a C declaration with base types and
stars, an rpc line, a signature). On a *backwards* line a slice ends before it begins and the parser
panics: a line taken for a C declaration whose last `)` comes before its first `(` - a comment is
enough - (`parser.rs:234`), an rpc of that kind (337), or one with `returns` within its request type (343).
`Panics` says which texts have one, and `ParsePanics` ends the run. Function names are sequences of words where
the code joins with `_`. A generated module is the sequence of its items, each with
the names it defines (constructors included), the names it uses and the types it mentions, in the order
of the five sections; a bridge is the sequence of its declarations - the user's functions as
externs, the exports, the `initialized` flag, init, shutdown and version - with symbol, callee and
argument widths. Comments, layout and message texts are left out.
`Codegen` runs parse, modules, bridge in the order of `generate_all`. What a manifest and a line can
be is written down as sets (`Manifest`, `Interface`, `Line`), and the instances are assumed to lie in them.
A name that the generator forms is spelled out: `Formed` puts text before and after the function's name as
the format strings do, so that `getResult` is one name whether it is the result type of `get` or the
wrapper of `getResult`; `Ambiguous` says which names meet in that way.
The path `/` has no words left when its separators are gone: its function is named by the one word `""`.

## 3. Runs

| run | instance | shows |
|---|---|---|
| `engine` | 2 threads, 2 heap blocks, counts {0,2}, u32 cut to 0..3 | `TypeOK`, `CountersTrackProof`, `ErrorReflectsLastCall`, `ImplementsWorkflow`: every interleaving of every call |
| `engine_zero` | the same with counts {0} | **violation** of `ZeroMeansFailure`: the code's own "or 0 on failure" |
| `pipeline` | 2 invocations; manifests with two interfaces, one, and an invalid one; sources present or unreadable | `TypeOK`, `PublishedIsCoherent`, `ReferencedFilesExist` |
| `pipeline_twins` | a manifest whose two interface names differ in `-` and `_` | **violation** of `EveryInterfaceHasItsModule` |
| `codegen` | `examples/user-api`, and one interface of each format x verify lists x clauses x `round_trip` x sources found, irrelevant, missing or making the parser panic | `TypeOK`, `PanicLeavesNoArtifact`, `ContractsHonourManifest`, `NamesDefinedBeforeUse`, `ArgumentsAgree`, `BridgeDeclaresOnce` |
| `codegen_symbols` | `examples/user-api` | **violation** of `ForeignSymbolsExported` |
| `codegen_types` | `examples/user-api` | **violation** of `TypesExist` |
| `codegen_verify` | `examples/user-api` | **violation** of `EveryNamedFunctionVerified` |
| `codegen_guards` | `examples/user-api` | **violation** of `PreconditionsCheckedOnEveryCall` |
| `engine_threads` | 2 threads, 2 heap blocks, counts {0,1}, u32 cut to 0..1 | `ThreadsTypeOK`, `EnginesAtRest`, `ImplementsAtomicEngine`: every interleaving of loads and stores |
| `foreign_client` | 2 clients, 3 heap blocks, 3 scripts, counts {0,2} | `ClientTypeOK`, `HeapAccounted`, `OutcomesAreTrue`, `CallsAreLegal`, and the liveness property `SessionsGoOn` |
| `cli_build` | 2 commands, init's template and an invalid manifest, the default directory and one given with `-o` | **violation** of `BuildFindsTheScript` |

Each violation is a sentence of a comment or a test of the repository that the code
does not keep; `findings` in `PROJECT.json` quotes it and gives the line.

**Bounds, and why they are enough.**

* *Two threads, two blocks.* Threads of the engine interact through the heap and
  through handles they share; each hazard involves one thread that disturbs another.
  Two blocks give two engines, an engine and a string, and a block that is freed and
  reused; with both taken, allocation must fail. The proofs drop all these bounds.
* *Loads and stores* (`engine_threads`). Two blocks let one thread free a block while the
  other is handed it. Counts 0 and 1 are enough here: the question is which stores are
  visible, and a field that differs shows it. The `VIEW` drops `reply`, which no
  action's guard or effect on other variables depends on and which the mapping only passes
  on (neither invariant reads it; `ErrorsAtRest`, which does, is proved and not run); `SYMMETRY` is over threads and blocks, with no liveness property in the run.
* *Three blocks, three scripts* (`foreign_client`). Both clients may lose a block each to an
  error message and must then take turns with the last one: fewer blocks would leave no
  contention, more would never run out. The scripts are the documented order, one that skips
  steps (and so fails, beside a `getString`), and one that parses again after deriving.
* *Counts {0, 2} and a counter of 0..3.* 0 is the boundary the guards test; 2 tells
  "all" from "some", and 2 + 2 overflows the cut-down counter.
* *Format codes 3 and 4* are the last valid and the first invalid one.
* *Two invocations.* An overlap needs two; a third could only tear a file again.
  Two interfaces show two modules that share a bridge; the manifest that
  drops one shows stale files of earlier runs. The proofs are for any number.
* *Manifests and texts of `codegen`*: all formats, with and without parameters,
  clauses of each kind present and absent, a line that panics in the source of the last or the only
  interface, functions of one name, functions `get`, `getResult` and `prim__get`, functions called
  `verify` and `AllProofsComplete` (what every module defines by itself), the root path, a method
  before any path, unnamed parameters, pointers, and types that one width table knows and another does
  not. Every combination is one run of `generate`, so the state graph is a set of short paths; the
  theorems take any manifest and any lines.
* Nothing counts without bound: no state constraint is used anywhere.

**Deadlock** is checked in all runs but `codegen*`: the others can always go on. A
`codegen` run ends, and its configurations say so.

**Fairness.** Only `ForeignClient` assumes any. `WF(Work(c))`: a client that has an engine goes on
with its session - its wrappers are total (`%default total`, `Foreign.idr:23`) and no function of the
engine blocks or loops. `WF(Opened(c))`: an `init` that keeps asking while memory is there gets it at
last. Nothing makes a client begin a session (`Begin` has no fairness), nothing makes an
allocation succeed at a given call, and weak fairness promises no particular client an engine:
one that only asks at the wrong moments may starve, so `SessionsGoOn` says that *some*
client gets one. The engine by itself promises nothing about when it is called, and a
`generate` run may be killed at any step, so their properties are safety properties.

**Mutants.** For each property of each passing run a definition ending in a name such
as `Open_KeepsExisting`, next to the definition it replaces, is a plausible bug
that breaks that property. They are listed in `PROJECT.json` and are part of no
specification.

## 4. Proofs

**Assumptions.** The named `ASSUME`s of the modules only: `NULL` is no address, the
counters' bound is a natural number and the derived counts do not exceed it, format
codes are natural numbers; a source may be unreadable, a manifest is a record of
strings, an optional prefix and a sequence of interfaces; scripts are sequences of wrappers; in `Codegen`,
manifests are manifests (`ManifestsAssumption`), sources are sequences of lines (`TextsAssumption`)
and a sanitised name has a word (`SafeAssumption`). TLC evaluates them in every run of the module.

**`ProofEngineProofs`** - for any threads, addresses, codes, counts and counter width:

* `InductiveInvariant`: `Spec => []IInv`. `TypeOK` and the properties are not inductive:
  `CountersTrackProof` speaks of *answers* (`remaining` wraps) and only of live engines.
  `IInv` says the same of the fields - nothing discharged unless compiled, then
  everything; compiled only with something to prove; obligations only with an
  interface - and adds that a freed block is blank: a handle is live exactly while
  its fields say so. `ErrorReflectsLastCall` is inductive relative to it.
* `TypeCorrect`, `CountersCorrect`, `ErrorCorrect`: the invariants that run `engine` checks.
* `EngineImplementsWorkflow`: `Spec => ImplementsWorkflow`, the refinement, action by
  action: each engine step maps to a step of `ProofWorkflow` or to a stutter.

**`GeneratePipelineProofs`** - for any invocations, manifests and editions:

* `TypeCorrect`, `ReferencesResolve`: the inductive invariant `IInv` adds to the two
  properties that a run that writes has loaded a *valid* manifest, that its
  index stays in its plan, and that what it opened so far exists (`EarlierExist`). No
  file ever disappears, so this survives every step of every other run; when
  the package is completed, all modules come before it in `Plan`.
* `ModulesOfTheirOwn`: under the same hypothesis as the next, `EveryInterfaceHasItsModule` holds: names that
  collide are all that can break it.
* `PublishedCoherent`: `PublishedIsCoherent` for manifests whose interfaces have distinct
  module files (`DistinctModules`, a hypothesis of the theorem and not of the model:
  run `pipeline_twins` shows the code does not see to it). The invariant `CInv` says that
  a run that is alone is the only one running, that the files it has passed hold
  what it wrote, and that while something is published nobody is inside a write.
  `PlanInjective` shows that the writes of one run go to different files, which is
  where the hypothesis is needed.

**`EngineThreadsProofs`** - for any threads, addresses, codes, counts and counter width:

* `ThreadsInvariant`: three parts. *Calls* (`CallsInv`): a call works on a block that is an
  engine's, only calls that change it have stores due, two calls on one block are never both
  changing it. *Memory* (`MemoryInv`): `becomes` is what a block holds but for the fields
  some call still has to store, and a block that is nobody's engine counts as blank. *Told*:
  types of errors and replies. The second part is what the refinement needs: a guard
  that reads `engine[h]` reads `becomes[h]`, because no other call has a store due there.
* `ThreadsTypeCorrect`, and `ThreadsImplementAtomicEngine`: each `Enter...` maps to the step of
  `ProofEngine` of that name, `Leave` of an unraced query to the query, and every store, destroy
  and other leave to a stutter.
* The module takes an instance of `ProofEngineProofs` under the same mapping, and with the refinement its
  theorems become theorems about the threads: `ThreadsImplementWorkflow` (a wrapper is emitted only when
  everything was proved, for calls taken apart), `RestConsistent` (`EnginesAtRest`: the atomic engine's
  counters agree, and memory differs from it only where stores are due) and `ErrorsConsistent` (a
  thread that has left its call finds the error of that call).

**`ForeignClientProofs`** - for any clients, scripts, heap and codes:

* `ClientInvariant`: the engine's `IInv`, the shape of a session (it has a handle exactly
  between open and close, a string exactly while it copies) and `HeapAccounted`, which is inductive
  together with them. `WhoHasWhat` accounts for one step: a client's blocks change as the heap's.
* `ClientTypeCorrect`, `HeapCorrect`, and `ClientsAreLegalCallers`: `ClientSpec => Spec` of
  `ProofEngine`. `ProofEngine` *assumes* that callers use live handles; this is where the
  assumption is met, so all theorems on the engine hold for what these clients do:
  `ClientsGetTheEngine` states three of them.
* `OutcomesCorrect`: `OutcomesAreTrue` is about what a client was told, and its proof about how the
  engine's reply and error of that client get there. `OutcomeInv` adds, for each place a session can
  be at, what the client's own last call left in `reply` and `lastError`, up to the three steps of `getString`
  (a client that is giving a string back has been told `Just`, although the engine's last call is by then
  another). `Alone` is what makes it survive the steps of others: a call of one thread changes no
  reply and no error but its own.

**`SequenceLemmas`** - the theorems on contents are inductions over lines, functions and interfaces,
and the library's induction theorems take an operator as a parameter, which the provers cannot
instantiate. `NatInduct` says the same of a *set* of numbers, from the least element of what it lacks;
`Recursion` makes a function by repeated steps, which is what gives `FlattenSeq`, defined by recursion in
the community modules, the equations everything else uses (`FlattenSteps`, `FlattenInduct`,
`FlattenFacts`).

**`CodegenProofs`** - what run `codegen` checks of its manifests and sources, for any manifest, any
lines in any order, any number of interfaces, functions, parameters and clauses:

* `Invariant`: `Spec => []IInv`, in four parts: what is parsed honours its interface (`ContractsInv`);
  modules come after all parsing and are what `IdrisModule` and `ForeignDecls` make of the contracts *of the
  same place* (`ModulesInv`); the bridge comes last and is made of all of them (`BridgeInv`); a run that panicked has a source left to parse
  (`PanicInv`), which with `ModulesInv` and `BridgeInv` gives `NoArtifactOfAPanic`. The
  properties alone are not inductive: they say something of the artifacts, and
  their truth comes from how those were made of contracts with names and clauses.
* `ParsedHonours`, then `Types` and `ContractsHonour`: each of the four parsers, on any text that does not make
  it panic, yields contracts, at least one, with every clause and within `verify`. For OpenAPI it is an induction over lines, since a method
  line changes the contract before it.
* `DefinedBeforeUse`: a module is a concatenation of sections, and a section one of blocks;
  `WellScoped(items, K, X)` says that items use only what is in `K` or was defined before, and that what two
  of them define is in `X`; it goes from blocks to sections to the module. The conditions under which a block
  is there are the generator's own; that they agree is the content of the proof. `X` is the set of ambiguous
  names: the proof assumes nothing of the names of functions, and shows that what a module defines twice
  comes from two different pairs of function and form (`DifferentForms`, no form is used in two places)
  that spell the same.
* `CallsAgree` is the same for a single contract and any type name: widths agree from module to bridge
  to user function *except exactly* at the types of `ModuleAndBridgeDiffer` and `BridgeAndUserDiffer`. With
  `BridgeShape` (the k-th function has the declarations 2k-1 and 2k, four of the bridge's own follow) it gives
  `Arguments`.
* `DeclaredOnce`: two symbols with different prefixes, of which none begins the other, differ
  (`PrefixesMeet`); with one prefix they differ by the name of the function.
* `DeclaredNotExported`: in *every* well-named project *no* symbol that a module declares is exported by the
  bridge. The violation that run `codegen_symbols` finds is thus no accident of the example, and renaming the
  exports alone would not help: the bridge declares that very symbol as external.

**`CliProofs`** - `InitSpares`: a manifest that was there when init looked is never overwritten; the
invariant is that an init about to truncate has found nothing, or something was written since.
`OutputsValid`: a directory generate has finished was made of a manifest that validate accepted,
whatever was saved meanwhile; `VInv` follows the manifest that a command carries from `load` to its end.
Hypotheses of both: the template is a manifest and the default directory an output directory.

**`AbiProofs`** - `decDivides` decides divisibility (`DecDividesCorrect`); `alignUp` returns a multiple
(`AlignUpDivides`, which `Layout.idr:66-68` leaves as residual proof work) and the least one
(`AlignUpLeast`); the concrete layouts have all that `CABICompliant` is documented to mean
(`ConcreteLayoutsFollowCABI`), although the check looks at alignment only (`CheckAcceptsOverlap`: two fields
on the same 8 bytes of a struct of 16, which `MkStructLayout` accepts as well);
`calcStructSize` never asks for too little (`CalcStructSizeSuffices`) but may ask for too much
(`CalcStructSizeOfHandleData`: 24 for a struct declared to have 16); `FieldOffsetIsAnIndex`;
`SummaryAddsUp`.

**Only model-checked**: the liveness property `SessionsGoOn` (fairness and `ENABLED` are out of the proof
system's reach). Every invariant, refinement and action property that a passing run checks is a theorem.

**What the proofs corrected in the models.** A few definitions were wrong in a corner or could not be
reasoned about, and changed: the name of the path `/` was the empty sequence and is the sequence of
one empty word, as `path_to_function_name` returns `""`; the names of a module were thought apart when the
functions' names are, which a function named `AllProofsComplete` (`idris2.rs:444`) and the pair `get`,
`getResult` refute;
`ArgumentsAgree` found the bridge's declarations by symbol, which says nothing of two functions of one
symbol, and now goes by position, with all types at which the tables differ listed; filtering is
written with `When` and `FlattenSeq`, one block per element, since the provers know nothing of `SelectSeq`.

## 5. Not modelled, and why

* TOML decoding, `print_info`, message texts and layout: pure I/O and formatting.
* The bodies of the bridge's init, shutdown and version, its header and its result type: text the
  generator never varies. A process that loads two bridges of one project is not modelled.
* Which texts a C declaration can have beyond base type, star and name; that Idris2 does not accept every
  function's name (an operator, an upper-case one) as that of a function; the field names of the parameter
  records, which are in a namespace of their own.
* That a backend of Idris2 might evaluate `getString`'s copy late (see *ForeignClient*), and clients that keep
  a handle after `free`.
* The wrappers of the three queries in `Foreign.idr`, which change nothing, and `errorDescription`.
* What `build.sh` does once bash has found it: external compilers.
* `contractStructLayout` (`Layout.idr:301-306`) is a placeholder that returns the empty list.
* `Types.idr`, `Proofs.idr`, `FfiSeam.idr`, `Invariants.idr`, `Semantics.idr`, `Capstone.idr`: Idris2
  proofs, checked by the Idris2 compiler.
* `scripts/abi-ffi-gate.jl`: a comparison of two texts. Containers, workflows, the
  `Justfile` and governance files: not the program.
* Calls with a handle that was freed: undefined behaviour. `ForeignClient` shows that sessions
  over the wrappers make none; the types of `Foreign.idr` do not forbid them (`free` returns no new type).

### Observations made while modelling, without a run

* `Bits32` parameters are declared 64 bits wide in the module (`idris2.rs:493`, the default)
  and taken as `u32` by the bridge (`zig_bridge.rs:227`). `ArgumentsAgree` leaves this type out
  and says so.
* A wrapper's result is not the call's: for a return type other than unit the
  wrapper still ends in `pure (Right ())`.
* Two interfaces that both have a function of one name export one symbol twice; so
  does an interface with the name of the project.
* An unnamed C parameter is dropped, and `void *x` loses its star with its name.
* OpenAPI: the last method line under a path names the method of the contract
  (`parser.rs:134-142`), so a path has one contract however many methods it has.
* The bridge passes a `u32` on as a `bool` and a `u64` as a pointer with no conversion
  (`zig_bridge.rs:132-147`), although its header says "Handles type conversions"
  (`zig_bridge.rs:10`).
* `remaining_count` read by another thread between the two stores of `generate_proofs` or
  `parse_interface` may subtract a discharged count from an obligation count already reset to 0.
* `compileProofs` makes `ProofFailure` of every code that is not 0 (`Foreign.idr:128-130`), `emitWrapper` makes
  `Error` of them: a null handle and an unproved obligation look the same.
* `run` looks for `generated/idrisiser/build/{name}_verified` (`codegen/mod.rs:206`), which no step of a build
  makes: the package names no executable, and the script's link step is a comment.
* `build` ignores the directory that `generate -o` was given; the Quick Start (`README.adoc:123-127`)
  generates into `generated/my-api` and then builds.
* `init` that is killed between truncating and writing leaves an empty manifest, which every
  command refuses to load and `init` refuses to replace.
* `verifyAllPlatforms` (`Layout.idr:251-257`) looks at no layout; a summary of no obligations is `all_proven`.
* Stated invariants reach the contract but no part of the generated module.
* The OpenAPI path `/` gives a function whose name is the empty string (`parser.rs:427-437`), so the module
  gets declarations without a name.
* A comment line of a C header such as `* a) first (default`, or an rpc with `)` before `(`, makes `generate`
  panic (`parser.rs:234`, 337, 343) instead of reporting an error. Nothing is written then.
* Functions `get` and `getResult` in one interface make a module that defines `getResult` twice: the result type of
  one and the wrapper of the other (`idris2.rs:139`, 355); likewise `prim__get` (320). Nothing checks for it.
* `module_prefix = ""` is a prefix: the module `.core` goes to the path `/core.idr` (`idris2.rs:50-51`), which
  `Path::join` takes as absolute, outside the output directory.
* A function called `AllProofsComplete` or `verify` clashes with what every module defines
  (`idris2.rs:444`), one called `verified_init` with the bridge's own (`zig_bridge.rs:175`).
* `parse_interface` cannot tell a source it may not read from one that is not there.

## 6. Plan

Done: the engine with its abstract workflow, its calls taken apart, its Idris2 clients; the pipeline
and the CLI; the contents of modules and bridge; layouts and summary; and a theorem for every safety property
that the runs check.

What is left, in the order of what it would add:

1. **The two halves of generate, joined** - that `Plan` of `GeneratePipeline` writes what `Codegen` makes, as a
   refinement: then `PublishedIsCoherent` and the theorems on contents speak of the same files.
2. **Build and run with stale products** - `IdrisiserCli` and `GeneratePipeline` composed, with the
   steps of the build script as actions, once a build can find its script.
3. **The generated lifecycle** - init and shutdown of a bridge and of two bridges in one process, once
   something calls them.
4. **Derivation and compilation** - when the `TODO`s of `main.zig` are implemented, `DerivedCounts` and
   `compile_proofs` become models of code in place of parameters.
