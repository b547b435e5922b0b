-------------------------------- MODULE Codegen --------------------------------
(***************************************************************************)
(* What one `idrisiser generate` makes of a manifest and of what it finds  *)
(* in the interface sources: generate_all (codegen/mod.rs) over the parser *)
(* and the two generators.  How the files get to the disk is the matter of *)
(* GeneratePipeline; here it is what is in them.                           *)
(***************************************************************************)
EXTENDS GeneratedCode

CONSTANTS
    Manifests, \* manifests that validate accepts
    Texts      \* format |-> what an interface source of that format may hold

Manifest == [name : DOMAIN Safe, round_trip : BOOLEAN, ifaces : Seq(Interface)]

ASSUME ManifestsAssumption == Manifests \subseteq Manifest
ASSUME TextsAssumption == \A format \in Formats : Texts[format] \subseteq Seq(Line)

VARIABLES
    manifest,  \* the manifest of this run
    contracts, \* all_contracts: the contracts of each interface parsed so far
    modules,   \* the Idris2 module of each interface, with its %foreign declarations
    bridge,    \* the Zig bridge: its declarations, none before it is written
    aborted    \* whether a parser panicked, which ends the run

vars == <<manifest, contracts, modules, bridge, aborted>>

NotWritten == <<>>
ifaces == manifest.ifaces

Init == /\ manifest \in Manifests
        /\ contracts = <<>>
        /\ modules = <<>>
        /\ bridge = NotWritten
        /\ aborted = FALSE

\* Step 1, once per interface.  A source that cannot be read is as good as one
\* in which nothing is found.
ParseInterface ==
    /\ ~aborted
    /\ Len(contracts) < Len(ifaces)
    /\ LET iface == ifaces[Len(contracts) + 1] IN
       \E text \in Texts[iface.format] \cup {<<>>} :
          /\ ~Panics(iface, text)
          /\ contracts' = Append(contracts, parse_interface(iface, text))
    /\ UNCHANGED <<manifest, modules, bridge, aborted>>

ParsePanics ==
    /\ ~aborted
    /\ Len(contracts) < Len(ifaces)
    /\ LET iface == ifaces[Len(contracts) + 1] IN
       \E text \in Texts[iface.format] : Panics(iface, text)
    /\ aborted' = TRUE
    /\ UNCHANGED <<manifest, contracts, modules, bridge>>

\* (Mutant) A module is written as soon as its interface is parsed.
WriteModule_Eager ==
    /\ ~aborted
    /\ Len(modules) < Len(contracts)
    /\ LET i == Len(modules) + 1 IN
       modules' = Append(modules, [items   |-> IdrisModule(manifest, contracts[i]),
                                   foreign |-> ForeignDecls(ifaces[i], contracts[i])])
    /\ UNCHANGED <<manifest, contracts, bridge, aborted>>

\* Step 2, once per interface
WriteModule ==
    /\ ~aborted
    /\ Len(contracts) = Len(ifaces)
    /\ Len(modules) < Len(ifaces)
    /\ LET i == Len(modules) + 1 IN
       modules' = Append(modules, [items   |-> IdrisModule(manifest, contracts[i]),
                                   foreign |-> ForeignDecls(ifaces[i], contracts[i])])
    /\ UNCHANGED <<manifest, contracts, bridge, aborted>>

\* (Mutant) The bridge is written ahead of the modules.
WriteBridge_Ahead ==
    /\ ~aborted
    /\ Len(contracts) = Len(ifaces)
    /\ bridge = NotWritten
    /\ bridge' = Bridge(manifest, contracts)
    /\ UNCHANGED <<manifest, contracts, modules, aborted>>

\* Step 3
WriteBridge ==
    /\ ~aborted
    /\ Len(contracts) = Len(ifaces)
    /\ Len(modules) = Len(ifaces)
    /\ bridge = NotWritten
    /\ bridge' = Bridge(manifest, contracts)
    /\ UNCHANGED <<manifest, contracts, modules, aborted>>

Next == ParseInterface \/ ParsePanics \/ WriteModule \/ WriteBridge

Spec == Init /\ [][Next]_vars

--------------------------------------------------------------------------------
\* Every contract has a name (that of the path "/" is one empty word), there are no
\* more contracts than interfaces, no more modules than contracts, and the bridge
\* comes last.
TypeOK ==
    /\ manifest \in Manifests
    /\ aborted \in BOOLEAN
    /\ Len(contracts) <= Len(ifaces)
    /\ \A i \in DOMAIN contracts : \A c \in ToSet(contracts[i]) : c.name # <<>>
    /\ Len(modules) <= Len(contracts)
    /\ bridge # NotWritten => Len(modules) = Len(ifaces)

(* A parser panics on a line whose parentheses are the wrong way round         *)
(* (parser.rs:234, 337, 343), and one such line in the source of the last      *)
(* interface ends the run.  It then leaves no trace: as long as there is a     *)
(* source to parse, no artifact of any interface is written, and those of an   *)
(* earlier run stay what they were, together.  (generate_all,                  *)
(* codegen/mod.rs:33-49: all parsing is done ahead of all writing.)            *)
PanicLeavesNoArtifact ==
    /\ aborted => modules = <<>> /\ bridge = NotWritten
    /\ modules # <<>> \/ bridge # NotWritten => Len(contracts) = Len(ifaces)

(* Whatever lines a source holds on which the parser returns, and also when it *)
(* is missing or holds none of the functions asked for, an interface gets at   *)
(* least one contract, none that "verify" does not name when it names any, and *)
(* every clause the manifest states is on every contract.  (parse_interface,   *)
(* codegen/parser.rs:49-98: the fallback is built apart from the parsed        *)
(* contracts.)                                                                 *)
ContractsHonourManifest ==
    \A i \in DOMAIN contracts :
        /\ contracts[i] # <<>>
        /\ \A c \in ToSet(contracts[i]) :
              /\ ifaces[i].verify # <<>> => c.name \in ToSet(ifaces[i].verify)
              /\ ToSet(ifaces[i].preconditions)  \subseteq ToSet(c.preconditions)
              /\ ToSet(ifaces[i].postconditions) \subseteq ToSet(c.postconditions)
              /\ ToSet(ifaces[i].invariants)     \subseteq ToSet(c.invariants)

\* A name that is spelled for two functions, or in two ways for one, or for a
\* function and by every module: get and getResult, getPre with Ok and get with
\* PreOk, verify.  The manifest and the sources can ask for such names.
Ambiguous(cs, name) ==
    \E i \in DOMAIN cs, f \in Forms :
        /\ Formed(cs[i], f) = name
        /\ \/ name \in AllProofsComplete \cup Verify
           \/ \E j \in DOMAIN cs, g \in Forms : <<i, f>> # <<j, g>> /\ Formed(cs[j], g) = name

(* Idris2 reads a module from top to bottom.  Every name the generator uses is *)
(* defined before: the five sections of a module, written one after the other  *)
(* under conditions of their own, agree on which names there are.  And no name *)
(* is defined twice, except those that the names of the functions make         *)
(* ambiguous (nothing keeps a manifest from that).  (codegen/idris2.rs:41-47.)  *)
NamesDefinedBeforeUse ==
    \A i \in DOMAIN modules :
        LET items == modules[i].items IN
        /\ \A j \in DOMAIN items : items[j].uses \subseteq UNION {items[k].defines : k \in 1 .. j - 1}
        /\ \A j, k \in DOMAIN items : j # k =>
              \A name \in items[j].defines \cap items[k].defines : Ambiguous(contracts[i], name)

\* The functions of all interfaces, and the two declarations the bridge has of
\* the k-th: the user's function, and the one that calls it
functions   == FlattenSeq(contracts)
external(k) == bridge[2 * k - 1]
exported(k) == bridge[2 * k]

\* Types of which idris_prim_type and zig_prim_type, or zig_prim_type and zig_type,
\* make something else: Bits32 on one side only, spellings that one table alone
\* knows, and what is no number or pointer at all
ModuleAndBridgeDiffer == {"Bits32"}
BridgeAndUserDiffer   == {"Bool", "bool", "()", "void", "Unit", "uint32_t", "float"}

(* A call crosses from the module to the bridge, and from there to the user's  *)
(* function, with as many arguments as each takes, each as wide as it is read, *)
(* and nothing else in the bridge calls anything.  In the first step Bits32 is *)
(* left out: the module passes 64 bits (idris2.rs:493), the bridge takes 32    *)
(* (zig_bridge.rs:227); in the second Bool, a u32 handed on as a bool          *)
(* (zig_bridge.rs:215, 227), and what else zig_type alone knows.  (Three       *)
(* tables of types in two files: idris_prim_type, zig_prim_type, zig_type.)    *)
ArgumentsAgree ==
    bridge # NotWritten =>
        LET declared == FlattenSeq([i \in DOMAIN modules |-> modules[i].foreign])
        IN  /\ Len(declared) = Len(functions)
            /\ \A k \in DOMAIN functions :
                 /\ external(k).kind = "extern" /\ exported(k).kind = "export"
                 /\ exported(k).calls = external(k).symbol
                 /\ Len(declared[k].args) = Len(exported(k).args)
                 /\ Len(external(k).args) = Len(exported(k).args)
                 /\ \A a \in DOMAIN exported(k).args : LET type == functions[k].params[a].type_name IN
                      /\ type \notin ModuleAndBridgeDiffer => declared[k].args[a] = exported(k).args[a]
                      /\ type \notin BridgeAndUserDiffer   => exported(k).args[a] = external(k).args[a]
            /\ \A b \in DOMAIN bridge : bridge[b].calls # Nothing => \E k \in DOMAIN functions : b = 2 * k

\* Names of the project and its interfaces of which none begins another, no
\* function twice, and none that is named like those every bridge has
DistinctNames(cs) == \A i, j \in DOMAIN cs : cs[i].name = cs[j].name => i = j

WellNamedProject ==
    LET prefixes  == <<Safe[manifest.name]>> \o [i \in DOMAIN ifaces |-> Safe[ifaces[i].name]]
    IN  /\ \A i, j \in DOMAIN prefixes : i # j => ~IsPrefix(prefixes[i], prefixes[j])
        /\ DistinctNames(functions)
        /\ \A i \in DOMAIN prefixes : prefixes[i] # <<"idrisiser">>
        /\ \A c \in ToSet(functions) : c.name \notin {<<"verified", "init">>, <<"verified", "shutdown">>}

(* The bridge holds the user's functions as external ones beside those it      *)
(* exports under names of its own, for all interfaces at once, and Zig takes   *)
(* no name twice: in a well-named project every name is declared once, and     *)
(* what a bridge function calls is declared.  (write_interface_bridge, 97-133, *)
(* against write_lifecycle and write_version, zig_bridge.rs:158-205.)          *)
BridgeDeclaresOnce ==
    bridge # NotWritten /\ WellNamedProject =>
        /\ \A i, j \in DOMAIN bridge : bridge[i].symbol = bridge[j].symbol => i = j
        /\ \A d \in ToSet(bridge) :
              d.calls # Nothing => \E x \in ToSet(bridge) : x.kind = "extern" /\ x.symbol = d.calls

--------------------------------------------------------------------------------
(* What the repository says of the generator, and the generator does not do    *)

(* "Exports C-ABI functions that Idris2 calls via %foreign"                    *)
(* (zig_bridge.rs:8): every symbol a module declares is exported by the bridge.*)
ForeignSymbolsExported ==
    bridge # NotWritten =>
        \A i \in DOMAIN modules : \A f \in ToSet(modules[i].foreign) :
            \E b \in ToSet(bridge) : b.kind = "export" /\ b.symbol = f.symbol

(* "The module should still be valid Idris2" when the source is not found      *)
(* (tests/integration_test.rs:173): it only mentions types there are.          *)
TypesExist ==
    \A i \in DOMAIN modules : \A item \in ToSet(modules[i].items) : item.types \subseteq Builtin

(* "Which functions/endpoints to verify (empty = all)" (manifest/mod.rs:72):   *)
(* every function that is named there gets a contract.                         *)
EveryNamedFunctionVerified ==
    \A i \in DOMAIN contracts : \A name \in ToSet(ifaces[i].verify) :
        \E c \in ToSet(contracts[i]) : c.name = name

(* "Preconditions are checked before every call" (the header of every module,  *)
(* idris2.rs:89): no wrapper of a function with preconditions does without a   *)
(* proof of them.                                                              *)
PreconditionsCheckedOnEveryCall ==
    \A i \in DOMAIN modules : \A c \in ToSet(contracts[i]) :
        HasPre(c) => \A item \in ToSet(modules[i].items) :
            Wrapper(c) \in item.defines => Named(c, "PreSatisfied") \in item.uses
================================================================================
