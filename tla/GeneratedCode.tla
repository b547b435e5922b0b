----------------------------- MODULE GeneratedCode -----------------------------
(***************************************************************************)
(* What codegen/idris2.rs and codegen/zig_bridge.rs write for a list of    *)
(* function contracts.  An Idris2 module is the sequence of its top-level  *)
(* items: the names each defines, those of constructors too (the fields of *)
(* a record are in a namespace of its own), the names of the module it     *)
(* uses and the types it mentions.  The Zig bridge is the sequence of its  *)
(* declarations.                                                           *)
(***************************************************************************)
EXTENDS InterfaceParser

\* One text directly behind another: the last word of the first and the first of
\* the second grow together
Glued(a, b) == Front(a) \o <<Last(a) \o Head(b)>> \o Tail(b)

\* The names the generator forms from that of a function: text before it and after
\* it.  Two of them may spell the same: getResult is the result type of get, and
\* the wrapper of a function getResult.
Formed(c, form) == Glued(Glued(form[1], c.name), <<form[2]>>)

Suffixed(suffix) == << <<"">>, suffix >>
MkParams == << <<"Mk">>, "Params" >>
IsTotal  == << <<"Is">>, "Total" >>
Prim__   == << <<"prim", "", "">>, "" >>
Forms    == {Suffixed(s) : s \in {"", "Result", "Ok", "Err", "Params", "Pre", "Post", "Total",
                                 "PreSatisfied", "PreOk", "PostSatisfied", "PostOk",
                                 "RoundTrip", "RoundTripOk"}}
            \cup {MkParams, IsTotal, Prim__}

Named(c, suffix) == Formed(c, Suffixed(suffix))
Prim(c)    == Formed(c, Prim__)
Wrapper(c) == Named(c, "")

\* The names of a data type, or of a record, and of its constructors
Item(names, uses, types) == [defines |-> names, uses |-> uses, types |-> types]

--------------------------------------------------------------------------------
\* Type tables.  Types they do not list stay what they are (idris_type) or are
\* taken to be pointers (the other three).

IdrisTypes == [Ptr |-> "AnyPtr", void |-> "()", Unit |-> "()", Response |-> "String",
               Message |-> "String", int |-> "Int", string |-> "String", bool |-> "Bool",
               nat |-> "Nat", double |-> "Double", float |-> "Double"]
idris_type(t) == IF t \in DOMAIN IdrisTypes THEN IdrisTypes[t] ELSE t

\* What Idris2 has without a definition in the module
Builtin == {"Int", "String", "Bool", "Nat", "Double", "AnyPtr", "()",
            "Bits8", "Bits32", "Bits64", "Ptr Bits8", "Ptr Int"}

\* Both sides of the C ABI, as the width an argument has there
idris_prim_type(t) == CASE t \in {"Int", "int", "Bool", "bool"} -> "32"
                        [] t \in {"Double", "double"}           -> "float"
                        [] OTHER                                -> "64"

\* (Mutant) Bool is missing among the 32-bit types.
zig_prim_type_NoBool(t) == CASE t \in {"Int", "int", "Bits32"} -> "32"
                             [] t \in {"Double", "double"}     -> "float"
                             [] OTHER                          -> "64"
zig_prim_type(t) == CASE t \in {"Int", "int", "Bits32", "Bool", "bool"} -> "32"
                      [] t \in {"Double", "double"}                     -> "float"
                      [] OTHER                                          -> "64"

\* The type of the user's function, as wide as a 64-bit target has it
zig_type(t) == CASE t \in {"Int", "int", "Bits32", "uint32_t"} -> "32"
                 [] t \in {"Double", "double", "float"}        -> "float"
                 [] t \in {"Bool", "bool"}                     -> "bool"
                 [] t \in {"()", "void", "Unit"}               -> "none"
                 [] OTHER                                      -> "64"

RetType(c)    == {idris_type(c.return_type)}
ParamTypes(c) == {idris_type(c.params[i].type_name) : i \in DOMAIN c.params}
HasParams(c)  == c.params # <<>>
HasPre(c)     == c.preconditions # <<>>
HasPost(c)    == c.postconditions # <<>>

--------------------------------------------------------------------------------
\* The sections of an Idris2 module, for one contract each

write_contract_types(c) ==
    <<Item({Named(c, "Result"), Named(c, "Ok"), Named(c, "Err")}, {}, RetType(c))>>
    \o When(HasParams(c), Item({Named(c, "Params"), Formed(c, MkParams)}, {}, ParamTypes(c)))
    \o When(HasPre(c), Item({Named(c, "Pre")},
                            IF HasParams(c) THEN {Named(c, "Params")} ELSE {}, {}))
    \o When(HasPost(c), Item({Named(c, "Post")}, {}, RetType(c)))

TotalItem(c)     == Item({Named(c, "Total"), Formed(c, IsTotal)}, {}, {})
PreItem(c)       == Item({Named(c, "PreSatisfied"), Named(c, "PreOk")},
                         {Named(c, "Params"), Named(c, "Pre")}, {})
PostItem(c)      == Item({Named(c, "PostSatisfied"), Named(c, "PostOk")}, {Named(c, "Post")}, RetType(c))
RoundTripItem(c) == Item({Named(c, "RoundTrip"), Named(c, "RoundTripOk")}, {}, {})

\* (Mutant) Every precondition gets an obligation, parameters or not.
write_proof_obligations_AnyPre(c, m) ==
    When(c.require_total, TotalItem(c)) \o When(HasPre(c), PreItem(c))
    \o When(HasPost(c), PostItem(c)) \o When(m.round_trip, RoundTripItem(c))
write_proof_obligations(c, m) ==
    When(c.require_total, TotalItem(c)) \o When(HasPre(c) /\ HasParams(c), PreItem(c))
    \o When(HasPost(c), PostItem(c)) \o When(m.round_trip, RoundTripItem(c))

write_ffi_declarations(c) == <<Item({Prim(c)}, {}, {})>>

write_safe_wrappers(c) ==
    <<Item({Wrapper(c)},
           {Prim(c)} \cup IF HasParams(c) /\ HasPre(c)
                          THEN {Named(c, "Params"), Named(c, "PreSatisfied")} ELSE {},
           RetType(c) \cup IF HasPre(c) THEN {} ELSE ParamTypes(c))>>

\* The names every module has
AllProofsComplete == {<<"AllProofsComplete">>, <<"MkAllProofsComplete">>}
Verify            == {<<"verify">>}

write_verification(cs) ==
    <<Item(AllProofsComplete, {Named(cs[i], "Total") : i \in DOMAIN cs}, {}),
      Item(Verify, {}, {})>>

\* idris2::generate: each section for all contracts, one section after the other
IdrisModule(m, cs) ==
    LET Section(write(_)) == FlattenSeq([i \in DOMAIN cs |-> write(cs[i])])
        obligations(c) == write_proof_obligations(c, m)
    IN  Section(write_contract_types) \o Section(obligations)
        \o Section(write_ffi_declarations) \o Section(write_safe_wrappers)
        \o write_verification(cs)

\* A C symbol is the words that '_' joins
Symbol(prefix, words) == prefix \o words

\* The %foreign declarations of the module: the C symbol and its arguments
Foreign(iface, c) ==
    [symbol |-> Symbol(Safe[iface.name], c.name),
     args   |-> [i \in DOMAIN c.params |-> idris_prim_type(c.params[i].type_name)]]
ForeignDecls(iface, cs) == [i \in DOMAIN cs |-> Foreign(iface, cs[i])]

--------------------------------------------------------------------------------
\* The declarations of the bridge

Declare(kind, symbol, args, calls) ==
    [kind |-> kind, symbol |-> symbol, args |-> args, calls |-> calls]
Nothing == <<>>

\* The user's function
Extern(iface, c) ==
    Declare("extern", Symbol(Safe[iface.name], c.name),
         [i \in DOMAIN c.params |-> zig_type(c.params[i].type_name)], Nothing)

\* (Mutant) The bridge exports the symbol that the module asks for.
BridgeFunction_AsDeclared(m, iface, c) ==
    Declare("export", Symbol(Safe[iface.name], c.name),
         [i \in DOMAIN c.params |-> zig_prim_type(c.params[i].type_name)],
         Symbol(Safe[iface.name], c.name))

\* The export that calls it
BridgeFunction(m, iface, c) ==
    Declare("export", Symbol(Safe[m.name], c.name),
         [i \in DOMAIN c.params |-> zig_prim_type(c.params[i].type_name)],
         Symbol(Safe[iface.name], c.name))

write_interface_bridge(m, iface, cs) ==
    FlattenSeq([i \in DOMAIN cs |-> <<Extern(iface, cs[i]), BridgeFunction(m, iface, cs[i])>>])

write_lifecycle(m) ==
    <<Declare("var", <<"initialized">>, <<>>, Nothing),
      Declare("export", Symbol(Safe[m.name], <<"verified", "init">>), <<>>, Nothing),
      Declare("export", Symbol(Safe[m.name], <<"verified", "shutdown">>), <<>>, Nothing)>>

write_version == <<Declare("export", <<"idrisiser", "version">>, <<>>, Nothing)>>

\* zig_bridge::generate, for the contracts of each interface
Bridge(m, all_contracts) ==
    FlattenSeq([i \in DOMAIN all_contracts |->
                  write_interface_bridge(m, m.ifaces[i], all_contracts[i])])
    \o write_lifecycle(m) \o write_version
================================================================================
