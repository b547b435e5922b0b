---------------------------- MODULE InterfaceParser ----------------------------
(***************************************************************************)
(* codegen/parser.rs: from the lines of an interface definition to         *)
(* function contracts.  A line is a record that says what the code finds   *)
(* in it; a function name is the sequence of the words that '_' joins.     *)
(***************************************************************************)
EXTENDS Naturals, Sequences, SequencesExt

CONSTANT Safe  \* name |-> its words, '-' and '_' both separating them

\* What '_' joins: one word at least, and the one word of "" is ""
Words == Seq(STRING) \ {<<>>}

ASSUME SafeAssumption == \A name \in DOMAIN Safe : Safe[name] \in Words

CTypes == [int |-> "Int", uint32_t |-> "Bits32", int64_t |-> "Bits64", size_t |-> "Nat",
           double |-> "Double", float |-> "Double", bool |-> "Bool", void |-> "()"]
PointerTypes == [void |-> "AnyPtr", char |-> "String", uint8_t |-> "Ptr Bits8"]

\* A C type is a base type, whether a '*' stands with it, and whether "Ptr" is in
\* the base's name (in that of none the tables know)
CType == {ct \in [base : STRING, star : BOOLEAN, ptr : BOOLEAN] :
             ct.ptr => ct.base \notin DOMAIN CTypes \cup DOMAIN PointerTypes}

\* The lines the parsers look at, and all others.  On a "backwards" line the slice
\* of a C declaration or an rpc ends before it begins: ')' ahead of '(', or
\* "returns" within the request type of an rpc.
Line  == [k : {"path"}, segs : Seq([param : BOOLEAN, words : Seq(STRING)])]
         \cup [k : {"method"}, method : STRING]
         \cup [k : {"decl"}, name : Words, ret : CType, params : Seq([name : STRING, type : CType])]
         \cup [k : {"rpc"}, name : Words, request : STRING, response : STRING]
         \cup [k : {"sig"}, name : Words, types : Seq(STRING) \ {<<>>}]
         \cup [k : {"backwards", "other"}]

\* What the manifest says of an interface
Formats   == {"openapi", "c-header", "protobuf", "type-sig"}
Interface == [name : DOMAIN Safe, format : Formats, verify : Seq(Words), preconditions : Seq(STRING),
              postconditions : Seq(STRING), invariants : Seq(STRING)]

\* A FunctionContract.  require_total is always true.
Contract(name, params, ret, pre, post, method) ==
    [name |-> name, params |-> params, return_type |-> ret, preconditions |-> pre,
     postconditions |-> post, invariants |-> <<>>, require_total |-> TRUE,
     http_method |-> method]

Param(name, type) == [name |-> name, type_name |-> type]
NoMethod == "none"
When(condition, item) == IF condition THEN <<item>> ELSE <<>>

--------------------------------------------------------------------------------
\* /users/{id}/posts |-> users_by_id_posts: braces become "by_", doubled and
\* trailing separators vanish; of the path "/" nothing is left
path_to_function_name(segs) ==
    LET words == FlattenSeq([i \in DOMAIN segs |->
                    IF segs[i].param THEN <<"by">> \o segs[i].words ELSE segs[i].words])
    IN  IF words = <<>> THEN <<"">> ELSE words

\* (a '*' that stands with the parameter name is dropped before)
c_type_to_idris(ct) ==
    LET plain == IF ct.base \in DOMAIN CTypes THEN CTypes[ct.base] ELSE ct.base IN
    IF ~ct.star THEN plain
    ELSE IF ct.base \in DOMAIN PointerTypes THEN PointerTypes[ct.base] ELSE "Ptr " \o plain

\* "type_name contains Ptr": AnyPtr and every "Ptr T", so each pointer but a char*,
\* and what is called so
Points(ct) == ct.ptr \/ (ct.star /\ c_type_to_idris(ct) # "String")

NotNull(name) == <<name, "!= NULL">>

--------------------------------------------------------------------------------
\* One line, one contract at most

PathContract(line) ==
    Contract(path_to_function_name(line.segs), <<>>, "Response",
             <<"valid_auth_token">>, <<"status_code >= 200", "status_code < 500">>, "GET")

\* Parameters without a name are skipped; pointers must not be NULL
try_parse_c_function(line) ==
    LET ps     == line.params
        params == FlattenSeq([i \in DOMAIN ps |->
                     When(ps[i].name # "", Param(ps[i].name, c_type_to_idris(ps[i].type)))])
        pre    == FlattenSeq([i \in DOMAIN ps |->
                     When(ps[i].name # "" /\ Points(ps[i].type), NotNull(ps[i].name))])
    IN  Contract(line.name, params, c_type_to_idris(line.ret), pre, <<>>, NoMethod)

try_parse_rpc(line) ==
    Contract(line.name, <<Param("request", line.request)>>, line.response, <<>>, <<>>, NoMethod)

\* Parameters are called arg0, arg1, ...
SigContract(line) ==
    LET n == Len(line.types) IN
    Contract(line.name, [i \in 1 .. n - 1 |-> Param(<<"arg", i - 1>>, line.types[i])],
             line.types[n], <<>>, <<>>, NoMethod)

--------------------------------------------------------------------------------
\* The slices of try_parse_c_function and try_parse_rpc panic on such a line, and
\* nothing catches it.
Panics(iface, text) ==
    /\ iface.format \in {"c-header", "protobuf"}
    /\ \E i \in DOMAIN text : text[i].k = "backwards"

\* The four line loops, of texts on which they do not panic.  A method line speaks
\* about the last path.

OpenapiLine(contracts, line) ==
    CASE line.k = "path" -> Append(contracts, PathContract(line))
      [] line.k = "method" /\ contracts # <<>> ->
            [contracts EXCEPT ![Len(contracts)].http_method = line.method]
      [] OTHER -> contracts

parse_openapi(iface, text) ==
    LET found[n \in 0 .. Len(text)] ==
            IF n = 0 THEN <<>> ELSE OpenapiLine(found[n - 1], text[n])
    IN  IF found[Len(text)] # <<>> THEN found[Len(text)] ELSE
        <<Contract(Safe[iface.name], <<Param("request", "Request")>>, "Response",
                   <<>>, <<>>, NoMethod)>>

\* The other formats: a contract of every line of a kind
parse_c_header(iface, text) ==
    LET found == FlattenSeq([i \in DOMAIN text |->
                    When(text[i].k = "decl", try_parse_c_function(text[i]))])
    IN  IF found # <<>> THEN found ELSE
        <<Contract(Safe[iface.name], <<Param("input", "Ptr"), Param("len", "Int")>>, "Int",
                   <<NotNull("input")>>, <<"result >= 0">>, NoMethod)>>

parse_protobuf(iface, text) ==
    LET found == FlattenSeq([i \in DOMAIN text |-> When(text[i].k = "rpc", try_parse_rpc(text[i]))])
    IN  IF found # <<>> THEN found ELSE
        <<Contract(Safe[iface.name], <<Param("request", "Message")>>, "Message",
                   <<>>, <<>>, NoMethod)>>

parse_type_sig(iface, text) ==
    LET found == FlattenSeq([i \in DOMAIN text |-> When(text[i].k = "sig", SigContract(text[i]))])
    IN  IF found # <<>> THEN found ELSE
        <<Contract(Safe[iface.name], <<>>, "()", <<>>, <<>>, NoMethod)>>

--------------------------------------------------------------------------------
\* The clauses of the manifest are added to those of every contract
WithClauses(c, iface) ==
    [c EXCEPT !.preconditions  = @ \o iface.preconditions,
              !.postconditions = @ \o iface.postconditions,
              !.invariants     = @ \o iface.invariants]

\* (Mutant) The fallback contracts are made without the clauses of the manifest.
FromVerify_Bare(iface) ==
    [i \in DOMAIN iface.verify |-> Contract(iface.verify[i], <<>>, "()", <<>>, <<>>, NoMethod)]

\* "generate one contract per verify entry instead"
FromVerify(iface) ==
    [i \in DOMAIN iface.verify |->
        WithClauses(Contract(iface.verify[i], <<>>, "()", <<>>, <<>>, NoMethod), iface)]

Verified(c, iface) == c.name \in ToSet(iface.verify)

parse_interface(iface, text) ==
    LET parsed == CASE iface.format = "openapi"  -> parse_openapi(iface, text)
                    [] iface.format = "c-header" -> parse_c_header(iface, text)
                    [] iface.format = "protobuf" -> parse_protobuf(iface, text)
                    [] iface.format = "type-sig" -> parse_type_sig(iface, text)
        all  == [i \in DOMAIN parsed |-> WithClauses(parsed[i], iface)]
        kept == FlattenSeq([i \in DOMAIN all |-> When(Verified(all[i], iface), all[i])])
    IN  IF iface.verify = <<>> THEN all
        ELSE IF kept # <<>>    THEN kept
                               ELSE FromVerify(iface)
================================================================================
