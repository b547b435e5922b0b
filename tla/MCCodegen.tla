------------------------------- MODULE MCCodegen -------------------------------
(***************************************************************************)
(* The example project of the repository (examples/user-api), its sources  *)
(* there, gone, or replaced; and one interface of each format with every   *)
(* combination of verify list and clauses.                                 *)
(***************************************************************************)
EXTENDS Codegen

MCSafe == ("user-api" :> <<"user", "api">>) @@ ("core-lib" :> <<"core", "lib">>)
          @@ ("example-project" :> <<"example", "project">>)

\* OpenAPI
Lit(w)    == [param |-> FALSE, words |-> <<w>>]
Path(ss)  == [k |-> "path", segs |-> ss]
Method(m) == [k |-> "method", method |-> m]
Other     == [k |-> "other"]
Id        == [param |-> TRUE, words |-> <<"id">>]

OpenapiTexts == {
    <<Other, Path(<<Lit("users")>>), Method("GET"), Other, Path(<<Lit("users"), Id>>),
      Method("GET"), Method("DELETE"), Path(<<Lit("users"), Id, Lit("posts")>>), Method("GET")>>,
    \* two paths of one name; a path named like the verification entry point
    <<Path(<<Lit("users"), Id>>), Path(<<Lit("users"), Lit("by"), Lit("id")>>)>>,
    <<Path(<<Lit("verify")>>), Method("POST")>>,
    \* the root path; a method without a path
    <<Path(<<>>), Method("GET")>>,
    <<Method("GET"), Other>>}

\* C: base type, and whether a star stands with it
C(base)    == [base |-> base, star |-> FALSE, ptr |-> FALSE]
CP(base)   == [base |-> base, star |-> TRUE, ptr |-> FALSE]
Backwards  == [k |-> "backwards"]
Arg(n, t)  == [name |-> n, type |-> t]
Decl(n, ret, ps) == [k |-> "decl", name |-> n, ret |-> ret, params |-> ps]

Core == <<Decl(<<"process", "item">>, C("int"), <<Arg("input", CP("void")), Arg("len", C("size_t"))>>),
          Decl(<<"reduce">>, C("int"), <<Arg("a", CP("void")), Arg("b", CP("void")), Arg("out", CP("void"))>>),
          Decl(<<"allocate", "buffer">>, CP("void"), <<Arg("size", C("size_t"))>>),
          Decl(<<"free", "buffer">>, C("void"), <<Arg("buf", CP("void"))>>)>>
CTexts == {
    Core,
    <<Other, Decl(<<"reduce">>, C("void"), <<>>)>>,
    <<Decl(<<"set">>, C("bool"), <<Arg("on", C("bool")), Arg("", CP("void")), Arg("n", C("uint32_t")),
                                   Arg("s", CP("char")), Arg("x", C("double"))>>),
      Decl(<<"verify">>, C("int64_t"), <<Arg("p", CP("uint8_t")), Arg("q", CP("int"))>>)>>,
    \* functions of which one is named like the result type, or the declaration, of another
    <<Decl(<<"get">>, C("int"), <<Arg("from", [base |-> "ListPtr", star |-> FALSE, ptr |-> TRUE])>>),
      Decl(<<"getResult">>, C("int"), <<>>), Decl(<<"prim", "", "get">>, C("int"), <<>>)>>,
    \* "* a) first (default" in a comment
    <<Core[1], Backwards, Core[2]>>}

Rpc(n, req, resp) == [k |-> "rpc", name |-> n, request |-> req, response |-> resp]
Sig(n, ts)        == [k |-> "sig", name |-> n, types |-> ts]

\* A function named like the witness of every module
ProtobufTexts == {<<Other, Rpc(<<"GetUser">>, "GetUserRequest", "UserResponse")>>,
                  <<Rpc(<<"AllProofsComplete">>, "Empty", "Empty")>>,
                  <<Backwards, Rpc(<<"GetUser">>, "GetUserRequest", "UserResponse")>>}
\* Types that only one of the tables knows
TypeSigTexts  == {<<Sig(<<"reduce">>, <<"Int", "Bool", "Double">>), Sig(<<"now">>, <<"Nat">>)>>,
                  <<Sig(<<"scale">>, <<"()", "float", "Bits32", "bool", "float">>)>>}

MCTexts == ("openapi" :> OpenapiTexts) @@ ("c-header" :> CTexts)
           @@ ("protobuf" :> ProtobufTexts) @@ ("type-sig" :> TypeSigTexts)

--------------------------------------------------------------------------------
Iface(name, format, verify, pre, post, inv) ==
    [name |-> name, format |-> format, verify |-> verify,
     preconditions |-> pre, postconditions |-> post, invariants |-> inv]

Example ==
    [name |-> "example-project", round_trip |-> TRUE,
     ifaces |-> <<Iface("user-api", "openapi", <<>>, <<"valid_auth_token">>, <<"status < 500">>, <<>>),
                  Iface("core-lib", "c-header", <<<<"process", "item">>, <<"reduce">>>>,
                        <<>>, <<>>, <<"heap_intact">>)>>]

VerifyLists == {<<>>, <<<<"reduce">>, <<"missing">>>>, <<<<"missing">>>>}
Clauses     == {<<<<>>, <<>>, <<>>>>, <<<<"ready">>, <<>>, <<>>>>,
                <<<<"ready">>, <<"sorted">>, <<"heap_intact">>>>}
Single == {[name |-> "example-project", round_trip |-> rt,
            ifaces |-> <<Iface("core-lib", format, verify, c[1], c[2], c[3])>>] :
              rt \in BOOLEAN, format \in DOMAIN MCTexts, verify \in VerifyLists, c \in Clauses}

MCManifests  == {Example} \cup Single
ExampleOnly  == {Example}
================================================================================
