---------------------------- MODULE CodegenProofs ----------------------------
(***************************************************************************)
(* What the runs check of the generated code for the sources and manifests *)
(* of MCCodegen, proved for all: any lines in any order, any verify lists  *)
(* and clauses, any number of interfaces and functions.  In turn: the four *)
(* parsers; the names of a module; the functions of a bridge; the types of *)
(* arguments; the symbols; and the run that makes all three.               *)
(***************************************************************************)
EXTENDS Codegen, SequenceLemmas

\* A name: one word at least
IsName(name) == IsSeq(name) /\ name # <<>>

\* The fields of a contract, of which this one asks for a total function or not
Shaped(c, total) ==
    c = [name |-> c.name, params |-> c.params, return_type |-> c.return_type,
         preconditions |-> c.preconditions, postconditions |-> c.postconditions,
         invariants |-> c.invariants, require_total |-> total, http_method |-> c.http_method]

\* What every contract is: a name and lists, all proofs asked for
IsContract(c) ==
    /\ Shaped(c, TRUE)
    /\ IsName(c.name)
    /\ IsSeq(c.params)
    /\ IsSeq(c.preconditions) /\ IsSeq(c.postconditions) /\ IsSeq(c.invariants)

\* A list of contracts
ContractList(cs) == IsSeq(cs) /\ \A c \in ToSet(cs) : IsContract(c)

\* A block that is there under a condition holds its one element then.
LEMMA WhenFacts ==
    ASSUME NEW b, NEW x
    PROVE  IsSeq(When(b, x)) /\ ToSet(When(b, x)) = {y \in {x} : b}
<1>1. CASE b
  BY <1>1, OneIsSeq DEF When
<1>2. CASE ~b
  BY <1>2, EmptyIsSeq DEF When
<1> QED  BY <1>1, <1>2

\* What Contract makes is one, if it is given a name and lists.
LEMMA ContractIs ==
    ASSUME NEW name, NEW params, NEW ret, NEW pre, NEW post, NEW method,
           IsName(name), IsSeq(params), IsSeq(pre), IsSeq(post),
           NEW c, c = Contract(name, params, ret, pre, post, method)
    PROVE  IsContract(c) /\ ContractList(<<c>>) /\ <<c>> # <<>>
<1>1. IsContract(c)
  BY EmptyIsSeq DEF IsContract, Shaped, Contract
<1>2. <<c>> # <<>> /\ IsSeq(<<c>>) /\ ToSet(<<c>>) = {c}
  BY OneIsSeq, SeqFacts
<1> QED  BY <1>1, <1>2 DEF ContractList

\* Blocks of contracts flattened are contracts.
LEMMA FlattenContracts ==
    ASSUME NEW ss, IsSeq(ss), \A i \in 1 .. Len(ss) : ContractList(ss[i])
    PROVE  ContractList(FlattenSeq(ss))
<1>1. \A i \in 1 .. Len(ss) : IsSeq(ss[i])
  BY DEF ContractList
<1>2. IsSeq(FlattenSeq(ss)) /\ ToSet(FlattenSeq(ss)) = UNION {ToSet(ss[i]) : i \in 1 .. Len(ss)}
  BY <1>1, FlattenFacts
<1> QED  BY <1>2 DEF ContractList

\* A block for each element
LEMMA BlocksAre ==
    ASSUME NEW s, IsSeq(s), NEW ss, ss = [i \in DOMAIN s |-> ss[i]]
    PROVE  IsSeq(ss) /\ Len(ss) = Len(s) /\ DOMAIN ss = 1 .. Len(s)
  BY SeqFacts, FunctionIsSeq

\* A block that may be there holds contracts.
LEMMA WhenContract ==
    ASSUME NEW b, NEW c, b => IsContract(c)
    PROVE  ContractList(When(b, c))
  BY WhenFacts DEF ContractList

\* What the parsers read of a line, by its kind
LEMMA LineFacts ==
    ASSUME NEW line \in Line
    PROVE  /\ line.k = "path" => line.segs \in Seq([param : BOOLEAN, words : Seq(STRING)])
           /\ line.k = "decl" => line.name \in Words /\ line.params \in Seq([name : STRING, type : CType])
           /\ line.k = "rpc"  => line.name \in Words
           /\ line.k = "sig"  => line.name \in Words /\ line.types \in Seq(STRING) \ {<<>>}
<1>1. \/ line \in [k : {"path"}, segs : Seq([param : BOOLEAN, words : Seq(STRING)])]
      \/ line \in [k : {"method"}, method : STRING]
      \/ line \in [k : {"decl"}, name : Words, ret : CType, params : Seq([name : STRING, type : CType])]
      \/ line \in [k : {"rpc"}, name : Words, request : STRING, response : STRING]
      \/ line \in [k : {"sig"}, name : Words, types : Seq(STRING) \ {<<>>}]
      \/ line \in [k : {"backwards", "other"}]
  BY DEF Line
<1> QED  BY <1>1

\* The names a source or a manifest gives are names.
LEMMA WordsAreNames ==
    ASSUME NEW name \in Words
    PROVE  IsName(name)
  BY SeqIsSeq DEF Words, IsName

\* The name of a path has a word at least, that of the root path an empty one.
LEMMA PathName ==
    ASSUME NEW segs \in Seq([param : BOOLEAN, words : Seq(STRING)])
    PROVE  IsName(path_to_function_name(segs))
<1> DEFINE by == <<"by">>
           empty == <<"">>
           ss == [i \in DOMAIN segs |-> IF segs[i].param THEN by \o segs[i].words ELSE segs[i].words]
<1>1. IsSeq(segs) /\ DOMAIN segs = 1 .. Len(segs)
  BY SeqIsSeq, SeqFacts
<1>2. IsSeq(ss) /\ Len(ss) = Len(segs) /\ DOMAIN ss = 1 .. Len(segs)
  BY <1>1, BlocksAre
<1>3. IsSeq(by) /\ IsSeq(empty) /\ empty # <<>>
  BY OneIsSeq, SeqFacts
<1>4. ASSUME NEW i \in 1 .. Len(ss) PROVE IsSeq(ss[i])
  <2>1. segs[i] \in [param : BOOLEAN, words : Seq(STRING)]
    BY <1>1, <1>2, ElementInSeq
  <2>2. IsSeq(segs[i].words)
    BY <2>1, SeqIsSeq
  <2>3. ss[i] = IF segs[i].param THEN by \o segs[i].words ELSE segs[i].words
    BY <1>2
  <2> HIDE DEF ss, by
  <2>4. IsSeq(by \o segs[i].words)
    BY <1>3, <2>2, ConcatFacts
  <2> QED  BY <2>2, <2>3, <2>4
<1>5. IsSeq(FlattenSeq(ss))
  <2> HIDE DEF ss
  <2> QED  BY <1>2, <1>4, FlattenFacts
<1>6. path_to_function_name(segs) = IF FlattenSeq(ss) = <<>> THEN empty ELSE FlattenSeq(ss)
  BY DEF path_to_function_name
<1> HIDE DEF ss, empty
<1> QED  BY <1>3, <1>5, <1>6 DEF IsName

\* A declaration of a C header, an rpc of a protobuf service and a type
\* signature each make a contract.
LEMMA CFunction ==
    ASSUME NEW line \in Line, line.k = "decl"
    PROVE  IsContract(try_parse_c_function(line))
<1> DEFINE ps == line.params
           params == [i \in DOMAIN ps |->
                        When(ps[i].name # "", Param(ps[i].name, c_type_to_idris(ps[i].type)))]
           pre    == [i \in DOMAIN ps |->
                        When(ps[i].name # "" /\ Points(ps[i].type), NotNull(ps[i].name))]
<1>1. IsSeq(ps) /\ DOMAIN ps = 1 .. Len(ps)
  BY LineFacts, SeqIsSeq, SeqFacts
<1>2. IsSeq(params) /\ Len(params) = Len(ps) /\ IsSeq(pre) /\ Len(pre) = Len(ps)
  <2> HIDE DEF ps
  <2> QED  BY <1>1, BlocksAre
<1>3. \A i \in 1 .. Len(ps) : IsSeq(params[i]) /\ IsSeq(pre[i])
  BY <1>1, WhenFacts
<1>4. IsSeq(FlattenSeq(params)) /\ IsSeq(FlattenSeq(pre))
  <2> HIDE DEF params, pre
  <2> QED  BY <1>2, <1>3, FlattenFacts
<1>5. IsName(line.name)
  BY LineFacts, WordsAreNames
<1>6. try_parse_c_function(line) =
        Contract(line.name, FlattenSeq(params), c_type_to_idris(line.ret), FlattenSeq(pre), <<>>, NoMethod)
  BY DEF try_parse_c_function
<1> HIDE DEF params, pre
<1> QED  BY <1>4, <1>5, <1>6, ContractIs, EmptyIsSeq

LEMMA RpcFacts ==
    ASSUME NEW line \in Line, line.k = "rpc"
    PROVE  IsContract(try_parse_rpc(line))
<1> DEFINE params == <<Param("request", line.request)>>
<1>1. IsName(line.name) /\ IsSeq(params)
  BY LineFacts, WordsAreNames, OneIsSeq
<1>2. try_parse_rpc(line) = Contract(line.name, params, line.response, <<>>, <<>>, NoMethod)
  BY DEF try_parse_rpc
<1> HIDE DEF params
<1> QED  BY <1>1, <1>2, ContractIs, EmptyIsSeq

LEMMA SigFacts ==
    ASSUME NEW line \in Line, line.k = "sig"
    PROVE  IsContract(SigContract(line))
<1> DEFINE n == Len(line.types)
           params == [i \in 1 .. n - 1 |-> Param(<<"arg", i - 1>>, line.types[i])]
<1>1. IsName(line.name) /\ n \in Nat \ {0}
  <2>1. line.types \in Seq(STRING) /\ line.types # <<>>
    BY LineFacts
  <2>2. n \in Nat \ {0}
    BY <2>1
  <2> QED  BY <2>2, LineFacts, WordsAreNames
<1>2. IsSeq(params)
  <2>1. n - 1 \in Nat
    BY <1>1
  <2> HIDE DEF n
  <2> QED  BY <2>1, FunctionIsSeq
<1>3. SigContract(line) = Contract(line.name, params, line.types[n], <<>>, <<>>, NoMethod)
  BY DEF SigContract
<1> HIDE DEF params, n
<1> QED  BY <1>1, <1>2, <1>3, ContractIs, EmptyIsSeq

\* The contracts of the lines, or if there are none the one that stands for the interface
LEMMA FromLines ==
    ASSUME NEW text \in Seq(Line), NEW ss, ss = [i \in DOMAIN text |-> ss[i]],
           \A i \in 1 .. Len(text) : ContractList(ss[i]),
           NEW synthetic, ContractList(synthetic), synthetic # <<>>,
           NEW result, result = IF FlattenSeq(ss) # <<>> THEN FlattenSeq(ss) ELSE synthetic
    PROVE  ContractList(result) /\ result # <<>>
<1>1. IsSeq(ss) /\ Len(ss) = Len(text)
  BY SeqIsSeq, BlocksAre
<1>2. ContractList(FlattenSeq(ss))
  BY <1>1, FlattenContracts
<1> QED  BY <1>2

\* The sanitised name of an interface is a name.
LEMMA InterfaceNamed ==
    ASSUME NEW iface \in Interface
    PROVE  IsName(Safe[iface.name])
  BY SafeAssumption, WordsAreNames DEF Interface

\* Each parser finds contracts, and one at least: its own fallback if no line has any.
LEMMA CHeader ==
    ASSUME NEW iface \in Interface, NEW text \in Seq(Line)
    PROVE  ContractList(parse_c_header(iface, text)) /\ parse_c_header(iface, text) # <<>>
<1> DEFINE ss == [i \in DOMAIN text |-> When(text[i].k = "decl", try_parse_c_function(text[i]))]
           ps == <<Param("input", "Ptr"), Param("len", "Int")>>
           pre == <<NotNull("input")>>
           post == <<"result >= 0">>
           c == Contract(Safe[iface.name], ps, "Int", pre, post, NoMethod)
<1>1. \A i \in 1 .. Len(text) : ContractList(ss[i])
  <2>1. ASSUME NEW i \in 1 .. Len(text)
        PROVE  ContractList(When(text[i].k = "decl", try_parse_c_function(text[i])))
    BY ElementInSeq, CFunction, WhenContract
  <2> QED  BY <2>1, SeqIsSeq, SeqFacts
<1>2. IsSeq(ps) /\ IsSeq(pre) /\ IsSeq(post)
  <2>1. IsSeq(ps)
    BY TwoIsSeq
  <2> QED  BY <2>1, OneIsSeq
<1>3. ContractList(<<c>>) /\ <<c>> # <<>>
  <2> HIDE DEF ps, pre, post
  <2> QED  BY <1>2, InterfaceNamed, ContractIs
<1>4. parse_c_header(iface, text) = IF FlattenSeq(ss) # <<>> THEN FlattenSeq(ss) ELSE <<c>>
  BY DEF parse_c_header
<1>5. ss = [i \in DOMAIN text |-> ss[i]]
  OBVIOUS
<1> HIDE DEF ss, c
<1> QED  BY <1>1, <1>3, <1>4, <1>5, FromLines

LEMMA Protobuf ==
    ASSUME NEW iface \in Interface, NEW text \in Seq(Line)
    PROVE  ContractList(parse_protobuf(iface, text)) /\ parse_protobuf(iface, text) # <<>>
<1> DEFINE ss == [i \in DOMAIN text |-> When(text[i].k = "rpc", try_parse_rpc(text[i]))]
           ps == <<Param("request", "Message")>>
           c == Contract(Safe[iface.name], ps, "Message", <<>>, <<>>, NoMethod)
<1>1. \A i \in 1 .. Len(text) : ContractList(ss[i])
  <2>1. ASSUME NEW i \in 1 .. Len(text)
        PROVE  ContractList(When(text[i].k = "rpc", try_parse_rpc(text[i])))
    BY ElementInSeq, RpcFacts, WhenContract
  <2> QED  BY <2>1, SeqIsSeq, SeqFacts
<1>2. IsSeq(ps)
  BY OneIsSeq
<1>3. ContractList(<<c>>) /\ <<c>> # <<>>
  <2> HIDE DEF ps
  <2> QED  BY <1>2, InterfaceNamed, ContractIs, EmptyIsSeq
<1>4. parse_protobuf(iface, text) = IF FlattenSeq(ss) # <<>> THEN FlattenSeq(ss) ELSE <<c>>
  BY DEF parse_protobuf
<1>5. ss = [i \in DOMAIN text |-> ss[i]]
  OBVIOUS
<1> HIDE DEF ss, c
<1> QED  BY <1>1, <1>3, <1>4, <1>5, FromLines

LEMMA TypeSig ==
    ASSUME NEW iface \in Interface, NEW text \in Seq(Line)
    PROVE  ContractList(parse_type_sig(iface, text)) /\ parse_type_sig(iface, text) # <<>>
<1> DEFINE ss == [i \in DOMAIN text |-> When(text[i].k = "sig", SigContract(text[i]))]
           c == Contract(Safe[iface.name], <<>>, "()", <<>>, <<>>, NoMethod)
<1>1. \A i \in 1 .. Len(text) : ContractList(ss[i])
  <2>1. ASSUME NEW i \in 1 .. Len(text)
        PROVE  ContractList(When(text[i].k = "sig", SigContract(text[i])))
    BY ElementInSeq, SigFacts, WhenContract
  <2> QED  BY <2>1, SeqIsSeq, SeqFacts
<1>2. ContractList(<<c>>) /\ <<c>> # <<>>
  BY InterfaceNamed, ContractIs, EmptyIsSeq
<1>3. parse_type_sig(iface, text) = IF FlattenSeq(ss) # <<>> THEN FlattenSeq(ss) ELSE <<c>>
  BY DEF parse_type_sig
<1>4. ss = [i \in DOMAIN text |-> ss[i]]
  OBVIOUS
<1> HIDE DEF ss, c
<1> QED  BY <1>1, <1>2, <1>3, <1>4, FromLines

\* A contract of another method is what Contract makes of that method.
LEMMA OtherMethod ==
    ASSUME NEW name, NEW params, NEW ret, NEW pre, NEW post, NEW method, NEW other
    PROVE  [Contract(name, params, ret, pre, post, method) EXCEPT !.http_method = other]
              = Contract(name, params, ret, pre, post, other)
<1>1. ASSUME NEW inv, NEW total
      PROVE  [[name |-> name, params |-> params, return_type |-> ret, preconditions |-> pre,
               postconditions |-> post, invariants |-> inv, require_total |-> total,
               http_method |-> method] EXCEPT !.http_method = other]
             = [name |-> name, params |-> params, return_type |-> ret, preconditions |-> pre,
                postconditions |-> post, invariants |-> inv, require_total |-> total,
                http_method |-> other]
  OBVIOUS
<1> QED  BY <1>1, Zenon DEF Contract

\* The line loop of parse_openapi, where each line leaves contracts of a set
LEMMA OpenapiLoopExists ==
    ASSUME NEW text, Len(text) \in Nat, NEW Found,
           \A n \in 1 .. Len(text) : \A s \in Seq(Found) : OpenapiLine(s, text[n]) \in Seq(Found)
    PROVE  \E g : g = [n \in 0 .. Len(text) |-> IF n = 0 THEN <<>> ELSE OpenapiLine(g[n - 1], text[n])]
<1> DEFINE N == Len(text)
           T == Seq(Found)
           step == [n \in 1 .. N |-> [s \in T |-> OpenapiLine(s, text[n])]]
           nothing == <<>>
<1>1. step \in [1 .. N -> [T -> T]] /\ nothing \in T /\ N \in Nat
  OBVIOUS
<1>2. PICK f : Steps(f, N, T, nothing, step)
  <2> HIDE DEF step, T, nothing, N
  <2> QED  BY <1>1, Recursion
<1>3. ASSUME NEW n \in 1 .. N PROVE f[n] = OpenapiLine(f[n - 1], text[n])
  <2>1. n - 1 \in 0 .. N
    BY <1>1
  <2> HIDE DEF T, N
  <2>2. f[n - 1] \in T /\ f[n] = step[n][f[n - 1]]
    BY <1>2, <2>1 DEF Steps
  <2> QED  BY <2>2
<1>4. f = [n \in 0 .. N |-> IF n = 0 THEN <<>> ELSE OpenapiLine(f[n - 1], text[n])]
  <2> HIDE DEF T
  <2> QED  BY <1>2, <1>3 DEF Steps
<1> QED  BY <1>4

\* What the loop gives at the end is made of contracts of that set.
LEMMA OpenapiLoop ==
    ASSUME NEW text, Len(text) \in Nat, NEW Found,
           \A n \in 1 .. Len(text) : \A s \in Seq(Found) : OpenapiLine(s, text[n]) \in Seq(Found),
           NEW found,
           found = [n \in 0 .. Len(text) |-> IF n = 0 THEN <<>> ELSE OpenapiLine(found[n - 1], text[n])]
    PROVE  found[Len(text)] \in Seq(Found)
<1> DEFINE N == Len(text)
           S == {n \in 0 .. N : found[n] \in Seq(Found)}
<1>1. found[0] = <<>> /\ \A n \in 1 .. N : found[n] = OpenapiLine(found[n - 1], text[n])
  OBVIOUS
<1>2. 0 \in S
  BY <1>1
<1>3. ASSUME NEW n \in 1 .. N, n - 1 \in S PROVE n \in S
  <2>1. found[n] \in Seq(Found)
    BY <1>1, <1>3
  <2> QED  BY <2>1
<1>4. \A n \in 0 .. N : n \in S
  <2> HIDE DEF S, N
  <2>1. N \in Nat
    BY DEF N
  <2> QED  BY <2>1, <1>2, <1>3, NatInduct
<1>5. N \in S
  <2> HIDE DEF S
  <2> QED  BY <1>4
<1> QED  BY <1>5

\* A method line changes the last contract, so the contracts are those of the
\* paths, each with "GET" or the method of some line.
LEMMA Openapi ==
    ASSUME NEW iface \in Interface, NEW text \in Seq(Line)
    PROVE  ContractList(parse_openapi(iface, text)) /\ parse_openapi(iface, text) # <<>>
<1> DEFINE pre == <<"valid_auth_token">>
           post == <<"status_code >= 200", "status_code < 500">>
           ps == <<Param("request", "Request")>>
<1>1. IsSeq(pre) /\ IsSeq(post) /\ IsSeq(ps)
  BY OneIsSeq, TwoIsSeq
<1> HIDE DEF pre, post, ps
<1> DEFINE N == Len(text)
           Segs == {text[n].segs : n \in {i \in 1 .. N : text[i].k = "path"}}
           Methods == {"GET"} \cup {text[n].method : n \in 1 .. N}
           OfPath(segs, m) ==
              Contract(path_to_function_name(segs), <<>>, "Response", pre, post, m)
           Found == {OfPath(segs, m) : segs \in Segs, m \in Methods}
<1>2. N \in Nat /\ \A n \in 1 .. N : text[n] \in Line
  OBVIOUS
<1>3. ASSUME NEW n \in 1 .. N, text[n].k = "path" PROVE text[n].segs \in Segs
  BY <1>3
<1>4. ASSUME NEW segs \in Segs PROVE IsName(path_to_function_name(segs))
  <2>1. PICK n \in 1 .. N : text[n].k = "path" /\ segs = text[n].segs
    OBVIOUS
  <2> HIDE DEF Segs, N
  <2> QED  BY <1>2, <2>1, LineFacts, PathName
<1>5. "GET" \in Methods /\ \A n \in 1 .. N : text[n].method \in Methods
  OBVIOUS
<1> HIDE DEF Segs, Methods, N
<1>6. ASSUME NEW segs \in Segs, NEW m \in Methods
      PROVE  OfPath(segs, m) \in Found /\ IsContract(OfPath(segs, m))
  <2>1. IsContract(OfPath(segs, m))
    <3> HIDE DEF Found
    <3> QED  BY <1>1, <1>4, ContractIs, EmptyIsSeq
  <2>2. OfPath(segs, m) \in Found
    <3> HIDE DEF OfPath
    <3> QED  OBVIOUS
  <2> QED  BY <2>1, <2>2
<1>7. ASSUME NEW n \in 1 .. N, text[n].k = "path" PROVE PathContract(text[n]) \in Found
  <2>1. PathContract(text[n]) = OfPath(text[n].segs, "GET")
    BY DEF PathContract, pre, post
  <2> HIDE DEF OfPath, Found
  <2> QED  BY <1>3, <1>5, <1>6, <1>7, <2>1
<1>8. ASSUME NEW segs \in Segs, NEW m, NEW other
      PROVE  [OfPath(segs, m) EXCEPT !.http_method = other] = OfPath(segs, other)
  BY OtherMethod
<1>9. \A c \in Found : \E segs \in Segs, m \in Methods : c = OfPath(segs, m)
  <2> HIDE DEF OfPath
  <2> QED  OBVIOUS
<1> HIDE DEF Found, OfPath
<1>10. ASSUME NEW n \in 1 .. N, NEW s \in Seq(Found) PROVE OpenapiLine(s, text[n]) \in Seq(Found)
  <2>1. CASE text[n].k = "path"
    BY <1>7, <2>1 DEF OpenapiLine
  <2>2. CASE text[n].k = "method" /\ s # <<>>
    <3> DEFINE c == s[Len(s)]
               d == [c EXCEPT !.http_method = text[n].method]
    <3>1. Len(s) \in 1 .. Len(s) /\ c \in Found
      BY <2>2
    <3>2. d \in Found
      <4>1. PICK segs \in Segs, m \in Methods : c = OfPath(segs, m)
        BY <1>9, <3>1
      <4> HIDE DEF c
      <4>2. d = OfPath(segs, text[n].method)
        BY <1>8, <4>1
      <4> QED  BY <1>5, <1>6, <4>2
    <3>3. OpenapiLine(s, text[n]) = [s EXCEPT ![Len(s)] = d]
      BY <2>2 DEF OpenapiLine
    <3> HIDE DEF d
    <3> QED  BY <3>1, <3>2, <3>3
  <2>3. CASE ~(text[n].k = "path") /\ ~(text[n].k = "method" /\ s # <<>>)
    BY <2>3 DEF OpenapiLine
  <2> QED  BY <2>1, <2>2, <2>3
<1> DEFINE Loop(g) == g = [n \in 0 .. Len(text) |->
                             IF n = 0 THEN <<>> ELSE OpenapiLine(g[n - 1], text[n])]
           found == CHOOSE g : Loop(g)
           c == Contract(Safe[iface.name], ps, "Response", <<>>, <<>>, NoMethod)
<1>11. parse_openapi(iface, text) = IF found[N] # <<>> THEN found[N] ELSE <<c>>
  BY DEF parse_openapi, ps, N
<1>12. found[N] \in Seq(Found)
  <2>1. Len(text) \in Nat /\ \A n \in 1 .. Len(text) : \A s \in Seq(Found) :
           OpenapiLine(s, text[n]) \in Seq(Found)
    BY <1>2, <1>10 DEF N
  <2>2. \E g : Loop(g)
    BY <2>1, OpenapiLoopExists
  <2>3. Loop(found)
    <3> HIDE DEF Loop
    <3> QED  BY <2>2
  <2> HIDE DEF found
  <2>4. found[Len(text)] \in Seq(Found)
    BY <2>1, <2>3, OpenapiLoop
  <2> QED  BY <2>4 DEF N
<1> HIDE DEF found
<1>13. ContractList(found[N])
  <2>1. \A x \in Found : IsContract(x)
    BY <1>6, <1>9
  <2> QED  BY <1>12, <2>1, SeqIsSeq DEF ContractList
<1>14. ContractList(<<c>>) /\ <<c>> # <<>>
  BY <1>1, InterfaceNamed, ContractIs, EmptyIsSeq
<1> HIDE DEF c
<1> QED  BY <1>11, <1>13, <1>14

--------------------------------------------------------------------------------
\* What ContractsHonourManifest says of the contracts of one interface
Honoured(c, iface) ==
    /\ iface.verify # <<>> => c.name \in ToSet(iface.verify)
    /\ ToSet(iface.preconditions)  \subseteq ToSet(c.preconditions)
    /\ ToSet(iface.postconditions) \subseteq ToSet(c.postconditions)
    /\ ToSet(iface.invariants)     \subseteq ToSet(c.invariants)
\* What parse_interface owes an interface
Honours(cs, iface) == ContractList(cs) /\ cs # <<>> /\ \A c \in ToSet(cs) : Honoured(c, iface)

\* The fields of an interface that the parser reads
LEMMA InterfaceFacts ==
    ASSUME NEW iface \in Interface
    PROVE  /\ iface.format \in Formats
           /\ IsSeq(iface.verify) /\ \A i \in 1 .. Len(iface.verify) : IsName(iface.verify[i])
           /\ IsSeq(iface.preconditions) /\ IsSeq(iface.postconditions) /\ IsSeq(iface.invariants)
<1>1. /\ iface.format \in Formats /\ iface.verify \in Seq(Words)
      /\ iface.preconditions \in Seq(STRING)
      /\ iface.postconditions \in Seq(STRING)
      /\ iface.invariants \in Seq(STRING)
  BY DEF Interface
<1>2. \A i \in 1 .. Len(iface.verify) : iface.verify[i] \in Words
  BY <1>1, ElementInSeq
<1> QED  BY <1>1, <1>2, SeqIsSeq, WordsAreNames

\* The fields of a contract
Fields == {"name", "params", "return_type", "preconditions", "postconditions", "invariants",
           "require_total", "http_method"}

\* A contract with other clauses
WithOther(c, x, y, z) == [c EXCEPT !.preconditions = x, !.postconditions = y, !.invariants = z]

\* A contract with other clauses is what it was in all other fields.
LEMMA OtherClauses ==
    ASSUME NEW c, NEW total, Shaped(c, total), NEW x, NEW y, NEW z, NEW d,
           d = WithOther(c, x, y, z)
    PROVE  /\ d.name = c.name /\ d.params = c.params
           /\ d.preconditions = x /\ d.postconditions = y /\ d.invariants = z
           /\ Shaped(d, total)
<1>1. DOMAIN c = Fields /\ c.require_total = total
  BY DEF Fields, Shaped
<1>2. d = [f \in Fields |-> CASE f = "preconditions" -> x [] f = "postconditions" -> y
                              [] f = "invariants" -> z [] OTHER -> c[f]]
  BY <1>1 DEF Fields, WithOther
<1>3. /\ d.name = c.name /\ d.params = c.params /\ d.return_type = c.return_type
      /\ d.preconditions = x /\ d.postconditions = y /\ d.invariants = z
      /\ d.require_total = total /\ d.http_method = c.http_method
  BY <1>1, <1>2 DEF Fields
<1>4. ASSUME NEW g, d = [f \in Fields |-> g[f]], d.require_total = total PROVE Shaped(d, total)
  BY <1>4 DEF Fields, Shaped
<1>5. d = [f \in Fields |-> d[f]]
  BY <1>2
<1> QED  BY <1>3, <1>4, <1>5

\* The clauses of the manifest come behind those of the contract; nothing else changes.
LEMMA WithClausesFacts ==
    ASSUME NEW iface \in Interface, NEW c, IsContract(c), NEW d, d = WithClauses(c, iface)
    PROVE  /\ IsContract(d) /\ d.name = c.name
           /\ ToSet(iface.preconditions)  \subseteq ToSet(d.preconditions)
           /\ ToSet(iface.postconditions) \subseteq ToSet(d.postconditions)
           /\ ToSet(iface.invariants)     \subseteq ToSet(d.invariants)
<1> DEFINE pre  == c.preconditions \o iface.preconditions
           post == c.postconditions \o iface.postconditions
           inv  == c.invariants \o iface.invariants
<1>1. d = WithOther(c, pre, post, inv)
  BY Zenon DEF WithClauses, WithOther
<1> HIDE DEF pre, post, inv
<1>2. /\ d.name = c.name /\ d.params = c.params
      /\ d.preconditions = pre /\ d.postconditions = post /\ d.invariants = inv
      /\ Shaped(d, TRUE)
  <2>1. Shaped(c, TRUE)
    BY DEF IsContract
  <2>2. ASSUME NEW total, Shaped(c, total)
        PROVE  /\ d.name = c.name /\ d.params = c.params
               /\ d.preconditions = pre /\ d.postconditions = post /\ d.invariants = inv
               /\ Shaped(d, total)
    BY <1>1, <2>2, OtherClauses
  <2> QED  BY <2>1, <2>2, Zenon
<1>3. /\ IsSeq(pre) /\ ToSet(iface.preconditions) \subseteq ToSet(pre)
      /\ IsSeq(post) /\ ToSet(iface.postconditions) \subseteq ToSet(post)
      /\ IsSeq(inv) /\ ToSet(iface.invariants) \subseteq ToSet(inv)
  <2>1. ASSUME NEW s, NEW t, IsSeq(s), IsSeq(t) PROVE IsSeq(s \o t) /\ ToSet(t) \subseteq ToSet(s \o t)
    BY <2>1, ConcatFacts
  <2> QED  BY <2>1, InterfaceFacts DEF IsContract, pre, post, inv
<1>4. IsName(c.name) /\ IsSeq(c.params)
  BY DEF IsContract
<1>5. IsContract(d)
  BY <1>2, <1>3, <1>4 DEF IsContract
<1> QED  BY <1>2, <1>3, <1>5

(* Whatever lines a source holds, and in whatever order, as long as none makes *)
(* the parser panic, parse_interface gives an interface contracts, one at      *)
(* least, that honour its verify list and clauses: a loop over lines, shown by *)
(* induction over them, three filters and two fallbacks.                       *)
(* (codegen/parser.rs:49-98; of a text that makes it panic parse_interface,    *)
(* which is a value here, says nothing.)                                       *)
THEOREM ParsedHonours ==
    ASSUME NEW iface \in Interface, NEW text \in Seq(Line), ~Panics(iface, text)
    PROVE  Honours(parse_interface(iface, text), iface)
<1> DEFINE parsed == CASE iface.format = "openapi"  -> parse_openapi(iface, text)
                       [] iface.format = "c-header" -> parse_c_header(iface, text)
                       [] iface.format = "protobuf" -> parse_protobuf(iface, text)
                       [] iface.format = "type-sig" -> parse_type_sig(iface, text)
           all == [i \in DOMAIN parsed |-> WithClauses(parsed[i], iface)]
           blocks == [i \in DOMAIN all |-> When(Verified(all[i], iface), all[i])]
           kept == FlattenSeq(blocks)
           verify == iface.verify
<1>1. ContractList(parsed) /\ parsed # <<>>
  BY InterfaceFacts, Openapi, CHeader, Protobuf, TypeSig DEF Formats
<1>2. parse_interface(iface, text) =
        IF verify = <<>> THEN all ELSE IF kept # <<>> THEN kept ELSE FromVerify(iface)
  BY DEF parse_interface
<1> HIDE DEF parsed
<1>3. IsSeq(parsed) /\ DOMAIN parsed = 1 .. Len(parsed) /\ Len(parsed) # 0
  BY <1>1, SeqFacts DEF ContractList
<1>4. IsSeq(all) /\ Len(all) = Len(parsed) /\ all # <<>>
  <2>1. IsSeq(all) /\ Len(all) = Len(parsed)
    BY <1>3, BlocksAre
  <2> HIDE DEF all
  <2> QED  BY <1>3, <2>1, SeqFacts
<1>5. ASSUME NEW i \in 1 .. Len(all)
      PROVE  IsContract(all[i]) /\ (verify = <<>> \/ Verified(all[i], iface) => Honoured(all[i], iface))
  <2>1. IsContract(parsed[i])
    BY <1>1, <1>3, <1>4, SeqFacts DEF ContractList
  <2>2. all[i] = WithClauses(parsed[i], iface)
    BY <1>3, <1>4
  <2> HIDE DEF all
  <2> QED  BY <2>1, <2>2, WithClausesFacts DEF Honoured, Verified
<1> HIDE DEF all
<1>6. verify = <<>> => Honours(all, iface)
  BY <1>4, <1>5, SeqFacts DEF Honours, ContractList
<1>7. verify # <<>> /\ kept # <<>> => Honours(kept, iface)
  <2>1. IsSeq(blocks) /\ Len(blocks) = Len(all) /\ DOMAIN all = 1 .. Len(all)
    BY <1>4, BlocksAre, SeqFacts
  <2>2. \A i \in 1 .. Len(blocks) :
           IsSeq(blocks[i]) /\ ToSet(blocks[i]) = {y \in {all[i]} : Verified(all[i], iface)}
    BY <2>1, WhenFacts
  <2> HIDE DEF blocks
  <2>3. IsSeq(kept) /\ ToSet(kept) = UNION {ToSet(blocks[i]) : i \in 1 .. Len(blocks)}
    BY <2>1, <2>2, FlattenFacts
  <2>4. ASSUME NEW c \in ToSet(kept) PROVE \E i \in 1 .. Len(all) : c = all[i] /\ Verified(all[i], iface)
    <3> HIDE DEF kept
    <3>1. PICK i \in 1 .. Len(blocks) : c \in ToSet(blocks[i])
      BY <2>3
    <3> QED  BY <2>1, <2>2, <3>1
  <2> HIDE DEF kept
  <2> QED  BY <1>5, <2>3, <2>4 DEF Honours, ContractList
<1>8. verify # <<>> => Honours(FromVerify(iface), iface)
  <2> DEFINE bare(i) == Contract(verify[i], <<>>, "()", <<>>, <<>>, NoMethod)
             made == [i \in DOMAIN verify |-> WithClauses(bare(i), iface)]
  <2>1. IsSeq(verify) /\ DOMAIN verify = 1 .. Len(verify) /\ (verify # <<>> => Len(verify) # 0)
    BY InterfaceFacts, SeqFacts
  <2>2. IsSeq(made) /\ Len(made) = Len(verify)
    BY <2>1, BlocksAre
  <2>3. ASSUME NEW i \in 1 .. Len(verify) PROVE IsContract(made[i]) /\ Honoured(made[i], iface)
    <3>1. IsContract(bare(i)) /\ bare(i).name = verify[i]
      <4>1. IsContract(bare(i))
        BY InterfaceFacts, ContractIs, EmptyIsSeq
      <4> QED  BY <4>1 DEF Contract
    <3>2. made[i] = WithClauses(bare(i), iface)
      BY <2>1
    <3>3. verify[i] \in ToSet(verify)
      BY <2>1, SeqFacts
    <3> HIDE DEF made, bare
    <3> QED  BY <3>1, <3>2, <3>3, WithClausesFacts DEF Honoured
  <2>4. FromVerify(iface) = made
    BY DEF FromVerify
  <2> HIDE DEF made
  <2> QED  BY <2>1, <2>2, <2>3, <2>4, SeqFacts DEF Honours, ContractList
<1> HIDE DEF kept, verify
<1> QED  BY <1>2, <1>6, <1>7, <1>8
--------------------------------------------------------------------------------
\* The names that items define
Defs(items) == UNION {item.defines : item \in ToSet(items)}

\* Every name used is among those known or defined before, and none is defined by
\* two items but those of X
WellScoped(items, known, X) ==
    /\ IsSeq(items)
    /\ \A j, k \in 1 .. Len(items) : j # k => items[j].defines \cap items[k].defines \subseteq X
    /\ \A j \in 1 .. Len(items) :
          items[j].uses \subseteq known \cup UNION {items[k].defines : k \in 1 .. j - 1}

\* Items may know more names than they use.
LEMMA Weaken ==
    ASSUME NEW s, NEW K, NEW X, WellScoped(s, K, X), NEW L, K \subseteq L
    PROVE  WellScoped(s, L, X)
<1>1. IsSeq(s) /\ \A j, k \in 1 .. Len(s) : j # k => s[j].defines \cap s[k].defines \subseteq X
  BY DEF WellScoped
<1>2. ASSUME NEW j \in 1 .. Len(s), NEW D, D = UNION {s[k].defines : k \in 1 .. j - 1}
      PROVE  s[j].uses \subseteq L \cup D
  BY <1>2 DEF WellScoped
<1> QED  BY <1>1, <1>2 DEF WellScoped

\* One item, and none
LEMMA OneScoped ==
    ASSUME NEW item, NEW K, NEW X, item.uses \subseteq K
    PROVE  WellScoped(<<item>>, K, X) /\ Defs(<<item>>) = item.defines
<1>1. IsSeq(<<item>>) /\ Len(<<item>>) = 1 /\ ToSet(<<item>>) = {item} /\ <<item>>[1] = item
  BY OneIsSeq
<1> QED  BY <1>1 DEF WellScoped, Defs

LEMMA NothingScoped ==
    ASSUME NEW K, NEW X
    PROVE  WellScoped(<<>>, K, X) /\ Defs(<<>>) = {}
<1>1. IsSeq(<<>>) /\ Len(<<>>) = 0 /\ ToSet(<<>>) = {}
  BY EmptyIsSeq
<1> QED  BY <1>1 DEF WellScoped, Defs

\* Items that use what is known or what the first block defines may follow it, if
\* they define other names.
LEMMA ConcatScoped ==
    ASSUME NEW s, NEW t, NEW K, NEW L, NEW X, WellScoped(s, K, X), WellScoped(t, L, X),
           L \subseteq K \cup Defs(s), Defs(s) \cap Defs(t) \subseteq X
    PROVE  WellScoped(s \o t, K, X) /\ Defs(s \o t) = Defs(s) \cup Defs(t)
<1> DEFINE u == s \o t
<1>1. IsSeq(s) /\ IsSeq(t)
  BY DEF WellScoped
<1>2. /\ IsSeq(u) /\ Len(u) = Len(s) + Len(t) /\ Len(s) \in Nat /\ Len(t) \in Nat
      /\ ToSet(u) = ToSet(s) \cup ToSet(t)
  BY <1>1, ConcatFacts, SeqFacts
<1>3. /\ \A i \in 1 .. Len(s) : u[i] = s[i]
      /\ \A i \in Len(s) + 1 .. Len(u) : i - Len(s) \in 1 .. Len(t) /\ u[i] = t[i - Len(s)]
  BY <1>1, ConcatFacts
<1> HIDE DEF u
<1>4. /\ \A i \in 1 .. Len(s) : s[i].defines \subseteq Defs(s)
      /\ \A i \in 1 .. Len(t) : t[i].defines \subseteq Defs(t)
  BY <1>1, SeqFacts DEF Defs
<1>5. ASSUME NEW j \in 1 .. Len(u), NEW k \in 1 .. Len(u), j # k
      PROVE  u[j].defines \cap u[k].defines \subseteq X
  <2>1. CASE j <= Len(s) /\ k <= Len(s)
    BY <1>2, <1>3, <1>5, <2>1 DEF WellScoped
  <2>2. CASE j > Len(s) /\ k > Len(s)
    <3>1. /\ j - Len(s) \in 1 .. Len(t) /\ u[j] = t[j - Len(s)]
          /\ k - Len(s) \in 1 .. Len(t) /\ u[k] = t[k - Len(s)]
      BY <1>2, <1>3, <2>2
    <3>2. j - Len(s) # k - Len(s)
      BY <1>2, <1>5
    <3> QED  BY <3>1, <3>2 DEF WellScoped
  <2>3. CASE j <= Len(s) /\ k > Len(s)
    <3>1. u[j].defines \subseteq Defs(s) /\ u[k].defines \subseteq Defs(t)
      BY <1>2, <1>3, <1>4, <2>3
    <3> QED  BY <3>1
  <2>4. CASE j > Len(s) /\ k <= Len(s)
    <3>1. u[k].defines \subseteq Defs(s) /\ u[j].defines \subseteq Defs(t)
      BY <1>2, <1>3, <1>4, <2>4
    <3> QED  BY <3>1
  <2> QED  BY <1>2, <2>1, <2>2, <2>3, <2>4
<1>6. ASSUME NEW j \in 1 .. Len(u), NEW n \in u[j].uses
      PROVE  n \in K \cup UNION {u[k].defines : k \in 1 .. j - 1}
  <2>1. CASE j <= Len(s)
    <3>1. n \in K \cup UNION {s[k].defines : k \in 1 .. j - 1}
      BY <1>2, <1>3, <2>1 DEF WellScoped
    <3>2. ASSUME n \notin K PROVE \E k \in 1 .. j - 1 : n \in u[k].defines
      <4>1. PICK k \in 1 .. j - 1 : n \in s[k].defines
        BY <3>1, <3>2
      <4>2. u[k] = s[k]
        BY <1>2, <1>3, <2>1
      <4> QED  BY <4>1, <4>2
    <3> QED  BY <3>2
  <2>2. CASE j > Len(s)
    <3>1. j - Len(s) \in 1 .. Len(t) /\ u[j] = t[j - Len(s)]
      BY <1>2, <1>3, <2>2
    <3>2. n \in L \cup UNION {t[k].defines : k \in 1 .. (j - Len(s)) - 1}
      BY <3>1 DEF WellScoped
    <3>3. CASE n \in K
      BY <3>3
    <3>4. CASE n \in Defs(s)
      <4>1. PICK k \in 1 .. Len(s) : n \in s[k].defines
        BY <1>1, <3>4, SeqFacts DEF Defs
      <4>2. k \in 1 .. j - 1 /\ u[k] = s[k]
        BY <1>2, <1>3, <2>2
      <4> QED  BY <4>1, <4>2
    <3>5. CASE n \notin L
      <4>1. PICK k \in 1 .. (j - Len(s)) - 1 : n \in t[k].defines
        BY <3>2, <3>5
      <4>2. k + Len(s) \in 1 .. j - 1 /\ k + Len(s) \in Len(s) + 1 .. Len(u) /\ (k + Len(s)) - Len(s) = k
        BY <1>2, <3>1, <4>1
      <4>3. u[k + Len(s)] = t[k]
        BY <1>3, <4>2
      <4> QED  BY <4>1, <4>2, <4>3
    <3> QED  BY <3>2, <3>3, <3>4, <3>5
  <2> QED  BY <1>2, <2>1, <2>2
<1>7. WellScoped(u, K, X)
  BY <1>2, <1>5, <1>6 DEF WellScoped
<1>8. Defs(u) = Defs(s) \cup Defs(t)
  BY <1>2 DEF Defs
<1> QED  BY <1>7, <1>8 DEF u

\* Blocks that define different names can follow each other.
LEMMA FlattenScoped ==
    ASSUME NEW ss, IsSeq(ss), NEW K, NEW X, \A i \in 1 .. Len(ss) : WellScoped(ss[i], K, X),
           \A i, j \in 1 .. Len(ss) : i # j => Defs(ss[i]) \cap Defs(ss[j]) \subseteq X
    PROVE  /\ WellScoped(FlattenSeq(ss), K, X)
           /\ Defs(FlattenSeq(ss)) = UNION {Defs(ss[i]) : i \in 1 .. Len(ss)}
<1> DEFINE Upto(k) == UNION {Defs(ss[i]) : i \in 1 .. k}
           T == UNION {ToSet(ss[i]) : i \in 1 .. Len(ss)}
           P == [k \in 0 .. Len(ss) |-> {s \in Seq(T) : WellScoped(s, K, X) /\ Defs(s) = Upto(k)}]
<1>1. Len(ss) \in Nat /\ \A i \in 1 .. Len(ss) : IsSeq(ss[i]) /\ ToSet(ss[i]) \subseteq T
  <2>1. Len(ss) \in Nat
    BY SeqFacts
  <2> QED  BY <2>1 DEF WellScoped
<1> HIDE DEF T
<1>2. <<>> \in P[0]
  BY <1>1, NothingScoped
<1>3. ASSUME NEW k \in 1 .. Len(ss), NEW s \in P[k - 1] PROVE s \o ss[k] \in P[k]
  <2>1. s \in Seq(T) /\ WellScoped(s, K, X) /\ Defs(s) = Upto(k - 1) /\ WellScoped(ss[k], K, X) /\ ss[k] \in Seq(T)
    <3>1. s \in Seq(T) /\ WellScoped(s, K, X) /\ Defs(s) = Upto(k - 1)
      BY <1>1, <1>3
    <3> HIDE DEF P, Upto
    <3> QED  BY <1>1, <3>1, IsSeqOf
  <2>2. Upto(k - 1) \cup Defs(ss[k]) = Upto(k)
    <3>1. 1 .. k = (1 .. k - 1) \cup {k}
      BY <1>1
    <3> QED  BY <3>1
  <2>3. Upto(k - 1) \cap Defs(ss[k]) \subseteq X
    <3>1. ASSUME NEW j \in 1 .. k - 1 PROVE Defs(ss[j]) \cap Defs(ss[k]) \subseteq X
      <4>1. j \in 1 .. Len(ss) /\ k \in 1 .. Len(ss) /\ j # k
        BY <1>1
      <4> HIDE DEF P, Upto
      <4> QED  BY <4>1
    <3> HIDE DEF P
    <3> QED  BY <3>1
  <2>4. WellScoped(s \o ss[k], K, X) /\ Defs(s \o ss[k]) = Upto(k)
    <3> HIDE DEF Upto, P
    <3> QED  BY <2>1, <2>2, <2>3, ConcatScoped
  <2>5. s \o ss[k] \in Seq(T) /\ k \in 0 .. Len(ss)
    <3> HIDE DEF Upto, P
    <3> QED  BY <1>1, <2>1
  <2> HIDE DEF Upto
  <2> QED  BY <2>4, <2>5
<1>4. FlattenSeq(ss) \in P[Len(ss)]
  <2> HIDE DEF P
  <2> QED  BY <1>1, <1>2, <1>3, FlattenInduct
<1>5. WellScoped(FlattenSeq(ss), K, X) /\ Defs(FlattenSeq(ss)) = Upto(Len(ss))
  <2> HIDE DEF Upto
  <2> QED  BY <1>1, <1>4
<1> QED  BY <1>5

\* The five sections of a module
LEMMA ModuleIs ==
    ASSUME NEW m, NEW cs
    PROVE  IdrisModule(m, cs) =
             FlattenSeq([i \in DOMAIN cs |-> write_contract_types(cs[i])])
             \o FlattenSeq([i \in DOMAIN cs |-> write_proof_obligations(cs[i], m)])
             \o FlattenSeq([i \in DOMAIN cs |-> write_ffi_declarations(cs[i])])
             \o FlattenSeq([i \in DOMAIN cs |-> write_safe_wrappers(cs[i])])
             \o write_verification(cs)
  BY DEF IdrisModule

\* What an item defines and uses
LEMMA ItemIs ==
    ASSUME NEW n, NEW u, NEW t
    PROVE  Item(n, u, t).defines = n /\ Item(n, u, t).uses = u
  BY DEF Item

\* The forms of names each section makes
TypeForms       == {Suffixed("Result"), Suffixed("Ok"), Suffixed("Err"), Suffixed("Params"), MkParams,
                    Suffixed("Pre"), Suffixed("Post")}
\* (those of the proof obligations)
ObligationForms == {Suffixed("Total"), IsTotal, Suffixed("PreSatisfied"), Suffixed("PreOk"),
                    Suffixed("PostSatisfied"), Suffixed("PostOk"),
                    Suffixed("RoundTrip"), Suffixed("RoundTripOk")}

\* The forms of two suffixes are two, and so are those of two items of a section.
LEMMA FormsDiffer ==
    /\ TypeForms \subseteq Forms /\ ObligationForms \subseteq Forms
    /\ {Prim__} \subseteq Forms /\ {Suffixed("")} \subseteq Forms
    /\ TypeForms \cap ObligationForms = {}
    /\ (TypeForms \cup ObligationForms) \cap {Prim__} = {}
    /\ (TypeForms \cup ObligationForms \cup {Prim__}) \cap {Suffixed("")} = {}
  BY DEF TypeForms, ObligationForms, Forms, Suffixed, MkParams, IsTotal, Prim__

\* Names of one function in some forms, and of several
NamesOf(c, forms) == {Formed(c, f) : f \in forms}
Names(cs, forms)  == UNION {NamesOf(cs[i], forms) : i \in 1 .. Len(cs)}

\* What two forms of a name of c spell alike is in X.
Alike(c, X) == \A f, g \in Forms : f # g /\ Formed(c, f) = Formed(c, g) => Formed(c, f) \in X

\* What is spelled alike for two functions, or in two forms, or by every module, is in X.
Shared(cs, X) ==
    /\ \A i, j \in 1 .. Len(cs) : \A f, g \in Forms :
          (i # j \/ f # g) /\ Formed(cs[i], f) = Formed(cs[j], g) => Formed(cs[i], f) \in X
    /\ \A i \in 1 .. Len(cs) : \A f \in Forms :
          Formed(cs[i], f) \in AllProofsComplete \cup Verify => Formed(cs[i], f) \in X

\* What one function has in a section: it may know K, and has names in some forms.
BlockOf(block, c, K, forms, X) == WellScoped(block, K, X) /\ Defs(block) \subseteq NamesOf(c, forms)

\* A part of it, that defines D
PartOf(block, c, K, forms, X, D) == BlockOf(block, c, K, forms, X) /\ Defs(block) = D

\* Forms that differ, and names known behind a part that defines D
DifferentForms(A, B) == A \subseteq Forms /\ B \subseteq Forms /\ A \cap B = {}
Known(L, K, D)       == L \subseteq K \cup D

\* Parts for one function, in forms that differ, follow each other.
LEMMA PartsConcat ==
    ASSUME NEW c, NEW X, Alike(c, X), NEW s, NEW t, NEW K, NEW L, NEW A, NEW B, NEW D, NEW E,
           PartOf(s, c, K, A, X, D), PartOf(t, c, L, B, X, E), Known(L, K, D), DifferentForms(A, B)
    PROVE  PartOf(s \o t, c, K, A \cup B, X, D \cup E)
<1>1. Defs(s) \cap Defs(t) \subseteq X
  <2>1. ASSUME NEW f \in A, NEW g \in B, Formed(c, f) = Formed(c, g) PROVE Formed(c, f) \in X
    BY <2>1 DEF Alike, DifferentForms
  <2> QED  BY <2>1 DEF PartOf, BlockOf, NamesOf
<1>2. WellScoped(s \o t, K, X) /\ Defs(s \o t) = Defs(s) \cup Defs(t)
  BY <1>1, ConcatScoped DEF PartOf, BlockOf, Known
<1>3. NamesOf(c, A) \cup NamesOf(c, B) = NamesOf(c, A \cup B)
  BY DEF NamesOf
<1> QED  BY <1>2, <1>3 DEF PartOf, BlockOf

\* There or not, with N what it defines then
Optional(block, n, u, N, K) ==
    \/ N = {} /\ block = <<>>
    \/ N = n /\ u \subseteq K /\ \E t : block = <<Item(n, u, t)>>

\* An item that is there or not is well scoped either way.
LEMMA OptionalItem ==
    ASSUME NEW block, NEW n, NEW u, NEW N, NEW K, NEW X, Optional(block, n, u, N, K)
    PROVE  WellScoped(block, K, X) /\ Defs(block) = N
<1>1. CASE N = {} /\ block = <<>>
  BY <1>1, NothingScoped
<1>2. CASE N = n /\ u \subseteq K /\ \E t : block = <<Item(n, u, t)>>
  <2>1. PICK t : block = <<Item(n, u, t)>>
    BY <1>2
  <2> QED  BY <1>2, <2>1, OneScoped, ItemIs
<1> QED  BY <1>1, <1>2 DEF Optional

\* The names of a function's types that the sections after them use, and those of
\* its proof obligations
TypeNames(c) == {n \in {Named(c, "Params")} : HasParams(c)}
                \cup {n \in {Named(c, "Pre")} : HasPre(c)} \cup {n \in {Named(c, "Post")} : HasPost(c)}
ObligationNames(c) == {Named(c, "Total")} \cup {n \in {Named(c, "PreSatisfied")} : HasPre(c) /\ HasParams(c)}

\* What one function has in each section is well scoped where the sections before
\* are known: its types,
LEMMA TypesBlock ==
    ASSUME NEW c, NEW X, Alike(c, X)
    PROVE  /\ BlockOf(write_contract_types(c), c, {}, TypeForms, X)
           /\ TypeNames(c) \subseteq Defs(write_contract_types(c))
<1> DEFINE a == <<Item({Named(c, "Result"), Named(c, "Ok"), Named(c, "Err")}, {}, RetType(c))>>
           params == {Named(c, "Params"), Formed(c, MkParams)}
           b == When(HasParams(c), Item(params, {}, ParamTypes(c)))
           uses == IF HasParams(c) THEN {Named(c, "Params")} ELSE {}
           pre == When(HasPre(c), Item({Named(c, "Pre")}, uses, {}))
           post == When(HasPost(c), Item({Named(c, "Post")}, {}, RetType(c)))
           B == {n \in params : HasParams(c)}
           Pre == {n \in {Named(c, "Pre")} : HasPre(c)}
           Post == {n \in {Named(c, "Post")} : HasPost(c)}
           FA == {Suffixed("Result"), Suffixed("Ok"), Suffixed("Err")}
           FB == {Suffixed("Params"), MkParams}
           FPre == {Suffixed("Pre")}
           FPost == {Suffixed("Post")}
<1>1. PartOf(a, c, {}, FA, X, Defs(a))
  <2>1. {Named(c, "Result"), Named(c, "Ok"), Named(c, "Err")} \subseteq NamesOf(c, FA)
    BY DEF Named, NamesOf
  <2>2. WellScoped(a, {}, X) /\ Defs(a) = {Named(c, "Result"), Named(c, "Ok"), Named(c, "Err")}
    BY OneScoped, ItemIs
  <2> HIDE DEF a, FA
  <2> QED  BY <2>1, <2>2 DEF PartOf, BlockOf
<1>2. PartOf(b, c, {}, FB, X, B)
  <2>1. Optional(b, params, {}, B, {})
    BY DEF Optional, When
  <2>2. B \subseteq NamesOf(c, FB)
    BY DEF Named, NamesOf
  <2> HIDE DEF b, B, params, FB
  <2> QED  BY <2>1, <2>2, OptionalItem DEF PartOf, BlockOf
<1>3. PartOf(pre, c, B, FPre, X, Pre)
  <2>1. Optional(pre, {Named(c, "Pre")}, uses, Pre, B)
    BY DEF Optional, When
  <2>2. Pre \subseteq NamesOf(c, FPre)
    BY DEF Named, NamesOf
  <2> HIDE DEF pre, uses, Pre, B, FPre
  <2> QED  BY <2>1, <2>2, OptionalItem DEF PartOf, BlockOf
<1>4. PartOf(post, c, {}, FPost, X, Post)
  <2>1. Optional(post, {Named(c, "Post")}, {}, Post, {})
    BY DEF Optional, When
  <2>2. Post \subseteq NamesOf(c, FPost)
    BY DEF Named, NamesOf
  <2> HIDE DEF post, Post, FPost
  <2> QED  BY <2>1, <2>2, OptionalItem DEF PartOf, BlockOf
<1>5. DifferentForms(FA, FB) /\ DifferentForms(FA \cup FB, FPre) /\ DifferentForms((FA \cup FB) \cup FPre, FPost)
  BY DEF DifferentForms, Forms, Suffixed, MkParams
<1>6. ((FA \cup FB) \cup FPre) \cup FPost = TypeForms
  BY DEF TypeForms
<1>7. write_contract_types(c) = ((a \o b) \o pre) \o post
  BY DEF write_contract_types
<1>8. TypeNames(c) \subseteq (B \cup Pre) \cup Post
  BY DEF TypeNames
<1> HIDE DEF a, b, pre, post, uses, params, B, Pre, Post, FA, FB, FPre, FPost
<1> DEFINE DA == Defs(a)
           DB == DA \cup B
           DC == DB \cup Pre
           GB == FA \cup FB
           GC == GB \cup FPre
<1>9. PartOf(a \o b, c, {}, GB, X, DB)
  <2>1. Known({}, {}, DA) /\ DifferentForms(FA, FB) /\ PartOf(a, c, {}, FA, X, DA)
    BY <1>1, <1>5 DEF Known
  <2> HIDE DEF DA
  <2> QED  BY <1>2, <2>1, PartsConcat
<1>10. PartOf((a \o b) \o pre, c, {}, GC, X, DC)
  <2>1. Known(B, {}, DB) /\ DifferentForms(GB, FPre)
    BY <1>5 DEF Known
  <2> HIDE DEF DB, GB
  <2> QED  BY <1>3, <1>9, <2>1, PartsConcat
<1>11. PartOf(((a \o b) \o pre) \o post, c, {}, GC \cup FPost, X, DC \cup Post)
  <2>1. Known({}, {}, DC) /\ DifferentForms(GC, FPost)
    BY <1>5 DEF Known
  <2> HIDE DEF DC, GC
  <2> QED  BY <1>4, <1>10, <2>1, PartsConcat
<1> QED  BY <1>6, <1>7, <1>8, <1>11 DEF PartOf

\* (every contract asks for a total function)
LEMMA TotalAsked ==
    ASSUME NEW c, IsContract(c)
    PROVE  c.require_total
<1>1. ASSUME NEW total, Shaped(c, total) PROVE c.require_total = total
  BY <1>1 DEF Shaped
<1> QED  BY <1>1, Zenon DEF IsContract

\* its proof obligations, which use its types,
LEMMA ObligationsBlock ==
    ASSUME NEW c, NEW m, NEW X, Alike(c, X), IsContract(c)
    PROVE  /\ BlockOf(write_proof_obligations(c, m), c, TypeNames(c), ObligationForms, X)
           /\ ObligationNames(c) \subseteq Defs(write_proof_obligations(c, m))
<1> DEFINE K == TypeNames(c)
           a == When(c.require_total, TotalItem(c))
           b == When(HasPre(c) /\ HasParams(c), PreItem(c))
           post == When(HasPost(c), PostItem(c))
           trip == When(m.round_trip, RoundTripItem(c))
           A == {Named(c, "Total"), Formed(c, IsTotal)}
           pre == {Named(c, "PreSatisfied"), Named(c, "PreOk")}
           B == {n \in pre : HasPre(c) /\ HasParams(c)}
           done == {Named(c, "PostSatisfied"), Named(c, "PostOk")}
           Post == {n \in done : HasPost(c)}
           round == {Named(c, "RoundTrip"), Named(c, "RoundTripOk")}
           Trip == {n \in round : m.round_trip}
           FA == {Suffixed("Total"), IsTotal}
           FB == {Suffixed("PreSatisfied"), Suffixed("PreOk")}
           FPost == {Suffixed("PostSatisfied"), Suffixed("PostOk")}
           FTrip == {Suffixed("RoundTrip"), Suffixed("RoundTripOk")}
<1>1. PartOf(a, c, K, FA, X, A)
  <2>1. c.require_total
    BY TotalAsked
  <2>2. a = <<Item(A, {}, {})>>
    BY <2>1 DEF When, TotalItem
  <2>3. A \subseteq NamesOf(c, FA)
    BY DEF Named, NamesOf
  <2> HIDE DEF A, a, FA, K
  <2> QED  BY <2>2, <2>3, OneScoped, ItemIs DEF PartOf, BlockOf
<1>2. PartOf(b, c, K, FB, X, B)
  <2>1. Optional(b, pre, {Named(c, "Params"), Named(c, "Pre")}, B, K)
    BY DEF Optional, When, TypeNames, PreItem
  <2>2. B \subseteq NamesOf(c, FB)
    BY DEF Named, NamesOf
  <2> HIDE DEF b, pre, B, FB, K
  <2> QED  BY <2>1, <2>2, OptionalItem DEF PartOf, BlockOf
<1>3. PartOf(post, c, K, FPost, X, Post)
  <2>1. Optional(post, done, {Named(c, "Post")}, Post, K)
    BY DEF Optional, When, TypeNames, PostItem
  <2>2. Post \subseteq NamesOf(c, FPost)
    BY DEF Named, NamesOf
  <2> HIDE DEF post, done, Post, FPost, K
  <2> QED  BY <2>1, <2>2, OptionalItem DEF PartOf, BlockOf
<1>4. PartOf(trip, c, K, FTrip, X, Trip)
  <2>1. Optional(trip, round, {}, Trip, K)
    BY DEF Optional, When, RoundTripItem
  <2>2. Trip \subseteq NamesOf(c, FTrip)
    BY DEF Named, NamesOf
  <2> HIDE DEF trip, round, Trip, FTrip, K
  <2> QED  BY <2>1, <2>2, OptionalItem DEF PartOf, BlockOf
<1>5. DifferentForms(FA, FB) /\ DifferentForms(FA \cup FB, FPost) /\ DifferentForms((FA \cup FB) \cup FPost, FTrip)
  BY DEF DifferentForms, Forms, Suffixed, IsTotal
<1>6. ((FA \cup FB) \cup FPost) \cup FTrip = ObligationForms
  BY DEF ObligationForms
<1>7. write_proof_obligations(c, m) = ((a \o b) \o post) \o trip
  BY DEF write_proof_obligations
<1>8. ObligationNames(c) \subseteq A \cup B
  BY DEF ObligationNames
<1> HIDE DEF a, b, post, trip, pre, done, round, A, B, Post, Trip, K, FA, FB, FPost, FTrip
<1> DEFINE DA == A
           DB == DA \cup B
           DC == DB \cup Post
           GB == FA \cup FB
           GC == GB \cup FPost
<1>9. PartOf(a \o b, c, K, GB, X, DB)
  <2>1. Known(K, K, DA) /\ DifferentForms(FA, FB) /\ PartOf(a, c, K, FA, X, DA)
    BY <1>1, <1>5 DEF Known
  <2> HIDE DEF DA
  <2> QED  BY <1>2, <2>1, PartsConcat
<1>10. PartOf((a \o b) \o post, c, K, GC, X, DC)
  <2>1. Known(K, K, DB) /\ DifferentForms(GB, FPost)
    BY <1>5 DEF Known
  <2> HIDE DEF DB, GB
  <2> QED  BY <1>3, <1>9, <2>1, PartsConcat
<1>11. PartOf(((a \o b) \o post) \o trip, c, K, GC \cup FTrip, X, DC \cup Trip)
  <2>1. Known(K, K, DC) /\ DifferentForms(GC, FTrip)
    BY <1>5 DEF Known
  <2> HIDE DEF DC, GC
  <2> QED  BY <1>4, <1>10, <2>1, PartsConcat
<1> QED  BY <1>6, <1>7, <1>8, <1>11 DEF PartOf, K

\* its %foreign declaration,
LEMMA ForeignBlock ==
    ASSUME NEW c, NEW X
    PROVE  /\ BlockOf(write_ffi_declarations(c), c, {}, {Prim__}, X)
           /\ Defs(write_ffi_declarations(c)) = {Prim(c)}
<1>1. WellScoped(write_ffi_declarations(c), {}, X) /\ Defs(write_ffi_declarations(c)) = {Prim(c)}
  BY OneScoped, ItemIs DEF write_ffi_declarations
<1>2. {Prim(c)} = NamesOf(c, {Prim__})
  BY DEF NamesOf, Prim
<1> QED  BY <1>1, <1>2 DEF BlockOf

\* and its wrapper, which uses one of each.
LEMMA WrapperBlock ==
    ASSUME NEW c, NEW X, NEW K, TypeNames(c) \subseteq K, ObligationNames(c) \subseteq K, Prim(c) \in K
    PROVE  BlockOf(write_safe_wrappers(c), c, K, {Suffixed("")}, X)
<1> DEFINE uses == {Prim(c)} \cup IF HasParams(c) /\ HasPre(c)
                                 THEN {Named(c, "Params"), Named(c, "PreSatisfied")} ELSE {}
           types == RetType(c) \cup IF HasPre(c) THEN {} ELSE ParamTypes(c)
<1>1. write_safe_wrappers(c) = <<Item({Wrapper(c)}, uses, types)>>
  BY DEF write_safe_wrappers
<1>2. uses \subseteq K
  BY DEF TypeNames, ObligationNames
<1>3. {Wrapper(c)} = NamesOf(c, {Suffixed("")})
  BY DEF NamesOf, Wrapper, Named
<1> HIDE DEF uses, types
<1>4. WellScoped(write_safe_wrappers(c), K, X) /\ Defs(write_safe_wrappers(c)) = {Wrapper(c)}
  BY <1>1, <1>2, OneScoped, ItemIs
<1> QED  BY <1>3, <1>4 DEF BlockOf

\* A section: functions have blocks that define names of theirs, in forms of the section.
LEMMA Section ==
    ASSUME NEW cs, IsSeq(cs), NEW X, Shared(cs, X), NEW ss, IsSeq(ss), Len(ss) = Len(cs), NEW K,
           NEW forms, forms \subseteq Forms,
           \A i \in 1 .. Len(cs) : BlockOf(ss[i], cs[i], K, forms, X)
    PROVE  /\ WellScoped(FlattenSeq(ss), K, X)
           /\ \A i \in 1 .. Len(cs) : Defs(ss[i]) \subseteq Defs(FlattenSeq(ss))
           /\ Defs(FlattenSeq(ss)) \subseteq Names(cs, forms)
<1>1. ASSUME NEW i \in 1 .. Len(cs), NEW j \in 1 .. Len(cs), i # j
      PROVE  Defs(ss[i]) \cap Defs(ss[j]) \subseteq X
  <2>1. ASSUME NEW f \in forms, NEW g \in forms, Formed(cs[i], f) = Formed(cs[j], g)
        PROVE  Formed(cs[i], f) \in X
    BY <1>1, <2>1 DEF Shared
  <2>2. NamesOf(cs[i], forms) \cap NamesOf(cs[j], forms) \subseteq X
    BY <2>1 DEF NamesOf
  <2> QED  BY <2>2 DEF BlockOf
<1>2. \A i \in 1 .. Len(cs) : WellScoped(ss[i], K, X)
  BY DEF BlockOf
<1>3. WellScoped(FlattenSeq(ss), K, X) /\ Defs(FlattenSeq(ss)) = UNION {Defs(ss[i]) : i \in 1 .. Len(ss)}
  BY <1>1, <1>2, FlattenScoped
<1>4. ASSUME NEW i \in 1 .. Len(cs) PROVE Defs(ss[i]) \subseteq Names(cs, forms)
  BY DEF Names, BlockOf
<1> QED  BY <1>3, <1>4

\* Sections of different forms define different names.
LEMMA SectionsDiffer ==
    ASSUME NEW cs, NEW X, Shared(cs, X), NEW A, A \subseteq Forms, NEW B, B \subseteq Forms, A \cap B = {},
           NEW M, M \subseteq Names(cs, A), NEW N, N \subseteq Names(cs, B)
    PROVE  M \cap N \subseteq X
<1> SUFFICES ASSUME NEW n, n \in M, n \in N PROVE n \in X
  OBVIOUS
<1>1. PICK i \in 1 .. Len(cs), f \in A : n = Formed(cs[i], f)
  BY DEF Names, NamesOf
<1>2. PICK j \in 1 .. Len(cs), g \in B : n = Formed(cs[j], g)
  BY DEF Names, NamesOf
<1>3. f # g
  OBVIOUS
<1> QED  BY <1>1, <1>2, <1>3 DEF Shared

\* Two sections together have the names of both.
LEMMA NamesGrow ==
    ASSUME NEW cs, NEW A, NEW B, NEW M, M \subseteq Names(cs, A), NEW N, N \subseteq Names(cs, B)
    PROVE  M \cup N \subseteq Names(cs, A \cup B)
<1>1. \A c : NamesOf(c, A) \subseteq NamesOf(c, A \cup B) /\ NamesOf(c, B) \subseteq NamesOf(c, A \cup B)
  BY DEF NamesOf
<1>2. ASSUME NEW n \in M \cup N PROVE n \in Names(cs, A \cup B)
  <2>1. \E i \in 1 .. Len(cs) : n \in NamesOf(cs[i], A) \/ n \in NamesOf(cs[i], B)
    BY DEF Names
  <2> QED  BY <1>1, <2>1 DEF Names
<1> QED  BY <1>2

\* One of the lists of blocks IdrisModule makes
LEMMA SectionBlocks ==
    ASSUME NEW cs, ContractList(cs), NEW X, Shared(cs, X), NEW ss, ss = [i \in DOMAIN cs |-> ss[i]]
    PROVE  /\ IsSeq(cs) /\ DOMAIN cs = 1 .. Len(cs) /\ IsSeq(ss) /\ Len(ss) = Len(cs)
           /\ \A i \in 1 .. Len(cs) : cs[i] \in ToSet(cs) /\ IsContract(cs[i]) /\ Alike(cs[i], X)
           /\ \A c \in ToSet(cs) : \E i \in 1 .. Len(cs) : c = cs[i]
<1>1. IsSeq(cs) /\ IsSeq(ss) /\ Len(ss) = Len(cs)
  BY BlocksAre DEF ContractList
<1>2. \A i \in 1 .. Len(cs) : Alike(cs[i], X)
  BY DEF Shared, Alike
<1> QED  BY <1>1, <1>2, SeqFacts DEF ContractList

\* A section of a module, which may know K
SectionOf(s, cs, K, forms, X) == WellScoped(s, K, X) /\ Defs(s) \subseteq Names(cs, forms)

\* A section is the blocks of all functions: the types,
LEMMA TypesSection ==
    ASSUME NEW cs, ContractList(cs), NEW X, Shared(cs, X),
           NEW ss, ss = [i \in DOMAIN cs |-> write_contract_types(cs[i])]
    PROVE  /\ SectionOf(FlattenSeq(ss), cs, {}, TypeForms, X)
           /\ \A c \in ToSet(cs) : TypeNames(c) \subseteq Defs(FlattenSeq(ss))
<1>1. /\ IsSeq(cs) /\ IsSeq(ss) /\ Len(ss) = Len(cs) /\ \A c \in ToSet(cs) : \E i \in 1 .. Len(cs) : c = cs[i]
      /\ DOMAIN cs = 1 .. Len(cs) /\ \A i \in 1 .. Len(cs) : Alike(cs[i], X)
  BY SectionBlocks
<1>2. ASSUME NEW i \in 1 .. Len(cs)
      PROVE  BlockOf(ss[i], cs[i], {}, TypeForms, X) /\ TypeNames(cs[i]) \subseteq Defs(ss[i])
  <2>1. ss[i] = write_contract_types(cs[i])
    BY <1>1
  <2> QED  BY <1>1, <2>1, TypesBlock
<1> QED  BY <1>1, <1>2, Section, FormsDiffer DEF SectionOf

\* the proof obligations,
LEMMA ObligationsSection ==
    ASSUME NEW m, NEW cs, ContractList(cs), NEW X, Shared(cs, X),
           NEW ss, ss = [i \in DOMAIN cs |-> write_proof_obligations(cs[i], m)],
           NEW K, \A c \in ToSet(cs) : TypeNames(c) \subseteq K
    PROVE  /\ SectionOf(FlattenSeq(ss), cs, K, ObligationForms, X)
           /\ \A c \in ToSet(cs) : ObligationNames(c) \subseteq Defs(FlattenSeq(ss))
<1>1. /\ IsSeq(cs) /\ IsSeq(ss) /\ Len(ss) = Len(cs) /\ \A c \in ToSet(cs) : \E i \in 1 .. Len(cs) : c = cs[i]
      /\ DOMAIN cs = 1 .. Len(cs)
      /\ \A i \in 1 .. Len(cs) : cs[i] \in ToSet(cs) /\ IsContract(cs[i]) /\ Alike(cs[i], X)
  BY SectionBlocks
<1>2. ASSUME NEW i \in 1 .. Len(cs)
      PROVE  BlockOf(ss[i], cs[i], K, ObligationForms, X) /\ ObligationNames(cs[i]) \subseteq Defs(ss[i])
  <2>1. ss[i] = write_proof_obligations(cs[i], m)
    BY <1>1
  <2>2. BlockOf(ss[i], cs[i], TypeNames(cs[i]), ObligationForms, X) /\ ObligationNames(cs[i]) \subseteq Defs(ss[i])
    BY <1>1, <2>1, ObligationsBlock
  <2>3. WellScoped(ss[i], K, X)
    BY <1>1, <2>2, Weaken DEF BlockOf
  <2> QED  BY <2>2, <2>3 DEF BlockOf
<1> QED  BY <1>1, <1>2, Section, FormsDiffer DEF SectionOf

\* the %foreign declarations,
LEMMA ForeignSection ==
    ASSUME NEW cs, ContractList(cs), NEW X, Shared(cs, X),
           NEW ss, ss = [i \in DOMAIN cs |-> write_ffi_declarations(cs[i])]
    PROVE  /\ SectionOf(FlattenSeq(ss), cs, {}, {Prim__}, X)
           /\ \A c \in ToSet(cs) : Prim(c) \in Defs(FlattenSeq(ss))
<1>1. /\ IsSeq(cs) /\ IsSeq(ss) /\ Len(ss) = Len(cs) /\ \A c \in ToSet(cs) : \E i \in 1 .. Len(cs) : c = cs[i]
      /\ DOMAIN cs = 1 .. Len(cs)
  BY SectionBlocks
<1>2. ASSUME NEW i \in 1 .. Len(cs)
      PROVE  BlockOf(ss[i], cs[i], {}, {Prim__}, X) /\ Defs(ss[i]) = {Prim(cs[i])}
  <2>1. ss[i] = write_ffi_declarations(cs[i])
    BY <1>1
  <2> QED  BY <2>1, ForeignBlock
<1> QED  BY <1>1, <1>2, Section, FormsDiffer DEF SectionOf

\* the wrappers,
LEMMA WrappersSection ==
    ASSUME NEW cs, ContractList(cs), NEW X, Shared(cs, X),
           NEW ss, ss = [i \in DOMAIN cs |-> write_safe_wrappers(cs[i])],
           NEW K,
           \A c \in ToSet(cs) : TypeNames(c) \subseteq K /\ ObligationNames(c) \subseteq K /\ Prim(c) \in K
    PROVE  SectionOf(FlattenSeq(ss), cs, K, {Suffixed("")}, X)
<1>1. /\ IsSeq(cs) /\ IsSeq(ss) /\ Len(ss) = Len(cs)
      /\ DOMAIN cs = 1 .. Len(cs) /\ \A i \in 1 .. Len(cs) : cs[i] \in ToSet(cs)
  BY SectionBlocks
<1>2. ASSUME NEW i \in 1 .. Len(cs)
      PROVE  BlockOf(ss[i], cs[i], K, {Suffixed("")}, X)
  <2>1. ss[i] = write_safe_wrappers(cs[i])
    BY <1>1
  <2> QED  BY <1>1, <2>1, WrapperBlock
<1> QED  BY <1>1, <1>2, Section, FormsDiffer DEF SectionOf

\* and the names every module has, which use a total-function proof of each.
LEMMA VerificationSection ==
    ASSUME NEW cs, NEW X, NEW K, \A i \in DOMAIN cs : Named(cs[i], "Total") \in K
    PROVE  WellScoped(write_verification(cs), K, X) /\ Defs(write_verification(cs)) = AllProofsComplete \cup Verify
<1> DEFINE a == <<Item(AllProofsComplete, {Named(cs[i], "Total") : i \in DOMAIN cs}, {})>>
           b == <<Item(Verify, {}, {})>>
<1>1. write_verification(cs) = a \o b
  BY DEF write_verification
<1>2. {Named(cs[i], "Total") : i \in DOMAIN cs} \subseteq K
  OBVIOUS
<1>3. WellScoped(a, K, X) /\ Defs(a) = AllProofsComplete
  BY <1>2, OneScoped, ItemIs
<1>4. WellScoped(b, {}, X) /\ Defs(b) = Verify
  BY OneScoped, ItemIs
<1>5. AllProofsComplete \cap Verify = {}
  BY DEF AllProofsComplete, Verify
<1> HIDE DEF a, b
<1>6. WellScoped(a \o b, K, X) /\ Defs(a \o b) = Defs(a) \cup Defs(b)
  BY <1>3, <1>4, <1>5, ConcatScoped
<1> QED  BY <1>1, <1>3, <1>4, <1>6

\* Five sections, one after the other
LEMMA FiveScoped ==
    ASSUME NEW t, NEW o, NEW f, NEW w, NEW v, NEW X,
           WellScoped(t, {}, X), WellScoped(o, Defs(t), X), WellScoped(f, {}, X),
           WellScoped(w, Defs(t) \cup Defs(o) \cup Defs(f), X), WellScoped(v, Defs(o), X),
           Defs(t) \cap Defs(o) \subseteq X, (Defs(t) \cup Defs(o)) \cap Defs(f) \subseteq X,
           (Defs(t) \cup Defs(o) \cup Defs(f)) \cap Defs(w) \subseteq X,
           (Defs(t) \cup Defs(o) \cup Defs(f) \cup Defs(w)) \cap Defs(v) \subseteq X
    PROVE  WellScoped((((t \o o) \o f) \o w) \o v, {}, X)
<1>1. WellScoped(t \o o, {}, X) /\ Defs(t \o o) = Defs(t) \cup Defs(o)
  BY ConcatScoped
<1> DEFINE a == t \o o
<1> HIDE DEF a
<1>2. WellScoped(a \o f, {}, X) /\ Defs(a \o f) = Defs(t) \cup Defs(o) \cup Defs(f)
  BY <1>1, ConcatScoped DEF a
<1> DEFINE b == a \o f
<1> HIDE DEF b
<1>3. WellScoped(b \o w, {}, X) /\ Defs(b \o w) = Defs(t) \cup Defs(o) \cup Defs(f) \cup Defs(w)
  BY <1>2, ConcatScoped DEF b
<1> DEFINE c == b \o w
<1> HIDE DEF c
<1>4. WellScoped(c \o v, {}, X)
  BY <1>3, ConcatScoped DEF c
<1> QED  BY <1>4 DEF a, b, c

\* (idris2.rs:41-47) The five sections, one after the other, are well scoped.
LEMMA ModuleScoped ==
    ASSUME NEW m, NEW cs, ContractList(cs), NEW X, Shared(cs, X)
    PROVE  WellScoped(IdrisModule(m, cs), {}, X)
<1> DEFINE t == FlattenSeq([i \in DOMAIN cs |-> write_contract_types(cs[i])])
           o == FlattenSeq([i \in DOMAIN cs |-> write_proof_obligations(cs[i], m)])
           f == FlattenSeq([i \in DOMAIN cs |-> write_ffi_declarations(cs[i])])
           w == FlattenSeq([i \in DOMAIN cs |-> write_safe_wrappers(cs[i])])
           v == write_verification(cs)
           K == Defs(t) \cup Defs(o) \cup Defs(f)
           TO == TypeForms \cup ObligationForms
           last == {Suffixed("")}
<1>1. IsSeq(cs) /\ DOMAIN cs = 1 .. Len(cs) /\ \A i \in DOMAIN cs : cs[i] \in ToSet(cs)
  BY SeqFacts DEF ContractList, ToSet
<1>2. IdrisModule(m, cs) = (((t \o o) \o f) \o w) \o v
  BY ModuleIs, Zenon
<1>3. SectionOf(t, cs, {}, TypeForms, X) /\ \A c \in ToSet(cs) : TypeNames(c) \subseteq Defs(t)
  BY TypesSection
<1> HIDE DEF t
<1>4. SectionOf(o, cs, Defs(t), ObligationForms, X) /\ \A c \in ToSet(cs) : ObligationNames(c) \subseteq Defs(o)
  BY <1>3, ObligationsSection
<1> HIDE DEF o
<1>5. SectionOf(f, cs, {}, {Prim__}, X) /\ \A c \in ToSet(cs) : Prim(c) \in Defs(f)
  BY ForeignSection
<1> HIDE DEF f
<1>6. SectionOf(w, cs, K, last, X)
  <2>1. \A c \in ToSet(cs) : TypeNames(c) \subseteq K /\ ObligationNames(c) \subseteq K /\ Prim(c) \in K
    BY <1>3, <1>4, <1>5
  <2> HIDE DEF K
  <2> QED  BY <2>1, WrappersSection
<1> HIDE DEF w
<1>7. WellScoped(v, Defs(o), X) /\ Defs(v) = AllProofsComplete \cup Verify
  <2>1. \A c \in ToSet(cs) : Named(c, "Total") \in Defs(o)
    BY <1>4 DEF ObligationNames
  <2> QED  BY <1>1, <2>1, VerificationSection
<1> HIDE DEF v
<1>8. Defs(t) \cup Defs(o) \subseteq Names(cs, TO)
  BY <1>3, <1>4, NamesGrow DEF SectionOf
<1>9. K \subseteq Names(cs, TO \cup {Prim__})
  BY <1>5, <1>8, NamesGrow DEF SectionOf
<1> HIDE DEF last
<1>10. K \cup Defs(w) \subseteq Names(cs, (TO \cup {Prim__}) \cup last)
  <2> HIDE DEF K
  <2> QED  BY <1>6, <1>9, NamesGrow DEF SectionOf
<1>11. /\ TypeForms \subseteq Forms /\ ObligationForms \subseteq Forms /\ TO \subseteq Forms
       /\ {Prim__} \subseteq Forms /\ last \subseteq Forms /\ TO \cup {Prim__} \subseteq Forms
       /\ (TO \cup {Prim__}) \cup last \subseteq Forms
       /\ TypeForms \cap ObligationForms = {} /\ TO \cap {Prim__} = {} /\ (TO \cup {Prim__}) \cap last = {}
  BY FormsDiffer DEF last
<1>12. (K \cup Defs(w)) \cap Defs(v) \subseteq X
  <2>1. ASSUME NEW n, n \in K \cup Defs(w), n \in AllProofsComplete \cup Verify PROVE n \in X
    <3> HIDE DEF K, TO
    <3>1. PICK i \in 1 .. Len(cs), g \in (TO \cup {Prim__}) \cup last : n = Formed(cs[i], g)
      BY <1>10, <2>1 DEF Names, NamesOf
    <3>2. g \in Forms
      BY <1>11
    <3> QED  BY <2>1, <3>1, <3>2 DEF Shared
  <2> HIDE DEF K
  <2> QED  BY <1>7, <2>1
<1> HIDE DEF TO
<1>13. Defs(t) \cap Defs(o) \subseteq X
  BY <1>3, <1>4, <1>11, SectionsDiffer DEF SectionOf
<1>14. (Defs(t) \cup Defs(o)) \cap Defs(f) \subseteq X
  <2> DEFINE N == Defs(t) \cup Defs(o)
  <2> HIDE DEF N, K
  <2>1. N \subseteq Names(cs, TO) /\ Defs(f) \subseteq Names(cs, {Prim__})
    BY <1>5, <1>8 DEF N, SectionOf
  <2>2. N \cap Defs(f) \subseteq X
    BY <1>11, <2>1, SectionsDiffer
  <2> QED  BY <2>2 DEF N
<1>15. K \cap Defs(w) \subseteq X
  <2> HIDE DEF K
  <2> QED  BY <1>6, <1>9, <1>11, SectionsDiffer DEF SectionOf
<1>16. WellScoped(t, {}, X) /\ WellScoped(o, Defs(t), X) /\ WellScoped(f, {}, X) /\ WellScoped(w, K, X)
  BY <1>3, <1>4, <1>5, <1>6 DEF SectionOf
<1> QED  BY <1>2, <1>7, <1>12, <1>13, <1>14, <1>15, <1>16, FiveScoped
--------------------------------------------------------------------------------
\* Every function of fs, with the two declarations the bridge us has of it
Crosses(m, fs, us) ==
    /\ IsSeq(fs) /\ IsSeq(us) /\ Len(us) = 2 * Len(fs)
    /\ \A k \in 1 .. Len(fs) : \E i \in DOMAIN m.ifaces :
          us[2 * k - 1] = Extern(m.ifaces[i], fs[k]) /\ us[2 * k] = BridgeFunction(m, m.ifaces[i], fs[k])

\* Lists of functions that cross, crossed one after the other
LEMMA CrossesConcat ==
    ASSUME NEW m, NEW s, NEW u, NEW t, NEW v, Crosses(m, s, u), Crosses(m, t, v)
    PROVE  Crosses(m, s \o t, u \o v)
<1> DEFINE Two(k, c, a, b) == \E i \in DOMAIN m.ifaces :
                                a = Extern(m.ifaces[i], c) /\ b = BridgeFunction(m, m.ifaces[i], c)
           fs == s \o t
           us == u \o v
<1>1. /\ IsSeq(s) /\ IsSeq(u) /\ IsSeq(t) /\ IsSeq(v) /\ Len(u) = 2 * Len(s) /\ Len(v) = 2 * Len(t)
      /\ \A k \in 1 .. Len(s) : Two(k, s[k], u[2 * k - 1], u[2 * k])
      /\ \A k \in 1 .. Len(t) : Two(k, t[k], v[2 * k - 1], v[2 * k])
  BY DEF Crosses
<1> HIDE DEF Two
<1>2. /\ IsSeq(fs) /\ Len(fs) = Len(s) + Len(t) /\ Len(s) \in Nat /\ Len(t) \in Nat
      /\ \A k \in 1 .. Len(s) : fs[k] = s[k]
      /\ \A k \in Len(s) + 1 .. Len(fs) : k - Len(s) \in 1 .. Len(t) /\ fs[k] = t[k - Len(s)]
  BY <1>1, ConcatFacts, SeqFacts
<1>3. /\ IsSeq(us) /\ Len(us) = Len(u) + Len(v)
      /\ \A k \in 1 .. Len(u) : us[k] = u[k]
      /\ \A k \in Len(u) + 1 .. Len(us) : k - Len(u) \in 1 .. Len(v) /\ us[k] = v[k - Len(u)]
  BY <1>1, ConcatFacts
<1> HIDE DEF fs, us
<1>4. ASSUME NEW k \in 1 .. Len(fs) PROVE Two(k, fs[k], us[2 * k - 1], us[2 * k])
  <2>1. CASE k <= Len(s)
    <3>1. k \in 1 .. Len(s) /\ 2 * k - 1 \in 1 .. Len(u) /\ 2 * k \in 1 .. Len(u)
      BY <1>1, <1>2, <2>1
    <3> QED  BY <1>1, <1>2, <1>3, <3>1
  <2>2. CASE k > Len(s)
    <3> DEFINE l == k - Len(s)
    <3>1. k \in Len(s) + 1 .. Len(fs) /\ l \in 1 .. Len(t) /\ fs[k] = t[l]
      BY <1>2, <2>2
    <3>2. /\ 2 * k - 1 \in Len(u) + 1 .. Len(us) /\ 2 * k \in Len(u) + 1 .. Len(us)
          /\ (2 * k - 1) - Len(u) = 2 * l - 1 /\ 2 * k - Len(u) = 2 * l
      BY <1>1, <1>2, <1>3, <3>1
    <3>3. us[2 * k - 1] = v[2 * l - 1] /\ us[2 * k] = v[2 * l]
      BY <1>3, <3>2
    <3>4. Two(k, t[l], v[2 * l - 1], v[2 * l])
      <4>1. Two(l, t[l], v[2 * l - 1], v[2 * l])
        BY <1>1, <3>1
      <4> QED  BY <4>1 DEF Two
    <3> QED  BY <3>1, <3>3, <3>4
  <2> QED  BY <1>2, <2>1, <2>2
<1>5. Len(us) = 2 * Len(fs)
  BY <1>1, <1>2, <1>3
<1> QED  BY <1>2, <1>3, <1>4, <1>5 DEF Crosses, Two, fs, us

\* The functions of one interface
LEMMA InterfaceCrosses ==
    ASSUME NEW m, NEW i \in DOMAIN m.ifaces, NEW cs, IsSeq(cs)
    PROVE  Crosses(m, cs, write_interface_bridge(m, m.ifaces[i], cs))
<1> DEFINE iface == m.ifaces[i]
           ss == [j \in DOMAIN cs |-> <<Extern(iface, cs[j]), BridgeFunction(m, iface, cs[j])>>]
<1>1. DOMAIN cs = 1 .. Len(cs) /\ IsSeq(ss) /\ Len(ss) = Len(cs)
  BY BlocksAre, SeqFacts
<1>2. write_interface_bridge(m, iface, cs) = FlattenSeq(ss)
  BY DEF write_interface_bridge
<1>3. ASSUME NEW j \in 1 .. Len(cs)
      PROVE  /\ IsSeq(ss[j]) /\ Len(ss[j]) = 2
             /\ ss[j][1] = Extern(iface, cs[j]) /\ ss[j][2] = BridgeFunction(m, iface, cs[j])
  <2>1. ss[j] = <<Extern(iface, cs[j]), BridgeFunction(m, iface, cs[j])>>
    BY <1>1
  <2> QED  BY <2>1, TwoIsSeq
<1> HIDE DEF ss
<1>4. /\ Len(FlattenSeq(ss)) = 2 * Len(cs)
      /\ \A j \in 1 .. Len(cs) : /\ FlattenSeq(ss)[2 * j - 1] = Extern(iface, cs[j])
                                 /\ FlattenSeq(ss)[2 * j] = BridgeFunction(m, iface, cs[j])
  BY <1>1, <1>3, FlattenPairs
<1>5. IsSeq(FlattenSeq(ss))
  BY <1>1, <1>3, FlattenFacts
<1> QED  BY <1>2, <1>4, <1>5 DEF Crosses

\* The functions of all interfaces
LEMMA AllCross ==
    ASSUME NEW m, IsSeq(m.ifaces), NEW all, IsSeq(all), Len(all) <= Len(m.ifaces),
           \A i \in 1 .. Len(all) : IsSeq(all[i])
    PROVE  Crosses(m, FlattenSeq(all),
                   FlattenSeq([i \in DOMAIN all |-> write_interface_bridge(m, m.ifaces[i], all[i])]))
<1> DEFINE us == [i \in DOMAIN all |-> write_interface_bridge(m, m.ifaces[i], all[i])]
           A == Seq(UNION {ToSet(all[i]) : i \in 1 .. Len(all)})
           B == Seq(UNION {ToSet(us[i]) : i \in 1 .. Len(us)})
           P == [k \in 0 .. Len(all) |-> {p \in A \X B : Crosses(m, p[1], p[2])}]
<1>1. DOMAIN all = 1 .. Len(all) /\ Len(all) \in Nat /\ IsSeq(us) /\ Len(us) = Len(all)
  BY BlocksAre, SeqFacts
<1>2. ASSUME NEW i \in 1 .. Len(all) PROVE Crosses(m, all[i], us[i]) /\ IsSeq(us[i])
  <2>1. i \in DOMAIN m.ifaces
    BY <1>1, SeqFacts
  <2>2. us[i] = write_interface_bridge(m, m.ifaces[i], all[i])
    BY <1>1
  <2>3. Crosses(m, all[i], us[i])
    BY <2>1, <2>2, InterfaceCrosses
  <2> QED  BY <2>3 DEF Crosses
<1> HIDE DEF us
<1>3. \A i \in 1 .. Len(all) : all[i] \in A /\ us[i] \in B
  <2>1. ASSUME NEW i \in 1 .. Len(all), NEW T, ToSet(all[i]) \subseteq T PROVE all[i] \in Seq(T)
    BY <2>1, IsSeqOf
  <2>2. ASSUME NEW i \in 1 .. Len(all), NEW T, ToSet(us[i]) \subseteq T PROVE us[i] \in Seq(T)
    BY <1>2, <2>2, IsSeqOf
  <2>3. \A i \in 1 .. Len(all) : /\ ToSet(all[i]) \subseteq UNION {ToSet(all[j]) : j \in 1 .. Len(all)}
                                 /\ ToSet(us[i]) \subseteq UNION {ToSet(us[j]) : j \in 1 .. Len(us)}
    BY <1>1
  <2> QED  BY <2>1, <2>2, <2>3
<1>4. /\ <<>> \in A /\ <<>> \in B
      /\ \A i \in 1 .. Len(all) : /\ \A s \in A : s \o all[i] \in A
                                  /\ \A s \in B : s \o us[i] \in B
  <2>1. ASSUME NEW T, NEW s \in Seq(T), NEW t \in Seq(T) PROVE s \o t \in Seq(T) /\ <<>> \in Seq(T)
    OBVIOUS
  <2>2. ASSUME NEW T PROVE <<>> \in Seq(T)
    OBVIOUS
  <2> QED  BY <1>3, <2>1, <2>2
<1> HIDE DEF A, B
<1>5. <<<<>>, <<>>>> \in P[0]
  <2>1. Crosses(m, <<>>, <<>>)
    BY EmptyIsSeq DEF Crosses
  <2> QED  BY <1>1, <1>4, <2>1
<1>6. ASSUME NEW i \in 1 .. Len(all), NEW s, NEW t, <<s, t>> \in P[i - 1]
      PROVE  <<s \o all[i], t \o us[i]>> \in P[i]
  <2>1. s \in A /\ t \in B /\ Crosses(m, s, t)
    BY <1>1, <1>6
  <2>2. Crosses(m, s \o all[i], t \o us[i])
    BY <1>2, <2>1, CrossesConcat
  <2>3. s \o all[i] \in A /\ t \o us[i] \in B
    BY <1>4, <2>1
  <2>4. i \in 0 .. Len(all)
    BY <1>1
  <2>5. \A a \in A, b \in B : Crosses(m, a, b) => <<a, b>> \in P[i]
    BY <2>4
  <2> HIDE DEF P
  <2> QED  BY <2>2, <2>3, <2>5
<1>7. <<FlattenSeq(all), FlattenSeq(us)>> \in P[Len(all)]
  <2> HIDE DEF P
  <2> QED  BY <1>1, <1>2, <1>5, <1>6, FlattenTwo
<1>8. Crosses(m, FlattenSeq(all), FlattenSeq(us))
  BY <1>1, <1>7
<1> QED  BY <1>8 DEF us

\* What a module declares for each function, whichever interface it is of
Declares(fs, ds) ==
    /\ IsSeq(fs) /\ IsSeq(ds) /\ Len(ds) = Len(fs)
    /\ \A k \in 1 .. Len(fs) :
          ds[k].args = [a \in DOMAIN fs[k].params |-> idris_prim_type(fs[k].params[a].type_name)]

\* Lists of functions that are declared, declared one after the other
LEMMA DeclaresConcat ==
    ASSUME NEW s, NEW u, NEW t, NEW v, Declares(s, u), Declares(t, v)
    PROVE  Declares(s \o t, u \o v)
<1> DEFINE Is(c, d) == d.args = [a \in DOMAIN c.params |-> idris_prim_type(c.params[a].type_name)]
           fs == s \o t
           ds == u \o v
<1>1. /\ IsSeq(s) /\ IsSeq(u) /\ IsSeq(t) /\ IsSeq(v) /\ Len(u) = Len(s) /\ Len(v) = Len(t)
      /\ \A k \in 1 .. Len(s) : Is(s[k], u[k])
      /\ \A k \in 1 .. Len(t) : Is(t[k], v[k])
  BY DEF Declares
<1> HIDE DEF Is
<1>2. /\ IsSeq(fs) /\ Len(fs) = Len(s) + Len(t) /\ Len(s) \in Nat /\ Len(t) \in Nat
      /\ \A k \in 1 .. Len(s) : fs[k] = s[k]
      /\ \A k \in Len(s) + 1 .. Len(fs) : k - Len(s) \in 1 .. Len(t) /\ fs[k] = t[k - Len(s)]
  BY <1>1, ConcatFacts, SeqFacts
<1>3. /\ IsSeq(ds) /\ Len(ds) = Len(u) + Len(v)
      /\ \A k \in 1 .. Len(u) : ds[k] = u[k]
      /\ \A k \in Len(u) + 1 .. Len(ds) : k - Len(u) \in 1 .. Len(v) /\ ds[k] = v[k - Len(u)]
  BY <1>1, ConcatFacts
<1> HIDE DEF fs, ds
<1>4. ASSUME NEW k \in 1 .. Len(fs) PROVE Is(fs[k], ds[k])
  <2>1. CASE k <= Len(s)
    BY <1>1, <1>2, <1>3, <2>1
  <2>2. CASE k > Len(s)
    <3>1. k \in Len(s) + 1 .. Len(fs) /\ k \in Len(u) + 1 .. Len(ds)
      BY <1>1, <1>2, <1>3, <2>2
    <3> QED  BY <1>1, <1>2, <1>3, <3>1
  <2> QED  BY <1>2, <2>1, <2>2
<1>5. Len(ds) = Len(fs)
  BY <1>1, <1>2, <1>3
<1> QED  BY <1>2, <1>3, <1>4, <1>5 DEF Declares, Is, fs, ds

\* The %foreign declarations of all modules are those of all functions, in order.
LEMMA AllDeclare ==
    ASSUME NEW all, IsSeq(all), \A i \in 1 .. Len(all) : IsSeq(all[i]), NEW ds, IsSeq(ds), Len(ds) = Len(all),
           \A i \in 1 .. Len(all) : \E iface : ds[i] = ForeignDecls(iface, all[i])
    PROVE  Declares(FlattenSeq(all), FlattenSeq(ds))
<1> DEFINE A == Seq(UNION {ToSet(all[i]) : i \in 1 .. Len(all)})
           B == Seq(UNION {ToSet(ds[i]) : i \in 1 .. Len(ds)})
           P == [k \in 0 .. Len(all) |-> {p \in A \X B : Declares(p[1], p[2])}]
<1>1. DOMAIN all = 1 .. Len(all) /\ Len(all) \in Nat
  BY SeqFacts
<1>2. ASSUME NEW i \in 1 .. Len(all) PROVE Declares(all[i], ds[i]) /\ IsSeq(ds[i])
  <2>1. PICK iface : ds[i] = ForeignDecls(iface, all[i])
    OBVIOUS
  <2>2. ds[i] = [j \in DOMAIN all[i] |-> Foreign(iface, all[i][j])]
    BY <2>1 DEF ForeignDecls
  <2>3. IsSeq(all[i]) /\ DOMAIN all[i] = 1 .. Len(all[i])
    BY SeqFacts
  <2>4. ds[i] = [j \in DOMAIN all[i] |-> ds[i][j]]
    BY <2>2
  <2>5. IsSeq(ds[i]) /\ Len(ds[i]) = Len(all[i])
    BY <2>3, <2>4, BlocksAre
  <2>6. \A j \in 1 .. Len(all[i]) : ds[i][j] = Foreign(iface, all[i][j])
    BY <2>2, <2>3
  <2>7. \A c : Foreign(iface, c).args = [a \in DOMAIN c.params |-> idris_prim_type(c.params[a].type_name)]
    BY DEF Foreign
  <2> QED  BY <2>3, <2>5, <2>6, <2>7 DEF Declares
<1>3. \A i \in 1 .. Len(all) : all[i] \in A /\ ds[i] \in B
  <2>1. ASSUME NEW i \in 1 .. Len(all), NEW T, ToSet(all[i]) \subseteq T PROVE all[i] \in Seq(T)
    BY <2>1, IsSeqOf
  <2>2. ASSUME NEW i \in 1 .. Len(all), NEW T, ToSet(ds[i]) \subseteq T PROVE ds[i] \in Seq(T)
    BY <1>2, <2>2, IsSeqOf
  <2>3. \A i \in 1 .. Len(all) : /\ ToSet(all[i]) \subseteq UNION {ToSet(all[j]) : j \in 1 .. Len(all)}
                                 /\ ToSet(ds[i]) \subseteq UNION {ToSet(ds[j]) : j \in 1 .. Len(ds)}
    BY <1>1
  <2> QED  BY <2>1, <2>2, <2>3
<1>4. /\ <<>> \in A /\ <<>> \in B
      /\ \A i \in 1 .. Len(all) : /\ \A s \in A : s \o all[i] \in A
                                  /\ \A s \in B : s \o ds[i] \in B
  <2>1. ASSUME NEW T, NEW s \in Seq(T), NEW t \in Seq(T) PROVE s \o t \in Seq(T) /\ <<>> \in Seq(T)
    OBVIOUS
  <2>2. ASSUME NEW T PROVE <<>> \in Seq(T)
    OBVIOUS
  <2> QED  BY <1>3, <2>1, <2>2
<1> HIDE DEF A, B
<1>5. <<<<>>, <<>>>> \in P[0]
  <2>1. Declares(<<>>, <<>>)
    BY EmptyIsSeq DEF Declares
  <2> QED  BY <1>1, <1>4, <2>1
<1>6. ASSUME NEW i \in 1 .. Len(all), NEW s, NEW t, <<s, t>> \in P[i - 1]
      PROVE  <<s \o all[i], t \o ds[i]>> \in P[i]
  <2>1. s \in A /\ t \in B /\ Declares(s, t)
    BY <1>1, <1>6
  <2>2. Declares(s \o all[i], t \o ds[i])
    BY <1>2, <2>1, DeclaresConcat
  <2>3. s \o all[i] \in A /\ t \o ds[i] \in B
    BY <1>4, <2>1
  <2>4. i \in 0 .. Len(all)
    BY <1>1
  <2>5. \A a \in A, b \in B : Declares(a, b) => <<a, b>> \in P[i]
    BY <2>4
  <2> HIDE DEF P
  <2> QED  BY <2>2, <2>3, <2>5
<1>7. <<FlattenSeq(all), FlattenSeq(ds)>> \in P[Len(all)]
  <2> HIDE DEF P
  <2> QED  BY <1>1, <1>2, <1>5, <1>6, FlattenTwo
<1> QED  BY <1>1, <1>7
--------------------------------------------------------------------------------
\* The whole bridge: two declarations for every function of the project, and four of its own
BridgeIs(m, fs, b) ==
    /\ IsSeq(fs) /\ IsSeq(b) /\ Len(b) = 2 * Len(fs) + 4
    /\ \A k \in 1 .. Len(fs) : \E i \in DOMAIN m.ifaces :
          b[2 * k - 1] = Extern(m.ifaces[i], fs[k]) /\ b[2 * k] = BridgeFunction(m, m.ifaces[i], fs[k])
    /\ b[2 * Len(fs) + 1] = Declare("var", <<"initialized">>, <<>>, Nothing)
    /\ b[2 * Len(fs) + 2] = Declare("export", Symbol(Safe[m.name], <<"verified", "init">>), <<>>, Nothing)
    /\ b[2 * Len(fs) + 3] = Declare("export", Symbol(Safe[m.name], <<"verified", "shutdown">>), <<>>, Nothing)
    /\ b[2 * Len(fs) + 4] = Declare("export", <<"idrisiser", "version">>, <<>>, Nothing)

\* write_bridge makes that of the contracts of all interfaces.
LEMMA BridgeShape ==
    ASSUME NEW m, IsSeq(m.ifaces), NEW all, IsSeq(all), Len(all) <= Len(m.ifaces),
           \A i \in 1 .. Len(all) : IsSeq(all[i])
    PROVE  BridgeIs(m, FlattenSeq(all), Bridge(m, all))
<1> DEFINE fs == FlattenSeq(all)
           us == FlattenSeq([i \in DOMAIN all |-> write_interface_bridge(m, m.ifaces[i], all[i])])
           v1 == Declare("var", <<"initialized">>, <<>>, Nothing)
           v2 == Declare("export", Symbol(Safe[m.name], <<"verified", "init">>), <<>>, Nothing)
           v3 == Declare("export", Symbol(Safe[m.name], <<"verified", "shutdown">>), <<>>, Nothing)
           v4 == Declare("export", <<"idrisiser", "version">>, <<>>, Nothing)
           lifecycle == <<v1, v2, v3>>
           version == <<v4>>
           b == (us \o lifecycle) \o version
           N == Len(fs)
<1>1. Bridge(m, all) = b
  BY DEF Bridge, write_lifecycle, write_version
<1>2. Crosses(m, fs, us)
  BY AllCross
<1> HIDE DEF v1, v2, v3, v4, us
<1>3. IsSeq(fs) /\ IsSeq(us) /\ Len(us) = 2 * N /\ N \in Nat
  <2> HIDE DEF fs
  <2> QED  BY <1>2, SeqFacts DEF Crosses
<1> HIDE DEF fs
<1>4. /\ IsSeq(lifecycle) /\ Len(lifecycle) = 3
      /\ lifecycle[1] = v1 /\ lifecycle[2] = v2 /\ lifecycle[3] = v3
      /\ IsSeq(version) /\ Len(version) = 1 /\ version[1] = v4
  BY ThreeIsSeq, OneIsSeq
<1> HIDE DEF lifecycle, version
<1>5. /\ IsSeq(us \o lifecycle) /\ Len(us \o lifecycle) = 2 * N + 3
      /\ \A i \in 1 .. 2 * N : (us \o lifecycle)[i] = us[i]
      /\ (us \o lifecycle)[2 * N + 1] = v1
      /\ (us \o lifecycle)[2 * N + 2] = v2
      /\ (us \o lifecycle)[2 * N + 3] = v3
  <2>1. /\ IsSeq(us \o lifecycle) /\ Len(us \o lifecycle) = Len(us) + Len(lifecycle)
        /\ \A i \in 1 .. Len(us) : (us \o lifecycle)[i] = us[i]
        /\ \A i \in 1 .. Len(lifecycle) : (us \o lifecycle)[Len(us) + i] = lifecycle[i]
    <3>1. ASSUME NEW x, IsSeq(x)
          PROVE  /\ IsSeq(us \o x) /\ Len(us \o x) = Len(us) + Len(x)
                 /\ \A i \in 1 .. Len(us) : (us \o x)[i] = us[i]
                 /\ \A i \in 1 .. Len(x) : (us \o x)[Len(us) + i] = x[i]
      BY <1>3, <3>1, ConcatFacts
    <3> QED  BY <1>4, <3>1
  <2>2. 1 \in 1 .. Len(lifecycle) /\ 2 \in 1 .. Len(lifecycle) /\ 3 \in 1 .. Len(lifecycle)
    BY <1>4
  <2> QED  BY <1>3, <1>4, <2>1, <2>2
<1> DEFINE t == us \o lifecycle
<1>6. /\ IsSeq(b) /\ Len(b) = 2 * N + 4
      /\ \A i \in 1 .. 2 * N + 3 : b[i] = t[i]
      /\ b[2 * N + 4] = v4
  <2>1. IsSeq(t) /\ Len(t) = 2 * N + 3 /\ b = t \o version
    BY <1>5
  <2> HIDE DEF b, t
  <2>5. IsSeq(t)
    BY <2>1
  <2>2. /\ IsSeq(t \o version) /\ Len(t \o version) = Len(t) + Len(version)
        /\ \A i \in 1 .. Len(t) : (t \o version)[i] = t[i]
        /\ \A i \in 1 .. Len(version) : (t \o version)[Len(t) + i] = version[i]
    <3>1. ASSUME NEW x, IsSeq(x)
          PROVE  /\ IsSeq(t \o x) /\ Len(t \o x) = Len(t) + Len(x)
                 /\ \A i \in 1 .. Len(t) : (t \o x)[i] = t[i]
                 /\ \A i \in 1 .. Len(x) : (t \o x)[Len(t) + i] = x[i]
      BY <2>5, <3>1, ConcatFacts
    <3> QED  BY <1>4, <3>1
  <2>3. 1 \in 1 .. Len(version)
    BY <1>4
  <2>4. (t \o version)[Len(t) + 1] = v4
    BY <1>4, <2>2, <2>3
  <2> QED  BY <1>3, <1>4, <2>1, <2>2, <2>4
<1> HIDE DEF b
<1>7. \A k \in 1 .. N : b[2 * k - 1] = us[2 * k - 1] /\ b[2 * k] = us[2 * k]
  <2>1. ASSUME NEW i \in 1 .. 2 * N PROVE b[i] = us[i]
    <3>1. i \in 1 .. 2 * N + 3
      BY <1>3
    <3> QED  BY <1>5, <1>6, <3>1
  <2>2. ASSUME NEW k \in 1 .. N PROVE 2 * k - 1 \in 1 .. 2 * N /\ 2 * k \in 1 .. 2 * N
    BY <1>3
  <2> QED  BY <2>1, <2>2
<1>8. b[2 * N + 1] = v1 /\ b[2 * N + 2] = v2 /\ b[2 * N + 3] = v3 /\ b[2 * N + 4] = v4
  <2>1. 2 * N + 1 \in 1 .. 2 * N + 3 /\ 2 * N + 2 \in 1 .. 2 * N + 3 /\ 2 * N + 3 \in 1 .. 2 * N + 3
    BY <1>3
  <2> QED  BY <1>5, <1>6, <2>1
<1>9. \A k \in 1 .. N : \E i \in DOMAIN m.ifaces :
         b[2 * k - 1] = Extern(m.ifaces[i], fs[k]) /\ b[2 * k] = BridgeFunction(m, m.ifaces[i], fs[k])
  BY <1>2, <1>7 DEF Crosses
<1>10. IsSeq(b) /\ Len(b) = 2 * N + 4
  BY <1>6
<1> HIDE DEF N
<1>11. BridgeIs(m, fs, b)
  BY <1>3, <1>8, <1>9, <1>10 DEF BridgeIs, N, v1, v2, v3, v4
<1> QED  BY <1>1, <1>11 DEF fs
--------------------------------------------------------------------------------
\* The tables agree on all other types, also on those that no table lists.
LEMMA TablesAgree ==
    ASSUME NEW type
    PROVE  /\ type \notin ModuleAndBridgeDiffer <=> idris_prim_type(type) = zig_prim_type(type)
           /\ type \notin BridgeAndUserDiffer   <=> zig_prim_type(type) = zig_type(type)
<1>1. type \notin ModuleAndBridgeDiffer <=> idris_prim_type(type) = zig_prim_type(type)
  BY DEF idris_prim_type, zig_prim_type, ModuleAndBridgeDiffer
<1>2. type \notin BridgeAndUserDiffer <=> zig_prim_type(type) = zig_type(type)
  <2>1. CASE type \in BridgeAndUserDiffer
    BY <2>1 DEF zig_prim_type, zig_type, BridgeAndUserDiffer
  <2>2. CASE type \notin BridgeAndUserDiffer
    BY <2>2 DEF zig_prim_type, zig_type, BridgeAndUserDiffer
  <2> QED  BY <2>1, <2>2
<1> QED  BY <1>1, <1>2

(* Whatever the contract, the %foreign declaration, the bridge function and    *)
(* the user's function it calls have as many arguments, and the widths of an   *)
(* argument agree exactly when its type is none of those the tables disagree   *)
(* on.  (ArgumentsAgree says so of the runs' contracts, and in their order.)   *)
THEOREM CallsAgree ==
    ASSUME NEW m, NEW iface, NEW c
    PROVE  LET passed == Foreign(iface, c).args
               taken == BridgeFunction(m, iface, c).args
               read == Extern(iface, c).args
           IN  /\ DOMAIN passed = DOMAIN taken /\ DOMAIN read = DOMAIN taken
               /\ BridgeFunction(m, iface, c).calls = Extern(iface, c).symbol
               /\ \A a \in DOMAIN taken : LET type == c.params[a].type_name IN
                     /\ passed[a] = taken[a] <=> type \notin ModuleAndBridgeDiffer
                     /\ taken[a] = read[a] <=> type \notin BridgeAndUserDiffer
<1> DEFINE T(a) == c.params[a].type_name
<1>1. /\ Foreign(iface, c).args = [a \in DOMAIN c.params |-> idris_prim_type(T(a))]
      /\ BridgeFunction(m, iface, c).args = [a \in DOMAIN c.params |-> zig_prim_type(T(a))]
      /\ Extern(iface, c).args = [a \in DOMAIN c.params |-> zig_type(T(a))]
      /\ BridgeFunction(m, iface, c).calls = Extern(iface, c).symbol
  BY DEF Foreign, BridgeFunction, Extern, Declare
<1>2. \A a \in DOMAIN c.params :
         /\ idris_prim_type(T(a)) = zig_prim_type(T(a)) <=> T(a) \notin ModuleAndBridgeDiffer
         /\ zig_prim_type(T(a)) = zig_type(T(a)) <=> T(a) \notin BridgeAndUserDiffer
  BY TablesAgree
<1> QED  BY <1>1, <1>2

\* The two declarations of a function in the bridge: their symbols,
LEMMA SymbolFacts ==
    ASSUME NEW m, NEW iface, NEW c, NEW x, x = Extern(iface, c), NEW y, y = BridgeFunction(m, iface, c)
    PROVE  /\ x.kind = "extern" /\ x.calls = Nothing /\ x.symbol = Symbol(Safe[iface.name], c.name)
           /\ y.kind = "export" /\ y.calls = x.symbol /\ y.symbol = Symbol(Safe[m.name], c.name)
<1> DEFINE s == Symbol(Safe[iface.name], c.name)
           t == Symbol(Safe[m.name], c.name)
           p == [a \in DOMAIN c.params |-> zig_type(c.params[a].type_name)]
           q == [a \in DOMAIN c.params |-> zig_prim_type(c.params[a].type_name)]
<1>1. x = Declare("extern", s, p, Nothing) /\ y = Declare("export", t, q, s)
  BY DEF Extern, BridgeFunction
<1> HIDE DEF s, t, p, q
<1>2. /\ x.kind = "extern" /\ x.calls = Nothing /\ x.symbol = s
      /\ y.kind = "export" /\ y.calls = s /\ y.symbol = t
  BY <1>1 DEF Declare
<1> QED  BY <1>2 DEF s, t

\* and their arguments
LEMMA ArgumentFacts ==
    ASSUME NEW m, NEW iface, NEW c, NEW x, x = Extern(iface, c), NEW y, y = BridgeFunction(m, iface, c)
    PROVE  /\ x.args = [a \in DOMAIN c.params |-> zig_type(c.params[a].type_name)]
           /\ y.args = [a \in DOMAIN c.params |-> zig_prim_type(c.params[a].type_name)]
  BY DEF Extern, BridgeFunction, Declare

\* What is in the bridge besides the functions calls nothing.
LEMMA OwnDeclarations ==
    ASSUME NEW m, NEW fs, NEW b, BridgeIs(m, fs, b)
    PROVE  /\ b[2 * Len(fs) + 1].symbol = <<"initialized">> /\ b[2 * Len(fs) + 1].calls = Nothing
           /\ b[2 * Len(fs) + 2].symbol = Symbol(Safe[m.name], <<"verified", "init">>)
           /\ b[2 * Len(fs) + 2].calls = Nothing
           /\ b[2 * Len(fs) + 3].symbol = Symbol(Safe[m.name], <<"verified", "shutdown">>)
           /\ b[2 * Len(fs) + 3].calls = Nothing
           /\ b[2 * Len(fs) + 4].symbol = <<"idrisiser", "version">> /\ b[2 * Len(fs) + 4].calls = Nothing
<1>1. ASSUME NEW kind, NEW symbol, NEW args, NEW calls, NEW d, d = Declare(kind, symbol, args, calls)
      PROVE  d.symbol = symbol /\ d.calls = calls
  BY <1>1 DEF Declare
<1> QED  BY <1>1 DEF BridgeIs

\* Every place of the bridge holds one of six things.
LEMMA Places ==
    ASSUME NEW m, NEW fs, NEW b, BridgeIs(m, fs, b), NEW p \in DOMAIN b
    PROVE  /\ Len(fs) \in Nat
           /\ \/ \E k \in 1 .. Len(fs) : p = 2 * k - 1
              \/ \E k \in 1 .. Len(fs) : p = 2 * k
              \/ p \in {2 * Len(fs) + 1, 2 * Len(fs) + 2, 2 * Len(fs) + 3, 2 * Len(fs) + 4}
<1> DEFINE N == Len(fs)
<1>1. N \in Nat /\ p \in 1 .. 2 * N + 4
  <2>1. IsSeq(fs) /\ IsSeq(b) /\ Len(b) = 2 * N + 4
    BY DEF BridgeIs
  <2> QED  BY <2>1, SeqFacts
<1> HIDE DEF N
<1>2. p \in Nat /\ (p = 2 * (p \div 2) \/ p = 2 * ((p + 1) \div 2) - 1)
  BY <1>1
<1>3. CASE p \in 1 .. 2 * N /\ p = 2 * (p \div 2)
  <2>1. p \div 2 \in 1 .. N
    BY <1>1, <1>3
  <2> QED  BY <1>1, <1>3, <2>1 DEF N
<1>4. CASE p \in 1 .. 2 * N /\ p = 2 * ((p + 1) \div 2) - 1
  <2>1. (p + 1) \div 2 \in 1 .. N
    BY <1>1, <1>4
  <2> QED  BY <1>1, <1>4, <2>1 DEF N
<1>5. CASE p \notin 1 .. 2 * N
  <2>1. p \in {2 * N + 1, 2 * N + 2, 2 * N + 3, 2 * N + 4}
    BY <1>1, <1>5
  <2> QED  BY <1>1, <2>1 DEF N
<1> QED  BY <1>2, <1>3, <1>4, <1>5

\* With declarations and bridge in the order of the functions, arguments agree.
LEMMA ArgumentsFollow ==
    ASSUME BridgeIs(manifest, functions, bridge), ContractList(functions),
           Declares(functions, FlattenSeq([i \in DOMAIN modules |-> modules[i].foreign]))
    PROVE  ArgumentsAgree
<1> DEFINE declared == FlattenSeq([i \in DOMAIN modules |-> modules[i].foreign])
           fs == functions
           b == bridge
           N == Len(fs)
<1>1. Len(declared) = N /\ DOMAIN fs = 1 .. N
  BY SeqFacts DEF Declares
<1>2. ASSUME NEW k \in DOMAIN fs
      PROVE  /\ external(k).kind = "extern" /\ exported(k).kind = "export"
             /\ exported(k).calls = external(k).symbol
             /\ Len(declared[k].args) = Len(exported(k).args)
             /\ Len(external(k).args) = Len(exported(k).args)
             /\ \A a \in DOMAIN exported(k).args : LET type == fs[k].params[a].type_name IN
                  /\ type \notin ModuleAndBridgeDiffer => declared[k].args[a] = exported(k).args[a]
                  /\ type \notin BridgeAndUserDiffer   => exported(k).args[a] = external(k).args[a]
             /\ external(k).calls = Nothing
  <2>1. PICK i \in DOMAIN manifest.ifaces :
           /\ external(k) = Extern(manifest.ifaces[i], fs[k])
           /\ exported(k) = BridgeFunction(manifest, manifest.ifaces[i], fs[k])
    BY <1>1 DEF BridgeIs, external, exported
  <2> DEFINE x == external(k)
             y == exported(k)
             c == fs[k]
  <2>2. /\ x.kind = "extern" /\ x.calls = Nothing /\ y.kind = "export" /\ y.calls = x.symbol
        /\ x.args = [a \in DOMAIN c.params |-> zig_type(c.params[a].type_name)]
        /\ y.args = [a \in DOMAIN c.params |-> zig_prim_type(c.params[a].type_name)]
    BY <2>1, SymbolFacts, ArgumentFacts
  <2>3. declared[k].args = [a \in DOMAIN c.params |-> idris_prim_type(c.params[a].type_name)]
    BY <1>1 DEF Declares
  <2> HIDE DEF x, y, c, declared
  <2>4. IsSeq(c.params)
    BY <1>1, SeqFacts DEF c, ContractList, IsContract
  <2>5. /\ Len(x.args) = Len(c.params) /\ Len(y.args) = Len(c.params) /\ Len(declared[k].args) = Len(c.params)
    BY <2>2, <2>3, <2>4, BlocksAre
  <2>6. ASSUME NEW a \in DOMAIN y.args
        PROVE  LET type == c.params[a].type_name IN
                  /\ type \notin ModuleAndBridgeDiffer => declared[k].args[a] = y.args[a]
                  /\ type \notin BridgeAndUserDiffer   => y.args[a] = x.args[a]
    <3>1. /\ y.args[a] = zig_prim_type(c.params[a].type_name)
          /\ x.args[a] = zig_type(c.params[a].type_name)
          /\ declared[k].args[a] = idris_prim_type(c.params[a].type_name)
      BY <2>2, <2>3
    <3> QED  BY <3>1, TablesAgree
  <2> QED  BY <2>2, <2>5, <2>6 DEF x, y, c, declared
<1>3. ASSUME NEW p \in DOMAIN b, b[p].calls # Nothing PROVE \E k \in DOMAIN fs : p = 2 * k
  <2>1. p \notin {2 * N + 1, 2 * N + 2, 2 * N + 3, 2 * N + 4}
    BY <1>3, OwnDeclarations
  <2>2. ~ \E k \in 1 .. N : p = 2 * k - 1
    BY <1>1, <1>2, <1>3 DEF external
  <2> QED  BY <1>1, <2>1, <2>2, Places
<1> HIDE DEF declared
<1> QED  BY <1>1, <1>2, <1>3 DEF ArgumentsAgree, declared

\* A symbol is where its prefix stands among the prefixes, and the words that follow.
At(prefixes, d, a, word) == a \in DOMAIN prefixes /\ IsSeq(word) /\ d.symbol = Symbol(prefixes[a], word)

\* Of prefixes none of which begins another, only one prefix and one name make a symbol.
LEMMA SameSymbol ==
    ASSUME NEW prefixes, \A a \in DOMAIN prefixes : IsSeq(prefixes[a]),
           \A a, e \in DOMAIN prefixes : a # e => ~IsPrefix(prefixes[a], prefixes[e]),
           NEW c, NEW d, NEW a, NEW e, NEW v, NEW w, At(prefixes, c, a, v), At(prefixes, d, e, w),
           c.symbol = d.symbol
    PROVE  a = e /\ v = w
<1> DEFINE p == prefixes[a]
           q == prefixes[e]
<1>1. IsSeq(p) /\ IsSeq(q) /\ IsSeq(v) /\ IsSeq(w) /\ p \o v = q \o w
  BY DEF At, Symbol
<1>2. a = e
  <2>1. IsPrefix(p, q) \/ IsPrefix(q, p)
    <3> HIDE DEF p, q
    <3> QED  BY <1>1, PrefixesMeet
  <2> QED  BY <2>1 DEF At
<1>3. v = w
  <2>1. p = q
    BY <1>2
  <2> HIDE DEF p, q
  <2> QED  BY <1>1, <2>1, PrefixesMeet
<1> QED  BY <1>2, <1>3

\* The project's name and those of its interfaces
AllPrefixes(m) == <<Safe[m.name]>> \o [i \in DOMAIN m.ifaces |-> Safe[m.ifaces[i].name]]

\* The prefixes are those of the project and of its interfaces.
LEMMA PrefixFacts ==
    ASSUME NEW m, m.name \in DOMAIN Safe, IsSeq(m.ifaces),
           \A i \in DOMAIN m.ifaces : m.ifaces[i].name \in DOMAIN Safe
    PROVE  /\ 1 \in DOMAIN AllPrefixes(m) /\ AllPrefixes(m)[1] = Safe[m.name]
           /\ \A i \in DOMAIN m.ifaces : /\ i + 1 \in DOMAIN AllPrefixes(m) /\ i + 1 # 1
                                         /\ AllPrefixes(m)[i + 1] = Safe[m.ifaces[i].name]
           /\ \A a \in DOMAIN AllPrefixes(m) : IsName(AllPrefixes(m)[a])
<1> DEFINE one == <<Safe[m.name]>>
           rest == [i \in DOMAIN m.ifaces |-> Safe[m.ifaces[i].name]]
           n == Len(m.ifaces)
<1>1. IsSeq(one) /\ Len(one) = 1 /\ one[1] = Safe[m.name]
  BY OneIsSeq
<1>2. IsSeq(rest) /\ Len(rest) = n /\ DOMAIN m.ifaces = 1 .. n /\ n \in Nat
      /\ \A i \in 1 .. n : rest[i] = Safe[m.ifaces[i].name]
  BY BlocksAre, SeqFacts
<1>3. \A name \in DOMAIN Safe : IsName(Safe[name])
  BY SafeAssumption, WordsAreNames
<1>4. AllPrefixes(m) = one \o rest
  BY DEF AllPrefixes
<1> HIDE DEF one, rest, n
<1>5. /\ IsSeq(one \o rest) /\ Len(one \o rest) = n + 1
      /\ (one \o rest)[1] = one[1]
      /\ \A i \in 1 .. n : (one \o rest)[i + 1] = rest[i]
  <2>1. ASSUME NEW s, IsSeq(s)
        PROVE  /\ IsSeq(s \o rest) /\ Len(s \o rest) = Len(s) + Len(rest)
               /\ \A i \in 1 .. Len(s) : (s \o rest)[i] = s[i]
               /\ \A i \in 1 .. Len(rest) : (s \o rest)[Len(s) + i] = rest[i]
    BY <1>2, <2>1, ConcatFacts
  <2>2. /\ IsSeq(one \o rest) /\ Len(one \o rest) = Len(one) + Len(rest)
        /\ \A i \in 1 .. Len(one) : (one \o rest)[i] = one[i]
        /\ \A i \in 1 .. Len(rest) : (one \o rest)[Len(one) + i] = rest[i]
    BY <1>1, <2>1
  <2>3. 1 \in 1 .. Len(one) /\ \A i \in 1 .. n : Len(one) + i = i + 1
    BY <1>1, <1>2
  <2> QED  BY <1>1, <1>2, <2>2, <2>3
<1>6. DOMAIN (one \o rest) = 1 .. n + 1
  BY <1>5, SeqFacts
<1>7. \A a \in 1 .. n + 1 : a = 1 \/ \E i \in 1 .. n : a = i + 1
  <2>1. ASSUME NEW a \in 1 .. n + 1, a # 1 PROVE a - 1 \in 1 .. n /\ a = (a - 1) + 1
    BY <1>2, <2>1
  <2> QED  BY <2>1
<1>8. \A i \in 1 .. n : m.ifaces[i].name \in DOMAIN Safe
  BY <1>2
<1>9. \A i \in 1 .. n : i + 1 \in 1 .. n + 1 /\ i + 1 # 1
  BY <1>2
<1>10. 1 \in 1 .. n + 1
  BY <1>2
<1> DEFINE px == one \o rest
<1> HIDE DEF px
<1>11. 1 \in DOMAIN px /\ px[1] = Safe[m.name]
  BY <1>1, <1>5, <1>6, <1>10 DEF px
<1>12. ASSUME NEW i \in 1 .. n
       PROVE  i + 1 \in DOMAIN px /\ i + 1 # 1 /\ px[i + 1] = Safe[m.ifaces[i].name]
  BY <1>2, <1>5, <1>6, <1>9 DEF px
<1>13. ASSUME NEW a \in DOMAIN px PROVE IsName(px[a])
  <2>1. a = 1 \/ \E i \in 1 .. n : a = i + 1
    BY <1>6, <1>7 DEF px
  <2>2. CASE a = 1
    BY <1>3, <1>11, <2>2
  <2>3. CASE \E i \in 1 .. n : a = i + 1
    <3>1. PICK i \in 1 .. n : a = i + 1
      BY <2>3
    <3> QED  BY <1>3, <1>8, <1>12, <3>1
  <2> QED  BY <2>1, <2>2, <2>3
<1>14. AllPrefixes(m) = px /\ DOMAIN m.ifaces = 1 .. n
  BY <1>2, <1>4 DEF px
<1> QED  BY <1>11, <1>12, <1>13, <1>14

\* A prefix other than "idrisiser" with a word behind makes none of the names that
\* have no prefix.
LEMMA PrefixedWords ==
    ASSUME NEW p, NEW w, IsName(p), IsName(w), p # <<"idrisiser">>
    PROVE  p \o w # <<"initialized">> /\ p \o w # <<"idrisiser", "version">>
<1> DEFINE s == p \o w
<1>1. Len(p) \in Nat /\ Len(p) # 0 /\ Len(w) \in Nat /\ Len(w) # 0 /\ IsSeq(p) /\ IsSeq(w)
  BY SeqFacts DEF IsName
<1>2. Len(s) = Len(p) + Len(w) /\ s[1] = p[1]
  <2>1. 1 \in 1 .. Len(p)
    BY <1>1
  <2> QED  BY <1>1, <2>1, ConcatFacts
<1> HIDE DEF s
<1>3. s # <<"initialized">>
  <2>1. Len(<<"initialized">>) = 1
    OBVIOUS
  <2>2. Len(s) # 1
    BY <1>1, <1>2
  <2> QED  BY <2>1, <2>2, Zenon
<1>4. ASSUME s = <<"idrisiser", "version">> PROVE FALSE
  <2>1. Len(s) = 2 /\ s[1] = "idrisiser"
    <3>1. Len(<<"idrisiser", "version">>) = 2 /\ <<"idrisiser", "version">>[1] = "idrisiser"
      OBVIOUS
    <3> QED  BY <1>4, <3>1, Zenon
  <2>2. Len(p) = 1 /\ p[1] = "idrisiser"
    <3>1. \A i, j \in Nat : i # 0 /\ j # 0 /\ i + j = 2 => i = 1
      OBVIOUS
    <3> QED  BY <1>1, <1>2, <2>1, <3>1, Zenon
  <2>3. p \in Seq(ToSet(p))
    BY <1>1 DEF IsSeq
  <2> QED  BY <2>2, <2>3
<1> QED  BY <1>3, <1>4 DEF s

\* In a well-named project the symbols of the bridge are different ones, and what it
\* calls is there.
LEMMA OnceFollows ==
    ASSUME BridgeIs(manifest, functions, bridge), ContractList(functions), WellNamedProject,
           manifest.name \in DOMAIN Safe, IsSeq(manifest.ifaces),
           \A i \in DOMAIN manifest.ifaces : manifest.ifaces[i].name \in DOMAIN Safe
    PROVE  /\ \A i, j \in DOMAIN bridge : bridge[i].symbol = bridge[j].symbol => i = j
           /\ \A d \in ToSet(bridge) :
                 d.calls # Nothing => \E x \in ToSet(bridge) : x.kind = "extern" /\ x.symbol = d.calls
<1> DEFINE fs == functions
           N == Len(fs)
           b == bridge
           px == AllPrefixes(manifest)
           init == <<"verified", "init">>
           shutdown == <<"verified", "shutdown">>
<1>1. /\ 1 \in DOMAIN px /\ px[1] = Safe[manifest.name]
      /\ \A i \in DOMAIN manifest.ifaces : /\ i + 1 \in DOMAIN px /\ i + 1 # 1
                                           /\ px[i + 1] = Safe[manifest.ifaces[i].name]
      /\ \A a \in DOMAIN px : IsName(px[a])
  BY PrefixFacts
<1>2. /\ \A a, e \in DOMAIN px : a # e => ~IsPrefix(px[a], px[e])
      /\ \A a \in DOMAIN px : px[a] # <<"idrisiser">>
      /\ DistinctNames(fs)
      /\ \A c \in ToSet(fs) : c.name \notin {init, shutdown}
  BY DEF WellNamedProject, AllPrefixes, ifaces
<1> HIDE DEF px
<1>3. /\ N \in Nat /\ DOMAIN fs = 1 .. N /\ \A k \in 1 .. N : fs[k] \in ToSet(fs) /\ IsName(fs[k].name)
  BY SeqFacts DEF ContractList, IsContract
<1>4. ASSUME NEW k \in 1 .. N
      PROVE  /\ \E a \in DOMAIN px : a # 1 /\ At(px, b[2 * k - 1], a, fs[k].name)
             /\ At(px, b[2 * k], 1, fs[k].name)
             /\ b[2 * k].calls = b[2 * k - 1].symbol
             /\ b[2 * k - 1].kind = "extern" /\ b[2 * k - 1].calls = Nothing
  <2>1. PICK i \in DOMAIN manifest.ifaces :
           /\ b[2 * k - 1] = Extern(manifest.ifaces[i], fs[k])
           /\ b[2 * k] = BridgeFunction(manifest, manifest.ifaces[i], fs[k])
    BY DEF BridgeIs
  <2>2. /\ b[2 * k - 1].symbol = Symbol(px[i + 1], fs[k].name) /\ b[2 * k].symbol = Symbol(px[1], fs[k].name)
        /\ b[2 * k].calls = b[2 * k - 1].symbol /\ b[2 * k - 1].kind = "extern" /\ b[2 * k - 1].calls = Nothing
    <3>1. ASSUME NEW x, x = Extern(manifest.ifaces[i], fs[k]),
                 NEW y, y = BridgeFunction(manifest, manifest.ifaces[i], fs[k])
          PROVE  /\ x.symbol = Symbol(Safe[manifest.ifaces[i].name], fs[k].name)
                 /\ y.symbol = Symbol(Safe[manifest.name], fs[k].name)
                 /\ y.calls = x.symbol /\ x.kind = "extern" /\ x.calls = Nothing
      BY <3>1, SymbolFacts
    <3>2. px[i + 1] = Safe[manifest.ifaces[i].name] /\ px[1] = Safe[manifest.name]
      BY <1>1
    <3> QED  BY <2>1, <3>1, <3>2
  <2>3. IsSeq(fs[k].name)
    BY <1>3 DEF IsName
  <2>4. i + 1 \in DOMAIN px /\ i + 1 # 1
    BY <1>1
  <2> HIDE DEF b, fs
  <2> QED  BY <1>1, <2>2, <2>3, <2>4 DEF At
<1>5. /\ At(px, b[2 * N + 2], 1, init) /\ At(px, b[2 * N + 3], 1, shutdown) /\ init # shutdown
      /\ b[2 * N + 1].symbol = <<"initialized">> /\ b[2 * N + 4].symbol = <<"idrisiser", "version">>
      /\ \A p \in {2 * N + 1, 2 * N + 2, 2 * N + 3, 2 * N + 4} : b[p].calls = Nothing
  <2>1. IsSeq(init) /\ IsSeq(shutdown) /\ init # shutdown
    BY TwoIsSeq
  <2> HIDE DEF init, shutdown
  <2>2. /\ b[2 * N + 2].symbol = Symbol(px[1], init) /\ b[2 * N + 3].symbol = Symbol(px[1], shutdown)
        /\ b[2 * N + 1].symbol = <<"initialized">> /\ b[2 * N + 4].symbol = <<"idrisiser", "version">>
        /\ \A p \in {2 * N + 1, 2 * N + 2, 2 * N + 3, 2 * N + 4} : b[p].calls = Nothing
    BY <1>1, OwnDeclarations DEF init, shutdown
  <2> QED  BY <1>1, <2>1, <2>2 DEF At
<1>6. ASSUME NEW d, NEW a, NEW word, At(px, d, a, word), word # <<>>
      PROVE  d.symbol # <<"initialized">> /\ d.symbol # <<"idrisiser", "version">>
  <2>1. IsName(px[a]) /\ IsName(word) /\ px[a] # <<"idrisiser">> /\ d.symbol = px[a] \o word
    BY <1>1, <1>2, <1>6 DEF At, IsName, Symbol
  <2> QED  BY <2>1, PrefixedWords
<1> DEFINE Holds(p, a, word) ==
              /\ At(px, b[p], a, word) /\ word # <<>>
              /\ \/ \E k \in 1 .. N : p = 2 * k - 1 /\ a # 1 /\ word = fs[k].name
                 \/ \E k \in 1 .. N : p = 2 * k /\ a = 1 /\ word = fs[k].name
                 \/ p = 2 * N + 2 /\ a = 1 /\ word = init
                 \/ p = 2 * N + 3 /\ a = 1 /\ word = shutdown
<1>7. ASSUME NEW p \in DOMAIN b
      PROVE  p = 2 * N + 1 \/ p = 2 * N + 4 \/ \E a, word : Holds(p, a, word)
  <2>1. CASE \E k \in 1 .. N : p = 2 * k - 1
    <3>1. PICK k \in 1 .. N : p = 2 * k - 1
      BY <2>1
    <3>2. PICK a \in DOMAIN px : a # 1 /\ At(px, b[p], a, fs[k].name)
      BY <1>4, <3>1
    <3>3. Holds(p, a, fs[k].name)
      BY <1>3, <3>1, <3>2 DEF IsName
    <3> QED  BY <3>3
  <2>2. CASE \E k \in 1 .. N : p = 2 * k
    <3>1. PICK k \in 1 .. N : p = 2 * k
      BY <2>2
    <3>2. At(px, b[p], 1, fs[k].name)
      BY <1>4, <3>1
    <3>3. Holds(p, 1, fs[k].name)
      BY <1>3, <3>1, <3>2 DEF IsName
    <3> QED  BY <3>3
  <2>3. init # <<>> /\ shutdown # <<>>
    OBVIOUS
  <2>4. CASE p = 2 * N + 2
    <3>1. Holds(p, 1, init)
      BY <1>5, <2>3, <2>4
    <3> QED  BY <3>1
  <2>5. CASE p = 2 * N + 3
    <3>1. Holds(p, 1, shutdown)
      BY <1>5, <2>3, <2>5
    <3> QED  BY <3>1
  <2> QED  BY <2>1, <2>2, <2>4, <2>5, Places
<1> HIDE DEF init, shutdown
<1>8. \A k, l \in 1 .. N : fs[k].name = fs[l].name => k = l
  BY <1>2, <1>3 DEF DistinctNames
<1>9. \A k \in 1 .. N : fs[k].name \notin {init, shutdown}
  BY <1>2, <1>3
<1>15. N \in Nat /\ init # shutdown
  BY <1>3, <1>5
<1> HIDE DEF fs, b, N
<1>10. ASSUME NEW p, NEW q, NEW a, NEW word, Holds(p, a, word), Holds(q, a, word) PROVE p = q
  <2>1. CASE a # 1
    BY <1>8, <1>15, <1>10, <2>1
  <2>2. CASE word \in {init, shutdown}
    BY <1>9, <1>15, <1>10, <2>1, <2>2
  <2>3. CASE a = 1 /\ word \notin {init, shutdown}
    BY <1>8, <1>15, <1>10, <2>3
  <2> QED  BY <2>1, <2>2, <2>3
<1>11. ASSUME NEW p, NEW a, NEW word, Holds(p, a, word)
       PROVE  b[p].symbol # <<"initialized">> /\ b[p].symbol # <<"idrisiser", "version">>
  BY <1>6, <1>11
<1>12. ASSUME NEW p, NEW q, NEW a, NEW e, NEW v, NEW w, Holds(p, a, v), Holds(q, e, w), b[p].symbol = b[q].symbol
       PROVE  p = q
  <2>1. a = e /\ v = w
    <3>1. At(px, b[p], a, v) /\ At(px, b[q], e, w)
      BY <1>12
    <3>2. \A i \in DOMAIN px : IsSeq(px[i])
      BY <1>1 DEF IsName
    <3> HIDE DEF Holds
    <3> QED  BY <1>2, <1>12, <3>1, <3>2, SameSymbol
  <2> HIDE DEF Holds
  <2> QED  BY <1>10, <1>12, <2>1
<1> HIDE DEF Holds
<1>13. ASSUME NEW p \in DOMAIN b, NEW q \in DOMAIN b, b[p].symbol = b[q].symbol PROVE p = q
  <2>1. <<"initialized">> # <<"idrisiser", "version">>
    OBVIOUS
  <2> DEFINE s1 == <<"initialized">>
             s4 == <<"idrisiser", "version">>
  <2>2. s1 # s4 /\ b[2 * N + 1].symbol = s1 /\ b[2 * N + 4].symbol = s4
    BY <1>5, <2>1
  <2>3. ASSUME NEW r, NEW a, NEW word, Holds(r, a, word) PROVE b[r].symbol # s1 /\ b[r].symbol # s4
    BY <1>11, <2>3
  <2> HIDE DEF s1, s4
  <2>4. /\ p = 2 * N + 1 \/ p = 2 * N + 4 \/ \E a, word : Holds(p, a, word)
        /\ q = 2 * N + 1 \/ q = 2 * N + 4 \/ \E a, word : Holds(q, a, word)
    BY <1>7
  <2>5. CASE p = 2 * N + 1
    BY <1>13, <2>2, <2>3, <2>4, <2>5
  <2>6. CASE p = 2 * N + 4
    BY <1>13, <2>2, <2>3, <2>4, <2>6
  <2>7. CASE \E a, word : Holds(p, a, word)
    <3>1. q # 2 * N + 1 /\ q # 2 * N + 4
      BY <1>13, <2>2, <2>3, <2>7
    <3> QED  BY <1>12, <1>13, <2>4, <2>7, <3>1
  <2> QED  BY <2>4, <2>5, <2>6, <2>7
<1>14. ASSUME NEW d \in ToSet(b), d.calls # Nothing
       PROVE  \E x \in ToSet(b) : x.kind = "extern" /\ x.symbol = d.calls
  <2>1. IsSeq(b) /\ DOMAIN b = 1 .. Len(b) /\ Len(b) = 2 * N + 4
    <3>1. IsSeq(b) /\ Len(b) = 2 * N + 4
      BY DEF BridgeIs, b, fs, N
    <3> QED  BY <3>1, SeqFacts
  <2>2. PICK p \in DOMAIN b : d = b[p]
    BY <2>1, SeqFacts
  <2>3. PICK k \in 1 .. N : p = 2 * k
    <3>1. p \notin {2 * N + 1, 2 * N + 2, 2 * N + 3, 2 * N + 4}
      BY <1>5, <1>14, <2>2
    <3>2. ~ \E k \in 1 .. N : p = 2 * k - 1
      BY <1>4, <1>14, <2>2
    <3>3. \/ \E k \in 1 .. N : p = 2 * k - 1
          \/ \E k \in 1 .. N : p = 2 * k
          \/ p \in {2 * N + 1, 2 * N + 2, 2 * N + 3, 2 * N + 4}
      BY Places DEF fs, b, N
    <3> QED  BY <3>1, <3>2, <3>3
  <2>4. 2 * k - 1 \in 1 .. Len(b)
    BY <1>3, <2>1
  <2>5. b[2 * k - 1] \in ToSet(b)
    BY <2>1, <2>4, SeqFacts
  <2> QED  BY <1>4, <2>2, <2>3, <2>5
<1> QED  BY <1>13, <1>14 DEF b
\* What the module of an interface declares has that interface's prefix, and what is
\* exported has the project's or none.
LEMMA ExportsDiffer ==
    ASSUME BridgeIs(manifest, functions, bridge), ContractList(functions), WellNamedProject,
           manifest.name \in DOMAIN Safe, IsSeq(manifest.ifaces),
           \A i \in DOMAIN manifest.ifaces : manifest.ifaces[i].name \in DOMAIN Safe,
           NEW i \in DOMAIN manifest.ifaces, NEW c, IsName(c.name),
           NEW d, d.symbol = Symbol(Safe[manifest.ifaces[i].name], c.name),
           NEW p \in DOMAIN bridge, bridge[p].kind = "export"
    PROVE  bridge[p].symbol # d.symbol
<1> DEFINE fs == functions
           N == Len(fs)
           b == bridge
           px == AllPrefixes(manifest)
           init == <<"verified", "init">>
           shutdown == <<"verified", "shutdown">>
<1>1. /\ 1 \in DOMAIN px /\ px[1] = Safe[manifest.name]
      /\ i + 1 \in DOMAIN px /\ i + 1 # 1 /\ px[i + 1] = Safe[manifest.ifaces[i].name]
      /\ \A a \in DOMAIN px : IsName(px[a])
  BY PrefixFacts
<1>2. /\ \A a, e \in DOMAIN px : a # e => ~IsPrefix(px[a], px[e])
      /\ px[i + 1] # <<"idrisiser">>
  BY <1>1 DEF WellNamedProject, AllPrefixes, ifaces
<1> HIDE DEF px
<1>3. At(px, d, i + 1, c.name)
  BY <1>1 DEF At, IsName
<1>4. ASSUME NEW e, NEW word, At(px, e, 1, word) PROVE e.symbol # d.symbol
  <2>1. \A a \in DOMAIN px : IsSeq(px[a])
    BY <1>1 DEF IsName
  <2> QED  BY <1>1, <1>2, <1>3, <1>4, <2>1, SameSymbol
<1>5. d.symbol # <<"initialized">> /\ d.symbol # <<"idrisiser", "version">>
  BY <1>1, <1>2, PrefixedWords DEF Symbol
<1>6. CASE \E k \in 1 .. N : p = 2 * k - 1
  <2>1. PICK k \in 1 .. N : p = 2 * k - 1
    BY <1>6
  <2>2. PICK n \in DOMAIN manifest.ifaces : b[p] = Extern(manifest.ifaces[n], fs[k])
    BY <2>1 DEF BridgeIs
  <2>3. b[p].kind = "extern"
    BY <2>2 DEF Extern, Declare
  <2> QED  BY <2>3
<1>7. CASE \E k \in 1 .. N : p = 2 * k
  <2>1. PICK k \in 1 .. N : p = 2 * k
    BY <1>7
  <2>2. PICK n \in DOMAIN manifest.ifaces : b[p] = BridgeFunction(manifest, manifest.ifaces[n], fs[k])
    BY <2>1 DEF BridgeIs
  <2>3. b[p].symbol = Symbol(px[1], fs[k].name)
    BY <1>1, <2>2 DEF BridgeFunction, Declare
  <2>4. IsSeq(fs[k].name)
    BY SeqFacts DEF ContractList, IsContract, IsName
  <2> HIDE DEF b, fs
  <2>5. At(px, b[p], 1, fs[k].name)
    BY <1>1, <2>3, <2>4 DEF At
  <2> QED  BY <1>4, <2>5 DEF b
<1>8. CASE p \in {2 * N + 1, 2 * N + 2, 2 * N + 3, 2 * N + 4}
  <2>1. IsSeq(init) /\ IsSeq(shutdown)
    BY TwoIsSeq
  <2> HIDE DEF init, shutdown
  <2>2. /\ b[2 * N + 2].symbol = Symbol(px[1], init) /\ b[2 * N + 3].symbol = Symbol(px[1], shutdown)
        /\ b[2 * N + 1].symbol = <<"initialized">> /\ b[2 * N + 4].symbol = <<"idrisiser", "version">>
    BY <1>1, OwnDeclarations DEF init, shutdown
  <2>3. At(px, b[2 * N + 2], 1, init) /\ At(px, b[2 * N + 3], 1, shutdown)
    BY <1>1, <2>1, <2>2 DEF At
  <2>4. b[2 * N + 2].symbol # d.symbol /\ b[2 * N + 3].symbol # d.symbol
    BY <1>4, <2>3
  <2> QED  BY <1>5, <1>8, <2>2, <2>4
<1> QED  BY <1>6, <1>7, <1>8, Places

--------------------------------------------------------------------------------
\* The module of the i-th interface
ModuleOf(i) == [items   |-> IdrisModule(manifest, contracts[i]),
                foreign |-> ForeignDecls(ifaces[i], contracts[i])]

\* The inductive invariant.  Contracts: as many lists as interfaces parsed, each
\* honouring its own
ContractsInv ==
    /\ IsSeq(contracts) /\ Len(contracts) <= Len(ifaces)
    /\ \A i \in 1 .. Len(contracts) : Honours(contracts[i], ifaces[i])

\* Modules: only when all are parsed, and each made of the contracts of the same place
ModulesInv ==
    /\ IsSeq(modules) /\ Len(modules) <= Len(contracts)
    /\ modules # <<>> => Len(contracts) = Len(ifaces)
    /\ \A i \in 1 .. Len(modules) : modules[i] = ModuleOf(i)

\* Panics: a run that ended so has a source left to parse
PanicInv == aborted \in BOOLEAN /\ (aborted => Len(contracts) < Len(ifaces))

\* Bridge: last of all, and made of all the contracts
BridgeInv ==
    bridge # NotWritten =>
        /\ Len(contracts) = Len(ifaces) /\ Len(modules) = Len(ifaces)
        /\ bridge = Bridge(manifest, contracts)

\* The parts of the inductive invariant, together
IInv == manifest \in Manifests /\ ContractsInv /\ PanicInv /\ ModulesInv /\ BridgeInv

\* What a validated manifest has: sanitised names for all its interfaces
LEMMA ManifestFacts ==
    ASSUME manifest \in Manifests
    PROVE  /\ manifest.name \in DOMAIN Safe
           /\ IsSeq(ifaces) /\ Len(ifaces) \in Nat /\ DOMAIN ifaces = 1 .. Len(ifaces)
           /\ \A i \in 1 .. Len(ifaces) : ifaces[i] \in Interface /\ ifaces[i].name \in DOMAIN Safe
<1>1. manifest.name \in DOMAIN Safe /\ ifaces \in Seq(Interface)
  BY ManifestsAssumption DEF Manifest, ifaces
<1>2. \A i \in 1 .. Len(ifaces) : ifaces[i] \in Interface
  BY <1>1, ElementInSeq
<1>3. \A iface \in Interface : iface.name \in DOMAIN Safe
  BY DEF Interface
<1> QED  BY <1>1, <1>2, <1>3, SeqIsSeq, SeqFacts

\* It holds of a manifest that has just been loaded.
LEMMA InitInv == Init => IInv
<1> SUFFICES ASSUME Init PROVE IInv
  OBVIOUS
<1>1. IsSeq(<<>>) /\ Len(<<>>) = 0
  BY EmptyIsSeq
<1>2. Len(ifaces) \in Nat
  BY ManifestFacts DEF Init
<1>3. PanicInv
  BY Zenon DEF Init, PanicInv
<1> QED  BY <1>1, <1>2, <1>3 DEF Init, IInv, ContractsInv, ModulesInv, BridgeInv, NotWritten

\* Parsing one more source, writing one more module and writing the bridge keep it.
LEMMA NextInv == IInv /\ [Next]_vars => IInv'
<1> SUFFICES ASSUME IInv, [Next]_vars PROVE IInv'
  OBVIOUS
<1>1. /\ IsSeq(ifaces) /\ Len(ifaces) \in Nat
      /\ \A i \in 1 .. Len(ifaces) : ifaces[i] \in Interface
  BY ManifestFacts DEF IInv
<1>2. /\ IsSeq(contracts) /\ Len(contracts) \in Nat /\ IsSeq(modules) /\ Len(modules) \in Nat
      /\ (contracts = <<>> <=> Len(contracts) = 0) /\ (modules = <<>> <=> Len(modules) = 0)
  BY SeqFacts DEF IInv, ContractsInv, ModulesInv
<1>3. CASE ParseInterface
  <2> DEFINE n == Len(contracts) + 1
             iface == ifaces[n]
  <2>1. n \in 1 .. Len(ifaces) /\ iface \in Interface
    BY <1>1, <1>2, <1>3 DEF ParseInterface
  <2>2. PICK text \in Texts[iface.format] \cup {<<>>} :
           ~Panics(iface, text) /\ contracts' = Append(contracts, parse_interface(iface, text))
    BY <1>3 DEF ParseInterface
  <2>3. text \in Seq(Line)
    <3>1. iface.format \in Formats
      BY <2>1, InterfaceFacts
    <3>2. Texts[iface.format] \subseteq Seq(Line)
      BY <3>1, TextsAssumption
    <3>3. <<>> \in Seq(Line)
      OBVIOUS
    <3>4. text \in Texts[iface.format] \/ text = <<>>
      OBVIOUS
    <3> HIDE DEF iface
    <3> QED  BY <3>2, <3>3, <3>4
  <2>4. Honours(parse_interface(iface, text), iface)
    BY <2>1, <2>2, <2>3, ParsedHonours
  <2>5. manifest' = manifest /\ modules' = modules /\ bridge' = bridge /\ ifaces' = ifaces
    BY <1>3 DEF ParseInterface, ifaces
  <2>6. /\ IsSeq(contracts') /\ Len(contracts') = n /\ contracts'[n] = parse_interface(iface, text)
        /\ \A i \in 1 .. Len(contracts) : contracts'[i] = contracts[i]
    <3> DEFINE x == parse_interface(iface, text)
    <3>2. contracts' = Append(contracts, x)
      BY <2>2
    <3> HIDE DEF x, iface
    <3>3. Appended(contracts, x, contracts')
      BY <1>2, <3>2, AppendFacts
    <3>4. /\ IsSeq(contracts') /\ Len(contracts') = n /\ contracts'[n] = x
          /\ \A i \in 1 .. Len(contracts) : contracts'[i] = contracts[i]
      BY <3>3 DEF Appended
    <3> QED  BY <3>4 DEF x, iface
  <2>7. modules = <<>> /\ bridge = NotWritten
    BY <1>1, <1>2, <1>3 DEF ParseInterface, IInv, ModulesInv, BridgeInv
  <2>8. \A i \in 1 .. n : Honours(contracts'[i], ifaces[i])
    <3>1. \A i \in 1 .. n : i \in 1 .. Len(contracts) \/ i = n
      BY <1>2
    <3> HIDE DEF n
    <3> QED  BY <2>4, <2>6, <3>1 DEF IInv, ContractsInv, n
  <2>9. ContractsInv'
    BY <2>1, <2>5, <2>6, <2>8 DEF ContractsInv
  <2>10. ModulesInv'
    BY <1>2, <2>1, <2>5, <2>6, <2>7 DEF ModulesInv
  <2>11. BridgeInv'
    BY <2>5, <2>7 DEF BridgeInv
  <2>12. PanicInv'
    BY <1>3 DEF ParseInterface, IInv, PanicInv
  <2> QED  BY <2>5, <2>9, <2>10, <2>11, <2>12 DEF IInv
<1>4. CASE WriteModule
  <2> DEFINE n == Len(modules) + 1
  <2>1. /\ manifest' = manifest /\ contracts' = contracts /\ bridge' = bridge /\ ifaces' = ifaces
        /\ modules' = Append(modules, ModuleOf(n))
        /\ Len(contracts) = Len(ifaces) /\ Len(modules) < Len(ifaces)
    BY <1>4 DEF WriteModule, ifaces, ModuleOf
  <2>2. \A i : ModuleOf(i)' = ModuleOf(i)
    BY <2>1 DEF ModuleOf
  <2>3. /\ IsSeq(modules') /\ Len(modules') = n /\ modules'[n] = ModuleOf(n)
        /\ \A i \in 1 .. Len(modules) : modules'[i] = modules[i]
    <3> DEFINE x == ModuleOf(n)
    <3>2. modules' = Append(modules, x)
      BY <2>1
    <3> HIDE DEF x
    <3>3. Appended(modules, x, modules')
      BY <1>2, <3>2, AppendFacts
    <3>4. /\ IsSeq(modules') /\ Len(modules') = n /\ modules'[n] = x
          /\ \A i \in 1 .. Len(modules) : modules'[i] = modules[i]
      BY <3>3 DEF Appended
    <3> QED  BY <3>4 DEF x
  <2>4. bridge = NotWritten
    BY <1>2, <2>1 DEF IInv, BridgeInv
  <2>5. \A i \in 1 .. n : modules'[i] = ModuleOf(i)
    <3>1. \A i \in 1 .. n : i \in 1 .. Len(modules) \/ i = n
      BY <1>2
    <3> HIDE DEF n
    <3> QED  BY <2>3, <3>1 DEF IInv, ModulesInv
  <2>6. ContractsInv'
    BY <2>1 DEF IInv, ContractsInv
  <2>7. ModulesInv'
    BY <1>1, <1>2, <2>1, <2>2, <2>3, <2>5 DEF ModulesInv
  <2>8. BridgeInv'
    BY <2>1, <2>4 DEF BridgeInv
  <2>9. PanicInv'
    BY <1>4 DEF WriteModule, IInv, PanicInv
  <2> QED  BY <2>1, <2>6, <2>7, <2>8, <2>9 DEF IInv
<1>5. CASE WriteBridge
  <2>1. /\ manifest' = manifest /\ contracts' = contracts /\ modules' = modules /\ ifaces' = ifaces
        /\ bridge' = Bridge(manifest, contracts) /\ Len(contracts) = Len(ifaces) /\ Len(modules) = Len(ifaces)
    BY <1>5 DEF WriteBridge, ifaces
  <2>2. \A i : ModuleOf(i)' = ModuleOf(i)
    BY <2>1 DEF ModuleOf
  <2>3. PanicInv'
    BY <1>5 DEF WriteBridge, IInv, PanicInv
  <2> QED  BY <2>1, <2>2, <2>3 DEF IInv, ContractsInv, ModulesInv, BridgeInv
<1>6. CASE ParsePanics \/ UNCHANGED vars
  <2>1. /\ manifest' = manifest /\ ifaces' = ifaces
        /\ contracts' = contracts /\ modules' = modules /\ bridge' = bridge
    BY <1>6 DEF ParsePanics, vars, ifaces
  <2>2. \A i : ModuleOf(i)' = ModuleOf(i)
    BY <2>1 DEF ModuleOf
  <2>3. PanicInv'
    <3>1. CASE ParsePanics
      <4>1. aborted' = TRUE /\ Len(contracts) < Len(ifaces)
        BY <3>1 DEF ParsePanics
      <4> QED  BY <2>1, <4>1, Zenon DEF PanicInv
    <3>2. CASE UNCHANGED vars
      <4>1. aborted' = aborted
        BY <3>2 DEF vars
      <4> QED  BY <2>1, <4>1, Zenon DEF IInv, PanicInv
    <3> QED  BY <1>6, <3>1, <3>2
  <2> QED  BY <2>1, <2>2, <2>3 DEF IInv, ContractsInv, ModulesInv, BridgeInv
<1> QED  BY <1>3, <1>4, <1>5, <1>6 DEF Next

(* Of any manifests and any sources: what is parsed honours the manifest, what *)
(* is written is made of what was parsed, no artifact comes before all parsing *)
(* is done, and a parser panics before that.  (generate_all,                   *)
(* codegen/mod.rs:27-58.)                                                      *)
THEOREM Invariant == Spec => []IInv
  BY InitInv, NextInv, PTL DEF Spec

\* All lists of contracts hold contracts.
LEMMA AllContracts ==
    ASSUME IInv
    PROVE  /\ \A i \in 1 .. Len(contracts) : ContractList(contracts[i]) /\ IsSeq(contracts[i])
           /\ DOMAIN contracts = 1 .. Len(contracts) /\ Len(contracts) \in Nat /\ IsSeq(contracts)
           /\ ContractList(functions)
<1>1. /\ \A i \in 1 .. Len(contracts) : ContractList(contracts[i])
      /\ IsSeq(contracts) /\ DOMAIN contracts = 1 .. Len(contracts) /\ Len(contracts) \in Nat
  BY SeqFacts DEF IInv, ContractsInv, Honours
<1>2. ContractList(functions)
  BY <1>1, FlattenContracts DEF functions
<1> QED  BY <1>1, <1>2 DEF ContractList

(* Contracts have names, modules are made of contracts, and the bridge comes   *)
(* last.  (codegen/mod.rs:27-58.)                                              *)
THEOREM Types == Spec => []TypeOK
<1>1. IInv => TypeOK
  <2> SUFFICES ASSUME IInv PROVE TypeOK
    OBVIOUS
  <2>1. ASSUME NEW i \in DOMAIN contracts, NEW c \in ToSet(contracts[i]) PROVE c.name # <<>>
    BY AllContracts DEF ContractList, IsContract, IsName
  <2>2. Len(modules) <= Len(contracts) /\ aborted \in BOOLEAN
    BY DEF IInv, ModulesInv, PanicInv
  <2>3. Len(contracts) <= Len(ifaces) /\ manifest \in Manifests
    BY DEF IInv, ContractsInv
  <2>4. bridge # NotWritten => Len(modules) = Len(ifaces)
    BY DEF IInv, BridgeInv
  <2> QED  BY <2>1, <2>2, <2>3, <2>4 DEF TypeOK
<1> QED  BY <1>1, Invariant, PTL

(* A parser that panics, on whichever line of whichever source, ends a run     *)
(* that has written nothing.  (codegen/mod.rs:33-49, parser.rs:234.)           *)
THEOREM NoArtifactOfAPanic == Spec => []PanicLeavesNoArtifact
<1>1. IInv => PanicLeavesNoArtifact
  <2> SUFFICES ASSUME IInv PROVE PanicLeavesNoArtifact
    OBVIOUS
  <2>1. modules # <<>> \/ bridge # NotWritten => Len(contracts) = Len(ifaces)
    BY DEF IInv, ModulesInv, BridgeInv
  <2>2. Len(contracts) \in Nat /\ Len(ifaces) \in Nat
    BY ManifestFacts, SeqFacts DEF IInv, ContractsInv
  <2>3. aborted => Len(contracts) # Len(ifaces)
    BY <2>2 DEF IInv, PanicInv
  <2> QED  BY <2>1, <2>3, Zenon DEF PanicLeavesNoArtifact
<1> QED  BY <1>1, Invariant, PTL

(* Every contract of a run honours the manifest, whatever the sources hold     *)
(* that are parsed to their end.  (codegen/parser.rs:49-98.)                   *)
THEOREM ContractsHonour == Spec => []ContractsHonourManifest
<1>1. IInv => ContractsHonourManifest
  <2> SUFFICES ASSUME IInv, NEW i \in DOMAIN contracts
               PROVE  /\ contracts[i] # <<>>
                      /\ \A c \in ToSet(contracts[i]) : Honoured(c, ifaces[i])
    BY DEF ContractsHonourManifest, Honoured
  <2>1. i \in 1 .. Len(contracts)
    BY AllContracts
  <2> QED  BY <2>1 DEF IInv, ContractsInv, Honours
<1> QED  BY <1>1, Invariant, PTL

\* What is in the i-th module is made of the contracts of the i-th interface.
LEMMA ModuleFacts ==
    ASSUME IInv, NEW i \in DOMAIN modules
    PROVE  /\ ContractList(contracts[i]) /\ modules[i].items = IdrisModule(manifest, contracts[i])
           /\ modules[i].foreign = ForeignDecls(ifaces[i], contracts[i])
<1>1. i \in 1 .. Len(modules) /\ Len(modules) \in Nat /\ Len(modules) <= Len(contracts)
  BY SeqFacts DEF IInv, ModulesInv
<1>2. i \in 1 .. Len(contracts)
  BY <1>1, AllContracts
<1>3. modules[i] = ModuleOf(i)
  BY <1>1 DEF IInv, ModulesInv
<1>4. /\ modules[i].items = IdrisModule(manifest, contracts[i])
      /\ modules[i].foreign = ForeignDecls(ifaces[i], contracts[i])
  BY <1>3 DEF ModuleOf
<1> QED  BY <1>2, <1>4, AllContracts

(* Every module of a run, of however many functions with whatever names and    *)
(* clauses, defines each name before it is used, and none twice that the names *)
(* of its functions do not make ambiguous.  (codegen/idris2.rs:41-47.)         *)
THEOREM DefinedBeforeUse == Spec => []NamesDefinedBeforeUse
<1>1. IInv => NamesDefinedBeforeUse
  <2> SUFFICES ASSUME IInv, NEW i \in DOMAIN modules, NEW items, items = modules[i].items,
                      NEW cs, cs = contracts[i]
               PROVE  /\ \A j \in DOMAIN items :
                            items[j].uses \subseteq UNION {items[k].defines : k \in 1 .. j - 1}
                      /\ \A j, k \in DOMAIN items : j # k =>
                            \A name \in items[j].defines \cap items[k].defines : Ambiguous(cs, name)
    BY DEF NamesDefinedBeforeUse
  <2> DEFINE X == {n \in Names(cs, Forms) : Ambiguous(cs, n)}
  <2>1. ContractList(cs) /\ items = IdrisModule(manifest, cs)
    BY ModuleFacts
  <2>2. DOMAIN cs = 1 .. Len(cs)
    BY <2>1, SeqFacts DEF ContractList
  <2>3. Shared(cs, X)
    <3>1. ASSUME NEW j \in 1 .. Len(cs), NEW f \in Forms PROVE Formed(cs[j], f) \in Names(cs, Forms)
      BY DEF Names, NamesOf
    <3>2. ASSUME NEW j \in 1 .. Len(cs), NEW f \in Forms, NEW k \in 1 .. Len(cs), NEW g \in Forms,
                 j # k \/ f # g, Formed(cs[j], f) = Formed(cs[k], g)
          PROVE  Ambiguous(cs, Formed(cs[j], f))
      BY <2>2, <3>2 DEF Ambiguous
    <3>3. ASSUME NEW j \in 1 .. Len(cs), NEW f \in Forms, Formed(cs[j], f) \in AllProofsComplete \cup Verify
          PROVE  Ambiguous(cs, Formed(cs[j], f))
      BY <2>2, <3>3 DEF Ambiguous
    <3> QED  BY <3>1, <3>2, <3>3 DEF Shared
  <2> HIDE DEF X
  <2>4. WellScoped(items, {}, X)
    BY <2>1, <2>3, ModuleScoped
  <2>5. DOMAIN items = 1 .. Len(items)
    BY <2>4, SeqFacts DEF WellScoped
  <2>6. \A D : {} \cup D = D
    OBVIOUS
  <2>7. \A n \in X : Ambiguous(cs, n)
    BY DEF X
  <2> QED  BY <2>4, <2>5, <2>6, <2>7 DEF WellScoped
<1> QED  BY <1>1, Invariant, PTL

\* A bridge that is written is that of the functions.
LEMMA WrittenBridge ==
    ASSUME IInv, bridge # NotWritten
    PROVE  BridgeIs(manifest, functions, bridge)
<1>1. IsSeq(ifaces) /\ Len(contracts) <= Len(ifaces) /\ bridge = Bridge(manifest, contracts)
  BY ManifestFacts DEF IInv, ContractsInv, BridgeInv
<1> QED  BY <1>1, AllContracts, BridgeShape DEF functions, ifaces

(* Arguments agree on the way from a module through the bridge to the user's   *)
(* function, function by function, for all lists of interfaces: the k-th       *)
(* declaration of the modules, the 2k-th of the bridge and the one before it   *)
(* are of the same contract.  (codegen/idris2.rs:309, zig_bridge.rs:97-133.)   *)
THEOREM Arguments == Spec => []ArgumentsAgree
<1>1. IInv => ArgumentsAgree
  <2> SUFFICES ASSUME IInv, bridge # NotWritten PROVE ArgumentsAgree
    BY DEF ArgumentsAgree
  <2> DEFINE ds == [i \in DOMAIN modules |-> modules[i].foreign]
  <2>1. IsSeq(modules) /\ DOMAIN modules = 1 .. Len(modules) /\ Len(modules) = Len(contracts)
    BY SeqFacts DEF IInv, ModulesInv, BridgeInv
  <2>2. IsSeq(ds) /\ Len(ds) = Len(contracts)
    BY <2>1, BlocksAre
  <2>3. ASSUME NEW i \in 1 .. Len(contracts) PROVE \E iface : ds[i] = ForeignDecls(iface, contracts[i])
    <3>1. i \in DOMAIN modules /\ ds[i] = modules[i].foreign
      BY <2>1
    <3> QED  BY <3>1, ModuleFacts
  <2> HIDE DEF ds
  <2>4. Declares(functions, FlattenSeq(ds))
    BY <2>2, <2>3, AllContracts, AllDeclare DEF functions
  <2> QED  BY <2>4, AllContracts, ArgumentsFollow, WrittenBridge DEF ds
<1> QED  BY <1>1, Invariant, PTL

(* No bridge of a well-named project declares a name twice or calls one it     *)
(* does not declare.  (codegen/zig_bridge.rs:97-205.)                          *)
THEOREM DeclaredOnce == Spec => []BridgeDeclaresOnce
<1>1. IInv => BridgeDeclaresOnce
  <2> SUFFICES ASSUME IInv, bridge # NotWritten, WellNamedProject
               PROVE  /\ \A i, j \in DOMAIN bridge : bridge[i].symbol = bridge[j].symbol => i = j
                      /\ \A d \in ToSet(bridge) :
                            d.calls # Nothing => \E x \in ToSet(bridge) : x.kind = "extern" /\ x.symbol = d.calls
    BY DEF BridgeDeclaresOnce
  <2>1. /\ manifest.name \in DOMAIN Safe /\ IsSeq(manifest.ifaces)
        /\ \A i \in DOMAIN manifest.ifaces : manifest.ifaces[i].name \in DOMAIN Safe
    BY ManifestFacts DEF IInv, ifaces
  <2> QED  BY <2>1, AllContracts, OnceFollows, WrittenBridge
<1> QED  BY <1>1, Invariant, PTL

(* The module asks for a symbol that no bridge of a well-named project exports *)
(* (idris2.rs:318 forms it from the interface, zig_bridge.rs:97 from the       *)
(* project): that ForeignSymbolsExported fails is no accident of the example.  *)
NothingDeclaredIsExported ==
    bridge # NotWritten /\ WellNamedProject =>
        \A i \in DOMAIN modules : \A f \in ToSet(modules[i].foreign) :
            ~ \E b \in ToSet(bridge) : b.kind = "export" /\ b.symbol = f.symbol

(* No %foreign declaration of any generated module is ever answered by the     *)
(* bridge of a well-named project, whatever the manifest and the sources hold: *)
(* every call goes to the user's function, around the bridge.                  *)
THEOREM DeclaredNotExported == Spec => []NothingDeclaredIsExported
<1>1. IInv => NothingDeclaredIsExported
  <2> SUFFICES ASSUME IInv, bridge # NotWritten, WellNamedProject, NEW i \in DOMAIN modules,
                      NEW f \in ToSet(modules[i].foreign),
                      NEW b \in ToSet(bridge), b.kind = "export"
               PROVE  b.symbol # f.symbol
    BY DEF NothingDeclaredIsExported
  <2>1. /\ manifest.name \in DOMAIN Safe /\ IsSeq(manifest.ifaces)
        /\ \A n \in DOMAIN manifest.ifaces : manifest.ifaces[n].name \in DOMAIN Safe
    BY ManifestFacts DEF IInv, ifaces
  <2>2. ContractList(contracts[i]) /\ modules[i].foreign = ForeignDecls(ifaces[i], contracts[i])
    BY ModuleFacts
  <2>3. i \in DOMAIN manifest.ifaces
    <3>1. IsSeq(ifaces) /\ DOMAIN modules = 1 .. Len(modules) /\ Len(modules) = Len(ifaces)
      BY <2>1, SeqFacts DEF IInv, ModulesInv, BridgeInv, ifaces
    <3> QED  BY <3>1, SeqFacts DEF ifaces
  <2>4. PICK j \in DOMAIN contracts[i] : f = Foreign(ifaces[i], contracts[i][j])
    BY <2>2, BlocksAre, SeqFacts DEF ContractList, ForeignDecls
  <2> DEFINE c == contracts[i][j]
  <2>5. IsName(c.name)
    BY <2>2, SeqFacts DEF ContractList, IsContract
  <2>6. f.symbol = Symbol(Safe[manifest.ifaces[i].name], c.name)
    BY <2>4 DEF Foreign, ifaces
  <2>7. IsSeq(bridge)
    BY WrittenBridge DEF BridgeIs
  <2>8. PICK p \in DOMAIN bridge : b = bridge[p]
    BY <2>7, SeqFacts
  <2> HIDE DEF c
  <2> QED  BY <2>1, <2>3, <2>5, <2>6, <2>8, AllContracts, WrittenBridge, ExportsDiffer
<1> QED  BY <1>1, Invariant, PTL
================================================================================
