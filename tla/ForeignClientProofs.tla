-------------------------- MODULE ForeignClientProofs --------------------------
(***************************************************************************)
(* Clients of the wrappers of Foreign.idr keep to the engine's rules and   *)
(* account for its memory, for any number of clients, any heap and any     *)
(* scripts.                                                                *)
(***************************************************************************)
EXTENDS ForeignClient, ProofEngineProofs

Typed == client \in [Threads -> Session] /\ leaked \subseteq Addr

\* At which points of a session a client has an engine, and a string of it
Shape(s) == /\ s.h # NULL <=> s.at \in {"working", "copying", "freeing", "failed", "closing"}
            /\ s.ptr # NULL <=> s.at \in {"copying", "freeing"}
            /\ s.at \in {"copying", "freeing"} => s.script # <<>>

SessionShape == \A c \in Threads : Shape(client[c])

ClientInv == IInv /\ Typed /\ SessionShape /\ HeapAccounted

--------------------------------------------------------------------------------
\* A client's step: what it and the heap gain and lose are the same blocks.

\* Engines and strings being copied after client c has become s
LEMMA WhoHasWhat ==
    ASSUME Typed, HeapAccounted, NEW c \in Threads, NEW s \in Session, Goto(c, s)
    PROVE  /\ Engines' = (Engines \ {client[c].h}) \cup ({s.h} \ {NULL})
           /\ Copying' = (Copying \ {client[c].ptr}) \cup ({s.ptr} \ {NULL})
<1>1. client' = [client EXCEPT ![c] = s] /\ client \in [Threads -> Session]
  BY DEF Goto, Typed
<1>2. \A d \in Threads : client'[d] = IF d = c THEN s ELSE client[d]
  BY <1>1
<1>3. \A d \in Threads : d # c => /\ client[d].h # NULL => client[d].h # client[c].h
                                  /\ client[d].ptr # NULL => client[d].ptr # client[c].ptr
  BY DEF HeapAccounted
<1>4. ASSUME NEW x PROVE x \in Engines' <=> x \in (Engines \ {client[c].h}) \cup ({s.h} \ {NULL})
  <2>1. x \in Engines' <=> x # NULL /\ \E d \in Threads : client'[d].h = x
    BY DEF Engines
  <2>2. x \in Engines <=> x # NULL /\ \E d \in Threads : client[d].h = x
    BY DEF Engines
  <2> QED  BY <1>2, <1>3, <2>1, <2>2
<1>5. ASSUME NEW x PROVE x \in Copying' <=> x \in (Copying \ {client[c].ptr}) \cup ({s.ptr} \ {NULL})
  <2>1. x \in Copying' <=> x # NULL /\ \E d \in Threads : client'[d].ptr = x
    BY DEF Copying
  <2>2. x \in Copying <=> x # NULL /\ \E d \in Threads : client[d].ptr = x
    BY DEF Copying
  <2> QED  BY <1>2, <1>3, <2>1, <2>2
<1> QED  BY <1>4, <1>5

\* The heap stays accounted for if the client takes only unused blocks, returns
\* only its own, and what else it takes is leaked.
LEMMA HeapStaysAccounted ==
    ASSUME Typed, HeapAccounted, NEW c \in Threads, NEW s \in Session, Goto(c, s),
           s.h = client[c].h \/ s.h \notin Live,
           s.ptr = client[c].ptr \/ s.ptr \notin strings,
           NEW lost, leaked' = leaked \cup lost, lost \cap strings = {}, s.ptr \notin lost,
           Live' = (Live \ {client[c].h}) \cup ({s.h} \ {NULL}),
           strings' = (strings \ {client[c].ptr}) \cup ({s.ptr} \ {NULL}) \cup lost
    PROVE  HeapAccounted'
<1>1. Engines' = (Engines \ {client[c].h}) \cup ({s.h} \ {NULL})
  BY WhoHasWhat
<1>2. Copying' = (Copying \ {client[c].ptr}) \cup ({s.ptr} \ {NULL})
  BY WhoHasWhat
<1>3. /\ Live = Engines /\ strings = Copying \cup leaked /\ Copying \cap leaked = {}
      /\ \A x, d \in Threads : x # d => /\ client[x].h # NULL => client[x].h # client[d].h
                                        /\ client[x].ptr # NULL => client[x].ptr # client[d].ptr
  BY DEF HeapAccounted
<1>4. \A d \in Threads : client'[d] = IF d = c THEN s ELSE client[d]
  BY DEF Goto, Typed
<1>5. client[c].ptr # NULL => client[c].ptr \in Copying
  BY DEF Copying
<1>6. client[c].ptr \notin leaked \/ client[c].ptr = NULL
  BY <1>3, <1>5
<1>7. NULL \notin strings
  BY <1>3, NullAssumption DEF Typed, Copying
<1>8. Live' = Engines'
  BY <1>1, <1>3
<1>9. strings' = Copying' \cup leaked' /\ Copying' \cap leaked' = {}
  BY <1>2, <1>3, <1>5, <1>6, <1>7
<1>10. ASSUME NEW d \in Threads, d # c
       PROVE  /\ client[d].h # NULL => client[d].h # s.h
              /\ client[d].ptr # NULL => client[d].ptr # s.ptr
  <2>1. client[d].h # NULL => client[d].h \in Live /\ client[d].h # client[c].h
    BY <1>3, <1>10 DEF Engines
  <2>2. client[d].ptr # NULL => client[d].ptr \in strings /\ client[d].ptr # client[c].ptr
    BY <1>3, <1>10 DEF Copying
  <2> QED  BY <2>1, <2>2
<1>11. \A x, d \in Threads : x # d => /\ client'[x].h # NULL => client'[x].h # client'[d].h
                                      /\ client'[x].ptr # NULL => client'[x].ptr # client'[d].ptr
  <2> SUFFICES ASSUME NEW x \in Threads, NEW d \in Threads, x # d
               PROVE  /\ client'[x].h # NULL => client'[x].h # client'[d].h
                      /\ client'[x].ptr # NULL => client'[x].ptr # client'[d].ptr
    OBVIOUS
  <2>1. CASE x = c
    BY <1>4, <1>10, <2>1
  <2>2. CASE d = c
    BY <1>4, <1>10, <2>2
  <2>3. CASE x # c /\ d # c
    BY <1>3, <1>4, <2>3
  <2> QED  BY <2>1, <2>2, <2>3
<1> QED  BY <1>8, <1>9, <1>11 DEF HeapAccounted

--------------------------------------------------------------------------------
\* What the calls of the engine do to the heap

\* An update of a live engine that leaves it one
LEMMA UpdateKeepsLive ==
    ASSUME IInv, NEW h \in Live, NEW e, e.initialized, Update(h, e)
    PROVE  Live' = Live /\ strings' = strings
<1>1. engine' = [engine EXCEPT ![h] = e] /\ strings' = strings
  BY DEF Update
<1>2. DOMAIN engine = Addr /\ h \in Addr /\ engine[h].initialized
  BY DEF IInv, TypeOK, Live
<1> QED  BY <1>1, <1>2 DEF Live

\* The calls of the workflow neither take nor give back memory.
LEMMA WorkflowKeepsHeap ==
    ASSUME IInv, NEW t \in Threads, NEW h \in Live,
           \/ \E hasPath \in BOOLEAN, format \in FormatCodes : parse_interface(t, h, hasPath, format)
           \/ generate_proofs(t, h) \/ compile_proofs(t, h)
           \/ \E hasPath \in BOOLEAN : emit_wrapper(t, h, hasPath)
    PROVE  IInv' /\ Live' = Live /\ strings' = strings
<1>1. h \in Handles /\ ~Unusable(h)
  BY DEF Handles, Unusable
<1>2. engine[h] \in EngineState /\ engine[h].initialized
  BY DEF IInv, TypeOK, Live
<1>3. ASSUME NEW op, NEW val, Fail(t, op, h, val) PROVE Live' = Live /\ strings' = strings
  BY <1>3 DEF Fail, Live
<1>4. ASSUME NEW hasPath \in BOOLEAN, NEW format \in FormatCodes, parse_interface(t, h, hasPath, format)
      PROVE  IInv' /\ Live' = Live /\ strings' = strings
  <2>1. IInv'
    BY <1>1, <1>4, ParseKeepsIInv
  <2>2. [engine[h] EXCEPT !.interface_loaded = TRUE, !.obligation_count = 0,
                          !.discharged_count = 0, !.proofs_compiled = FALSE].initialized
    BY <1>2 DEF EngineState
  <2> QED  BY <1>1, <1>3, <1>4, <2>1, <2>2, UpdateKeepsLive DEF parse_interface, FailUnusable
<1>5. ASSUME generate_proofs(t, h)
      PROVE  IInv' /\ Live' = Live /\ strings' = strings
  <2>1. IInv'
    BY <1>1, <1>5, GenerateKeepsIInv
  <2>2. \A n : [engine[h] EXCEPT !.obligation_count = n, !.discharged_count = 0,
                                 !.proofs_compiled = FALSE].initialized
    BY <1>2 DEF EngineState
  <2> QED  BY <1>1, <1>3, <1>5, <2>1, <2>2, UpdateKeepsLive DEF generate_proofs, FailUnusable
<1>6. ASSUME compile_proofs(t, h)
      PROVE  IInv' /\ Live' = Live /\ strings' = strings
  <2>1. IInv'
    BY <1>1, <1>6, CompileKeepsIInv
  <2>2. [engine[h] EXCEPT !.proofs_compiled = TRUE,
                          !.discharged_count = engine[h].obligation_count].initialized
    BY <1>2 DEF EngineState
  <2> QED  BY <1>1, <1>3, <1>6, <2>1, <2>2, UpdateKeepsLive DEF compile_proofs, FailUnusable
<1>7. ASSUME NEW hasPath \in BOOLEAN, emit_wrapper(t, h, hasPath)
      PROVE  IInv' /\ Live' = Live /\ strings' = strings
  <2>1. IInv'
    BY <1>1, <1>7, EmitKeepsIInv
  <2> QED  BY <1>1, <1>3, <1>7, <2>1 DEF emit_wrapper, FailUnusable, Live
<1> QED  BY <1>4, <1>5, <1>6, <1>7

\* init gives a block that was unused, and says which, or none.
LEMMA InitTakes ==
    ASSUME IInv, NEW t \in Threads, init(t)
    PROVE  /\ IInv' /\ strings' = strings
           /\ \/ reply'[t].val = NULL /\ Live' = Live
              \/ reply'[t].val \in Unused /\ Live' = Live \cup {reply'[t].val}
<1>1. IInv'
  BY InitCallKeepsIInv
<1>2. reply \in [Threads -> Reply] /\ engine \in [Addr -> EngineState]
  BY DEF IInv, TypeOK
<1>3. CASE Fail(t, "init", NULL, NULL)
  BY <1>1, <1>2, <1>3 DEF Fail, Return, Live
<1>4. ASSUME NEW a \in Unused, Update(a, [NoEngine EXCEPT !.initialized = TRUE]),
             Succeed(t, "init", NULL, a)
      PROVE  reply'[t].val = a /\ Live' = Live \cup {a} /\ strings' = strings
  BY <1>2, <1>4 DEF Succeed, Return, Update, Live, NoEngine, Unused
<1> QED  BY <1>1, <1>3, <1>4 DEF init

\* free gives back the block of the engine.
LEMMA FreeGives ==
    ASSUME IInv, NEW t \in Threads, NEW h \in Live, free(t, h)
    PROVE  IInv' /\ strings' = strings /\ Live' = Live \ {h}
<1>1. IInv'
  BY FreeKeepsIInv DEF Handles
<1>2. engine \in [Addr -> EngineState] /\ h \in Addr /\ h # NULL
  BY NullAssumption DEF IInv, TypeOK, Live
<1>3. Update(h, NoEngine)
  BY <1>2 DEF free
<1> QED  BY <1>1, <1>2, <1>3 DEF Update, Live, NoEngine

\* get_string and last_error give a block that was unused, or null.
LEMMA StringTaken ==
    ASSUME IInv, NEW t \in Threads,
           last_error(t) \/ \E h \in Live : get_string(t, h)
    PROVE  /\ IInv' /\ Live' = Live
           /\ \/ reply'[t].val = NULL /\ strings' = strings
              \/ reply'[t].val \in Unused /\ strings' = strings \cup {reply'[t].val}
<1>1. reply \in [Threads -> Reply]
  BY DEF IInv, TypeOK
<1>2. CASE last_error(t)
  <2>1. IInv'
    BY <1>2, StringsKeepIInv
  <2> QED  BY <1>1, <1>2, <2>1 DEF last_error, Answer, Return, Live
<1>3. ASSUME NEW h \in Live, get_string(t, h)
      PROVE  /\ IInv' /\ Live' = Live
             /\ \/ reply'[t].val = NULL /\ strings' = strings
                \/ reply'[t].val \in Unused /\ strings' = strings \cup {reply'[t].val}
  <2>1. IInv' /\ ~Unusable(h)
    BY <1>3, GetStringKeepsIInv DEF Handles, Unusable
  <2> QED  BY <1>1, <1>3, <2>1 DEF get_string, FailUnusable, Fail, Succeed, Return, Live
<1> QED  BY <1>2, <1>3

\* free_string gives back the string.
LEMMA StringGiven ==
    ASSUME IInv, NEW t \in Threads, NEW s \in strings, free_string(t, s)
    PROVE  IInv' /\ Live' = Live /\ strings' = strings \ {s}
<1>1. IInv'
  BY StringsKeepIInv
<1> QED  BY <1>1 DEF free_string, Answer, Live

--------------------------------------------------------------------------------
\* The steps of a client

Results == {Right, Just, Nothing, Garbage} \cup {Left(r) : r \in DOMAIN resultToInt}

\* A client's own record, and whatever else its step changes
LEMMA ClientInvStep ==
    ASSUME ClientInv, NEW c \in Threads, NEW s \in Session, Shape(s), Goto(c, s),
           IInv', HeapAccounted', leaked' \subseteq Addr
    PROVE  ClientInv'
<1>1. client \in [Threads -> Session] /\ client' = [client EXCEPT ![c] = s]
  BY DEF ClientInv, Typed, Goto
<1>2. client' \in [Threads -> Session]
  BY <1>1
<1>3. \A d \in Threads : client'[d] = IF d = c THEN s ELSE client[d]
  BY <1>1
<1> QED  BY <1>2, <1>3 DEF ClientInv, Typed, SessionShape, Shape

\* What is known of client c before its step
LEMMA ClientState ==
    ASSUME ClientInv, NEW c \in Threads
    PROVE  /\ client[c] \in Session /\ Shape(client[c]) /\ Typed /\ IInv /\ HeapAccounted
           /\ client[c].h # NULL => client[c].h \in Live
           /\ client[c].ptr # NULL => client[c].ptr \in strings
           /\ NULL \notin Live /\ NULL \notin strings /\ leaked \subseteq Addr
<1>1. client[c] \in Session /\ Shape(client[c]) /\ leaked \subseteq Addr
  BY DEF ClientInv, Typed, SessionShape
<1>2. /\ client[c].h # NULL => client[c].h \in Live
      /\ client[c].ptr # NULL => client[c].ptr \in strings
  BY DEF ClientInv, HeapAccounted, Engines, Copying
<1>3. NULL \notin Live /\ NULL \notin strings
  BY NullAssumption DEF ClientInv, IInv, TypeOK, Live
<1> QED  BY <1>1, <1>2, <1>3 DEF ClientInv

\* A step that neither takes nor gives back memory
LEMMA HeapUntouched ==
    ASSUME ClientInv, NEW c \in Threads, NEW s \in Session, Shape(s), Goto(c, s),
           s.h = client[c].h, s.ptr = client[c].ptr, UNCHANGED leaked,
           IInv', Live' = Live, strings' = strings
    PROVE  ClientInv'
<1>1. HeapAccounted'
  <2>1. Live' = (Live \ {client[c].h}) \cup ({s.h} \ {NULL})
    BY ClientState
  <2>2. strings' = (strings \ {client[c].ptr}) \cup ({s.ptr} \ {NULL}) \cup {}
    BY ClientState
  <2>3. leaked' = leaked \cup {} /\ {} \cap strings = {} /\ s.ptr \notin {}
    OBVIOUS
  <2>4. Typed /\ HeapAccounted
    BY DEF ClientInv
  <2>5. (s.h = client[c].h \/ s.h \notin Live) /\ (s.ptr = client[c].ptr \/ s.ptr \notin strings)
    OBVIOUS
  <2> QED  BY <2>1, <2>2, <2>3, <2>4, <2>5, HeapStaysAccounted
<1> QED  BY <1>1, ClientState, ClientInvStep

\* The record of a client whose wrapper returned e
LEMMA AfterWrapper ==
    ASSUME ClientInv, NEW c \in Threads, NEW w, Calling(c, w), NEW e \in Results, Got(c, e)
    PROVE  \E s \in Session : /\ Shape(s) /\ Goto(c, s)
                              /\ s.h = client[c].h /\ s.ptr = client[c].ptr
<1> DEFINE s == [client[c] EXCEPT !.saw = e, !.script = Tail(@),
                                  !.at = IF e.tag = "Left" THEN "failed" ELSE "working"]
<1>1. client[c] \in Session /\ Shape(client[c])
  BY ClientState
<1>2. client[c].at = "working" /\ client[c].script # <<>>
  BY DEF Calling
<1>3. Tail(client[c].script) \in Seq(Wrappers)
  <2>1. client[c].script \in Seq(Wrappers)
    BY <1>1 DEF Session
  <2> QED  BY <1>2, <2>1
<1>4. s \in Session
  BY <1>1, <1>3 DEF Session, Results
<1>5. s.h = client[c].h /\ s.ptr = client[c].ptr /\ s.at \in {"failed", "working"}
  BY <1>1 DEF Session
<1>6. Shape(s)
  BY <1>1, <1>2, <1>5 DEF Shape
<1>7. Goto(c, s)
  BY DEF Got
<1> HIDE DEF s
<1> QED  BY <1>4, <1>5, <1>6, <1>7

\* What a wrapper decodes is one of the results there are.
LEMMA Decoded ==
    /\ \A n : Left(resultFromCode(n)) \in Results
    /\ Left("Error") \in Results /\ Left("ProofFailure") \in Results
    /\ Right \in Results /\ Nothing \in Results
<1>1. DOMAIN resultToInt
      = {"Ok", "Error", "InvalidParam", "OutOfMemory", "NullPointer", "ProofFailure"}
  BY DEF resultToInt
<1>2. \A n : resultFromCode(n) \in DOMAIN resultToInt
  BY <1>1 DEF resultFromCode
<1> QED  BY <1>1, <1>2 DEF Results

\* parseInterface, generateProofs, compileProofs and emitWrapper
LEMMA WrapperStep ==
    ASSUME ClientInv, NEW c \in Threads,
           parseInterface(c) \/ generateProofs(c) \/ compileProofs(c) \/ emitWrapper(c)
    PROVE  ClientInv' /\ Next
<1> DEFINE h == client[c].h
<1>1. PICK w : \E e \in Results : Calling(c, w) /\ Got(c, e)
  BY Decoded DEF parseInterface, generateProofs, compileProofs, emitWrapper
<1>2. h \in Live
  BY <1>1, ClientState DEF Calling, Shape
<1>3. /\ \/ \E hasPath \in BOOLEAN, format \in FormatCodes : parse_interface(c, h, hasPath, format)
         \/ generate_proofs(c, h) \/ compile_proofs(c, h)
         \/ \E hasPath \in BOOLEAN : emit_wrapper(c, h, hasPath)
      /\ UNCHANGED leaked
  BY DEF parseInterface, generateProofs, compileProofs, emitWrapper
<1>4. Next
  BY <1>2, <1>3 DEF Next, Handles
<1>5. IInv' /\ Live' = Live /\ strings' = strings
  BY <1>2, <1>3, WorkflowKeepsHeap, ClientState
<1>6. PICK s \in Session : /\ Shape(s) /\ Goto(c, s)
                           /\ s.h = client[c].h /\ s.ptr = client[c].ptr
  BY <1>1, AfterWrapper
<1> QED  BY <1>3, <1>4, <1>5, <1>6, HeapUntouched

\* getString: the client gets a string to copy, or nothing
LEMMA GetStringStep ==
    ASSUME ClientInv, NEW c \in Threads, getString(c)
    PROVE  ClientInv' /\ Next
<1> DEFINE h == client[c].h
           ptr == reply'[c].val
<1>1. Calling(c, "getString") /\ get_string(c, h) /\ UNCHANGED leaked
  BY DEF getString
<1>2. h \in Live /\ client[c].ptr = NULL /\ client[c].h # NULL
  BY <1>1, ClientState DEF Calling, Shape
<1>3. Next
  BY <1>1, <1>2 DEF Next, Handles
<1>4. /\ IInv' /\ Live' = Live
      /\ \/ ptr = NULL /\ strings' = strings
         \/ ptr \in Unused /\ strings' = strings \cup {ptr}
  BY <1>1, <1>2, StringTaken, ClientState
<1>5. CASE ptr = NULL
  <2>1. Got(c, Nothing) /\ Nothing \in Results
    BY <1>5, Decoded DEF getString
  <2>2. PICK s \in Session : /\ Shape(s) /\ Goto(c, s)
                             /\ s.h = client[c].h /\ s.ptr = client[c].ptr
    BY <1>1, <2>1, AfterWrapper
  <2>3. strings' = strings
    BY <1>4, <1>5, NullAssumption DEF Unused
  <2> QED  BY <1>1, <1>3, <1>4, <2>2, <2>3, HeapUntouched
<1>6. CASE ptr # NULL
  <2> DEFINE s == [client[c] EXCEPT !.at = "copying", !.ptr = ptr]
  <2>1. Goto(c, s)
    BY <1>6 DEF getString
  <2>2. ptr \in Unused /\ ptr \in Addr /\ ptr \notin strings /\ strings' = strings \cup {ptr}
    BY <1>4, <1>6 DEF Unused
  <2>3. client[c] \in Session /\ client[c].script # <<>> /\ client[c].at = "working"
    BY <1>1, ClientState DEF Calling
  <2>4. s \in Session /\ s.h = client[c].h /\ s.ptr = ptr /\ s.at = "copying" /\ s.script # <<>>
    BY <2>2, <2>3 DEF Session
  <2> HIDE DEF s, ptr
  <2>5. Shape(s)
    BY <1>2, <1>6, <2>4 DEF Shape
  <2>6. Live' = (Live \ {client[c].h}) \cup ({s.h} \ {NULL})
    BY <1>2, <1>4, <2>4
  <2>7. strings' = (strings \ {client[c].ptr}) \cup ({s.ptr} \ {NULL}) \cup {}
    BY <1>2, <1>6, <2>2, <2>4, ClientState
  <2>8. leaked' = leaked \cup {} /\ {} \cap strings = {} /\ s.ptr \notin {} /\ s.ptr \notin strings
    BY <1>1, <2>2, <2>4
  <2>9. HeapAccounted'
    BY <2>1, <2>4, <2>6, <2>7, <2>8, ClientState, HeapStaysAccounted
  <2> QED  BY <1>1, <1>3, <1>4, <2>1, <2>4, <2>5, <2>9, ClientState, ClientInvStep
<1> QED  BY <1>5, <1>6

\* Begin and Copy call nothing.
LEMMA PrivateStep ==
    ASSUME ClientInv, NEW c \in Threads, Begin(c) \/ Copy(c)
    PROVE  ClientInv' /\ UNCHANGED vars
<1>1. UNCHANGED vars /\ UNCHANGED leaked /\ client[c] \in Session /\ Shape(client[c])
  BY ClientState DEF Begin, Copy, engineVars, vars
<1>2. IInv' /\ Live' = Live /\ strings' = strings
  BY <1>1, ClientState
     DEF vars, Live, IInv, TypeOK, FreedIsBlank, FieldsAgree
<1>3. CASE Begin(c)
  <2>1. PICK script \in Scripts : Goto(c, [Away EXCEPT !.at = "opening", !.script = script])
    BY <1>3 DEF Begin
  <2> DEFINE s == [Away EXCEPT !.at = "opening", !.script = script]
  <2>2. /\ s \in Session /\ s.h = NULL /\ s.ptr = NULL /\ s.at = "opening"
        /\ client[c].h = NULL /\ client[c].ptr = NULL
    BY <1>1, <1>3, ScriptsAssumption, Decoded DEF Away, Session, Shape, Begin, Results
  <2>3. Shape(s)
    BY <2>2 DEF Shape
  <2> QED  BY <1>1, <1>2, <2>1, <2>2, <2>3, HeapUntouched
<1>4. CASE Copy(c)
  <2>1. PICK e \in {Just, Garbage} : Goto(c, [client[c] EXCEPT !.at = "freeing", !.saw = e])
    BY <1>4 DEF Copy
  <2> DEFINE s == [client[c] EXCEPT !.at = "freeing", !.saw = e]
  <2>2. /\ s \in Session /\ s.h = client[c].h /\ s.ptr = client[c].ptr /\ s.at = "freeing"
        /\ s.script = client[c].script /\ client[c].at = "copying"
    BY <1>1, <1>4 DEF Session, Copy
  <2>3. Shape(s)
    BY <1>1, <2>2 DEF Shape
  <2> QED  BY <1>1, <1>2, <2>1, <2>2, <2>3, HeapUntouched
<1> QED  BY <1>1, <1>3, <1>4

\* The client opens an engine, or is told that there is none.
LEMMA OpenStep ==
    ASSUME ClientInv, NEW c \in Threads, Open(c)
    PROVE  ClientInv' /\ Next
<1> DEFINE ptr == reply'[c].val
<1>1. init(c) /\ UNCHANGED leaked /\ Next
  BY DEF Open, Next
<1>2. client[c] \in Session /\ client[c].at = "opening" /\ client[c].h = NULL /\ client[c].ptr = NULL
  BY ClientState DEF Open, Shape
<1>3. /\ IInv' /\ strings' = strings
      /\ \/ ptr = NULL /\ Live' = Live
         \/ ptr \in Unused /\ Live' = Live \cup {ptr}
  BY <1>1, InitTakes, ClientState
<1>4. CASE ptr = NULL
  <2> DEFINE s == [client[c] EXCEPT !.saw = Nothing]
  <2>1. Goto(c, s) /\ Live' = Live
    BY <1>3, <1>4, NullAssumption DEF Open, Unused
  <2>2. s \in Session /\ s.h = client[c].h /\ s.ptr = client[c].ptr /\ s.at = client[c].at
    BY <1>2 DEF Session
  <2>3. Shape(s)
    BY <1>2, <2>2 DEF Shape
  <2> QED  BY <1>1, <1>3, <2>1, <2>2, <2>3, HeapUntouched
<1>5. CASE ptr # NULL
  <2> DEFINE s == [client[c] EXCEPT !.saw = Just, !.h = ptr, !.at = "working"]
  <2>1. Goto(c, s)
    BY <1>5 DEF Open
  <2>2. ptr \in Addr /\ ptr \notin Live /\ Live' = Live \cup {ptr}
    BY <1>3, <1>5 DEF Unused
  <2>3. s \in Session /\ s.h = ptr /\ s.ptr = NULL /\ s.at = "working"
    BY <1>2, <2>2 DEF Session
  <2> HIDE DEF s, ptr
  <2>4. Shape(s)
    BY <1>5, <2>3 DEF Shape
  <2>5. Live' = (Live \ {client[c].h}) \cup ({s.h} \ {NULL})
    BY <1>2, <1>5, <2>2, <2>3, ClientState
  <2>6. strings' = (strings \ {client[c].ptr}) \cup ({s.ptr} \ {NULL}) \cup {}
    BY <1>2, <1>3, <2>3, ClientState
  <2>7. leaked' = leaked \cup {} /\ {} \cap strings = {} /\ s.ptr \notin {}
    BY <1>1
  <2>8. HeapAccounted'
    BY <1>2, <2>1, <2>2, <2>3, <2>5, <2>6, <2>7, ClientState, HeapStaysAccounted
  <2> QED  BY <1>1, <1>3, <2>1, <2>3, <2>4, <2>8, ClientState, ClientInvStep
<1> QED  BY <1>4, <1>5

\* The string is given back once it is copied.
LEMMA ReleaseStep ==
    ASSUME ClientInv, NEW c \in Threads, Release(c)
    PROVE  ClientInv' /\ Next
<1> DEFINE s == [client[c] EXCEPT !.at = "working", !.ptr = NULL, !.script = Tail(@)]
<1>1. free_string(c, client[c].ptr) /\ Goto(c, s) /\ UNCHANGED leaked
  BY DEF Release
<1>2. /\ client[c] \in Session /\ client[c].at = "freeing" /\ client[c].script # <<>>
      /\ client[c].h # NULL /\ client[c].ptr \in strings
  BY ClientState DEF Release, Shape
<1>3. Next
  BY <1>1, <1>2 DEF Next
<1>4. IInv' /\ Live' = Live /\ strings' = strings \ {client[c].ptr}
  BY <1>1, <1>2, StringGiven, ClientState
<1>5. Tail(client[c].script) \in Seq(Wrappers)
  <2>1. client[c].script \in Seq(Wrappers)
    BY <1>2 DEF Session
  <2> QED  BY <1>2, <2>1
<1>6. s \in Session /\ s.h = client[c].h /\ s.ptr = NULL /\ s.at = "working"
  BY <1>2, <1>5 DEF Session
<1> HIDE DEF s
<1>7. Shape(s)
  BY <1>2, <1>6 DEF Shape
<1>8. Live' = (Live \ {client[c].h}) \cup ({s.h} \ {NULL})
  BY <1>2, <1>4, <1>6, ClientState
<1>9. strings' = (strings \ {client[c].ptr}) \cup ({s.ptr} \ {NULL}) \cup {}
  BY <1>4, <1>6
<1>10. leaked' = leaked \cup {} /\ {} \cap strings = {} /\ s.ptr \notin {} /\ s.ptr \notin strings
  BY <1>1, <1>6, ClientState
<1>11. HeapAccounted'
  BY <1>1, <1>6, <1>8, <1>9, <1>10, ClientState, HeapStaysAccounted
<1> QED  BY <1>1, <1>3, <1>4, <1>6, <1>7, <1>11, ClientState, ClientInvStep

\* The copy of the error is lost, and nothing else.
LEMMA ReadErrorStep ==
    ASSUME ClientInv, NEW c \in Threads, ReadError(c)
    PROVE  ClientInv' /\ Next
<1> DEFINE ptr == reply'[c].val
           lost == {ptr} \ {NULL}
<1>1. PICK e \in {Nothing, Just} : Goto(c, [client[c] EXCEPT !.at = "closing", !.saw = e])
  BY DEF ReadError
<1>2. last_error(c) /\ leaked' = leaked \cup lost /\ Next
  BY DEF ReadError, Next
<1>3. client[c] \in Session /\ client[c].at = "failed" /\ client[c].h # NULL /\ client[c].ptr = NULL
  BY ClientState DEF ReadError, Shape
<1>4. /\ IInv' /\ Live' = Live
      /\ \/ ptr = NULL /\ strings' = strings
         \/ ptr \in Unused /\ strings' = strings \cup {ptr}
  BY <1>2, StringTaken, ClientState
<1>5. strings' = strings \cup lost /\ lost \cap strings = {} /\ lost \subseteq Addr
  BY <1>4, NullAssumption DEF Unused
<1> DEFINE s == [client[c] EXCEPT !.at = "closing", !.saw = e]
<1>6. s \in Session /\ s.h = client[c].h /\ s.ptr = client[c].ptr /\ s.at = "closing" /\ Goto(c, s)
  BY <1>1, <1>3 DEF Session
<1>7. s.ptr \notin lost
  BY <1>3, <1>6
<1> HIDE DEF s, lost, ptr
<1>8. Shape(s)
  BY <1>3, <1>6 DEF Shape
<1>9. Live' = (Live \ {client[c].h}) \cup ({s.h} \ {NULL})
  BY <1>3, <1>4, <1>6, ClientState
<1>10. strings' = (strings \ {client[c].ptr}) \cup ({s.ptr} \ {NULL}) \cup lost
  BY <1>3, <1>5, <1>6, ClientState
<1>11. HeapAccounted'
  BY <1>2, <1>5, <1>6, <1>7, <1>9, <1>10, ClientState, HeapStaysAccounted
<1>12. leaked' \subseteq Addr
  BY <1>2, <1>5, ClientState
<1> QED  BY <1>2, <1>4, <1>6, <1>8, <1>11, <1>12, ClientInvStep

\* The engine is freed at the end of the session.
LEMMA CloseStep ==
    ASSUME ClientInv, NEW c \in Threads, Close(c)
    PROVE  ClientInv' /\ Next
<1>1. free(c, client[c].h) /\ Goto(c, Away) /\ UNCHANGED leaked
  BY DEF Close
<1>2. /\ client[c] \in Session /\ client[c].h \in Live /\ client[c].ptr = NULL
  BY ClientState DEF Close, Shape
<1>3. Next
  BY <1>1, <1>2 DEF Next, Handles
<1>4. IInv' /\ strings' = strings /\ Live' = Live \ {client[c].h}
  BY <1>1, <1>2, FreeGives, ClientState
<1>5. Away \in Session /\ Shape(Away) /\ Away.h = NULL /\ Away.ptr = NULL
  BY Decoded DEF Away, Session, Shape, Results
<1>6. Live' = (Live \ {client[c].h}) \cup ({Away.h} \ {NULL})
  BY <1>4, <1>5
<1>7. strings' = (strings \ {client[c].ptr}) \cup ({Away.ptr} \ {NULL}) \cup {}
  BY <1>2, <1>4, <1>5, ClientState
<1>8. leaked' = leaked \cup {} /\ {} \cap strings = {} /\ Away.ptr \notin {} /\ Away.h \notin Live
  BY <1>1, <1>5, ClientState
<1>9. HeapAccounted'
  BY <1>1, <1>2, <1>5, <1>6, <1>7, <1>8, ClientState, HeapStaysAccounted
<1> QED  BY <1>1, <1>3, <1>4, <1>5, <1>9, ClientState, ClientInvStep

LEMMA ClientStep ==
    ASSUME ClientInv, [ClientNext]_clientVars
    PROVE  ClientInv' /\ [Next]_vars
<1>1. CASE ClientNext
  <2>1. PICK c \in Threads : Begin(c) \/ Open(c) \/ Work(c)
    BY <1>1 DEF ClientNext
  <2>2. ClientInv' /\ (Next \/ UNCHANGED vars)
    BY <2>1, WrapperStep, GetStringStep, PrivateStep, OpenStep, ReleaseStep, ReadErrorStep,
       CloseStep DEF Work
  <2> QED  BY <2>2
<1>2. CASE UNCHANGED clientVars
  <2>1. UNCHANGED <<engine, strings, lastError, reply, client, leaked>>
    BY <1>2 DEF clientVars, engineVars
  <2>2. IInv' /\ UNCHANGED vars
    BY <2>1, ClientState DEF ClientInv, IInv, TypeOK, FreedIsBlank, FieldsAgree, vars
  <2>3. Typed' /\ SessionShape' /\ HeapAccounted'
    BY <2>1 DEF ClientInv, Typed, SessionShape, HeapAccounted, Engines, Copying, Live
  <2> QED  BY <2>2, <2>3 DEF ClientInv
<1> QED  BY <1>1, <1>2

--------------------------------------------------------------------------------
(* At every moment of every session the client holds an engine exactly when it *)
(* should, and the heap is what the clients hold and have lost.                *)
THEOREM ClientInvariant == ClientSpec => []ClientInv
<1>1. ClientInit => ClientInv
  <2> SUFFICES ASSUME ClientInit PROVE ClientInv
    OBVIOUS
  <2>1. IInv /\ strings = {} /\ Live = {} /\ leaked = {} /\ client = [c \in Threads |-> Away]
    BY InitEstablishesIInv DEF ClientInit, Init, Live, NoEngine
  <2>2. Away \in Session /\ Shape(Away) /\ Away.h = NULL /\ Away.ptr = NULL
    BY Decoded DEF Away, Session, Shape, Results
  <2>3. HeapAccounted
    BY <2>1, <2>2 DEF HeapAccounted, Engines, Copying
  <2>4. Typed /\ SessionShape
    BY <2>1, <2>2 DEF Typed, SessionShape
  <2> QED  BY <2>1, <2>3, <2>4 DEF ClientInv
<1>2. ClientInv /\ [ClientNext]_clientVars => ClientInv'
  BY ClientStep
<1> QED  BY <1>1, <1>2, PTL DEF ClientSpec

(* Clients, strings and handles have their types in every reachable state.     *)
THEOREM ClientTypeCorrect == ClientSpec => []ClientTypeOK
<1>1. ClientInv => ClientTypeOK
  BY DEF ClientInv, IInv, Typed, ClientTypeOK
<1> QED  BY <1>1, ClientInvariant, PTL

(* No wrapper loses or shares a block of the heap, except the copies of error  *)
(* messages (Foreign.idr:221-226), for any number of clients.                  *)
THEOREM HeapCorrect == ClientSpec => []HeapAccounted
<1>1. ClientInv => HeapAccounted
  BY DEF ClientInv
<1> QED  BY <1>1, ClientInvariant, PTL

(* What ProofEngine assumes of its callers, the wrappers guarantee: whatever   *)
(* scripts clients run, the engine they use behaves as specified, so all that  *)
(* is proved of it holds for them.                                             *)
THEOREM ClientsAreLegalCallers == ClientSpec => CallsAreLegal
<1>1. ClientInit => Init
  BY DEF ClientInit
<1>2. ClientInv /\ [ClientNext]_clientVars => [Next]_vars
  BY ClientStep
<1> QED  BY <1>1, <1>2, ClientInvariant, PTL DEF ClientSpec, CallsAreLegal, Spec

--------------------------------------------------------------------------------
\* What OutcomesAreTrue says of one client, and what a string returned by
\* getString adds to it: that it is the copy
Truthful(s, r, error) ==
    /\ s.at = "working" /\ s.saw.tag = "Right" => r.done /\ error = NoError
    /\ s.at = "failed" => error # NoError \/ NothingToProve(r)
    /\ s.at = "failed" /\ r.op = "parse_interface" => resultToInt[s.saw.of] = r.val
    /\ s.saw # Garbage
    /\ s.at = "freeing" => s.saw = Just

OutcomeInv == \A c \in Threads : Truthful(client[c], reply[c], lastError[c])

\* A call of one thread is answered to that thread alone.
Alone(t) == \A u \in Threads : u # t => reply'[u] = reply[u] /\ lastError'[u] = lastError[u]

\* ... either with an error, or with none
Refused(t, op, val) ==
    /\ reply'[t].op = op /\ reply'[t].val = val /\ ~reply'[t].done
    /\ lastError'[t] # NoError /\ Alone(t)
CarriedOut(t, op, val) ==
    /\ reply'[t].op = op /\ reply'[t].val = val /\ reply'[t].done
    /\ lastError'[t] = NoError /\ Alone(t)

\* The three ways a call returns
LEMMA Returns ==
    ASSUME IInv, NEW t \in Threads, NEW op, NEW h, NEW val
    PROVE  /\ Fail(t, op, h, val) => Refused(t, op, val)
           /\ Succeed(t, op, h, val) => CarriedOut(t, op, val)
           /\ Answer(t, op, h, val) => Alone(t)
<1>1. reply \in [Threads -> Reply] /\ lastError \in [Threads -> {NoError, Message}]
  BY DEF IInv, TypeOK
<1>2. ASSUME Fail(t, op, h, val) PROVE Refused(t, op, val)
  BY <1>1, <1>2 DEF Fail, Return, Refused, Alone, NoError, Message
<1>3. ASSUME Succeed(t, op, h, val) PROVE CarriedOut(t, op, val)
  BY <1>1, <1>3 DEF Succeed, Return, CarriedOut, Alone
<1>4. ASSUME Answer(t, op, h, val) PROVE Alone(t)
  BY <1>1, <1>4 DEF Answer, Return, Alone
<1> QED  BY <1>2, <1>3, <1>4

\* What the calls of the workflow return, if the handle is live
LEMMA WorkflowReturns ==
    ASSUME IInv, NEW t \in Threads, NEW h \in Live
    PROVE  /\ \A hasPath \in BOOLEAN, format \in FormatCodes : parse_interface(t, h, hasPath, format) =>
                 \/ CarriedOut(t, "parse_interface", 0)
                 \/ \E code \in {1, 2, 4} : Refused(t, "parse_interface", code)
           /\ generate_proofs(t, h) =>
                 \/ \E n \in U32 : CarriedOut(t, "generate_proofs", n)
                 \/ Refused(t, "generate_proofs", 0)
           /\ compile_proofs(t, h) =>
                 CarriedOut(t, "compile_proofs", 0) \/ Refused(t, "compile_proofs", 1)
           /\ \A hasPath \in BOOLEAN : emit_wrapper(t, h, hasPath) =>
                 \/ CarriedOut(t, "emit_wrapper", 0)
                 \/ \E code \in {1, 4, 5} : Refused(t, "emit_wrapper", code)
<1>1. ~Unusable(h)
  BY DEF Unusable
<1>2. ASSUME NEW hasPath \in BOOLEAN, NEW format \in FormatCodes, parse_interface(t, h, hasPath, format)
      PROVE  \/ CarriedOut(t, "parse_interface", 0)
             \/ \E code \in {1, 2, 4} : Refused(t, "parse_interface", code)
  BY <1>1, <1>2, Returns DEF parse_interface, FailUnusable, OK, NULL_POINTER, INVALID_PARAM
<1>3. ASSUME generate_proofs(t, h)
      PROVE  \/ \E n \in U32 : CarriedOut(t, "generate_proofs", n)
             \/ Refused(t, "generate_proofs", 0)
  BY <1>1, <1>3, Returns, CounterAssumption DEF generate_proofs, FailUnusable, U32
<1>4. ASSUME compile_proofs(t, h)
      PROVE  CarriedOut(t, "compile_proofs", 0) \/ Refused(t, "compile_proofs", 1)
  BY <1>1, <1>4, Returns DEF compile_proofs, FailUnusable, OK, ERROR
<1>5. ASSUME NEW hasPath \in BOOLEAN, emit_wrapper(t, h, hasPath)
      PROVE  \/ CarriedOut(t, "emit_wrapper", 0)
             \/ \E code \in {1, 4, 5} : Refused(t, "emit_wrapper", code)
  <2>1. EmitCode(engine[h], hasPath) \in {0, 1, 4, 5}
    BY DEF EmitCode, OK, ERROR, PROOF_FAILURE, NULL_POINTER
  <2> QED  BY <1>1, <1>5, <2>1, Returns DEF emit_wrapper, FailUnusable, OK
<1> QED  BY <1>2, <1>3, <1>4, <1>5

\* Every code the engine fails with is decoded to the result of that code.
LEMMA CodesDecoded ==
    \A code \in {1, 2, 4, 5} : /\ Left(resultFromCode(code)).tag = "Left"
                               /\ resultToInt[Left(resultFromCode(code)).of] = code
  BY DEF Left, resultFromCode, resultToInt

\* The record of a client whose wrapper returned e
LEMMA GotRecord ==
    ASSUME ClientInv, NEW c \in Threads, NEW e, Got(c, e)
    PROVE  /\ client'[c].saw = e
           /\ client'[c].at = IF e.tag = "Left" THEN "failed" ELSE "working"
           /\ \A d \in Threads : d # c => client'[d] = client[d]
<1>1. client \in [Threads -> Session] /\ client[c] \in Session
  BY DEF ClientInv, Typed
<1> QED  BY <1>1 DEF Got, Goto, Session

\* The outcomes of the other clients stay as true as they were.
LEMMA OthersKeepOutcome ==
    ASSUME OutcomeInv, NEW c \in Threads, Alone(c), \A d \in Threads : d # c => client'[d] = client[d],
           Truthful(client'[c], reply'[c], lastError'[c])
    PROVE  OutcomeInv'
<1>1. \A d \in Threads : d # c => Truthful(client'[d], reply'[d], lastError'[d])
  BY DEF OutcomeInv, Alone
<1> QED  BY <1>1 DEF OutcomeInv

\* The four wrappers that decode a code or a count
LEMMA WrapperOutcome ==
    ASSUME ClientInv, OutcomeInv, NEW c \in Threads,
           parseInterface(c) \/ generateProofs(c) \/ compileProofs(c) \/ emitWrapper(c)
    PROVE  OutcomeInv'
<1> DEFINE h == client[c].h
<1>1. h \in Live /\ IInv
  BY ClientState DEF parseInterface, generateProofs, compileProofs, emitWrapper, Calling, Shape
<1> HIDE DEF h
<1>2. ASSUME NEW op, NEW val, NEW e, e.tag = "Right", CarriedOut(c, op, val), Got(c, e)
      PROVE  OutcomeInv'
  <2>1. Truthful(client'[c], reply'[c], lastError'[c])
    BY <1>2, GotRecord DEF Truthful, CarriedOut, Garbage
  <2> QED  BY <1>2, <2>1, GotRecord, OthersKeepOutcome DEF CarriedOut
<1>3. ASSUME NEW op, NEW val, NEW e, e.tag = "Left", Refused(c, op, val), Got(c, e),
             op # "parse_interface" \/ resultToInt[e.of] = val
      PROVE  OutcomeInv'
  <2>1. Truthful(client'[c], reply'[c], lastError'[c])
    BY <1>3, GotRecord DEF Truthful, Refused, Garbage
  <2> QED  BY <1>3, <2>1, GotRecord, OthersKeepOutcome DEF Refused
<1>4. ASSUME NEW e, e.tag = "Left", CarriedOut(c, "generate_proofs", 0), Got(c, e)
      PROVE  OutcomeInv'
  <2>1. Truthful(client'[c], reply'[c], lastError'[c])
    BY <1>4, GotRecord DEF Truthful, CarriedOut, Garbage, NothingToProve
  <2> QED  BY <1>4, <2>1, GotRecord, OthersKeepOutcome DEF CarriedOut
<1>5. Right.tag = "Right" /\ \A r : Left(r).tag = "Left"
  BY DEF Right, Left
<1>6. CASE parseInterface(c)
  <2>1. \/ CarriedOut(c, "parse_interface", 0)
        \/ \E code \in {1, 2, 4} : Refused(c, "parse_interface", code)
    BY <1>1, <1>6, WorkflowReturns DEF parseInterface, h
  <2>2. CASE CarriedOut(c, "parse_interface", 0)
    <3>1. Got(c, Right)
      BY <1>6, <2>2 DEF parseInterface, CarriedOut
    <3> QED  BY <1>2, <1>5, <2>2, <3>1
  <2>3. ASSUME NEW code \in {1, 2, 4}, Refused(c, "parse_interface", code) PROVE OutcomeInv'
    <3>1. Got(c, Left(resultFromCode(code)))
      BY <1>6, <2>3 DEF parseInterface, Refused
    <3> QED  BY <1>3, <1>5, <2>3, <3>1, CodesDecoded
  <2> QED  BY <2>1, <2>2, <2>3
<1>7. CASE generateProofs(c)
  <2>1. \/ \E n \in U32 : CarriedOut(c, "generate_proofs", n)
        \/ Refused(c, "generate_proofs", 0)
    BY <1>1, <1>7, WorkflowReturns DEF generateProofs, h
  <2>2. ASSUME NEW n \in U32, CarriedOut(c, "generate_proofs", n) PROVE OutcomeInv'
    <3>1. Got(c, IF n = 0 THEN Left("Error") ELSE Right)
      BY <1>7, <2>2 DEF generateProofs, CarriedOut
    <3> QED  BY <1>2, <1>4, <1>5, <2>2, <3>1
  <2>3. CASE Refused(c, "generate_proofs", 0)
    <3>1. Got(c, Left("Error"))
      BY <1>7, <2>3 DEF generateProofs, Refused
    <3> QED  BY <1>3, <1>5, <2>3, <3>1
  <2> QED  BY <2>1, <2>2, <2>3
<1>8. CASE compileProofs(c)
  <2>1. CarriedOut(c, "compile_proofs", 0) \/ Refused(c, "compile_proofs", 1)
    BY <1>1, <1>8, WorkflowReturns DEF compileProofs, h
  <2>2. CASE CarriedOut(c, "compile_proofs", 0)
    <3>1. Got(c, Right)
      BY <1>8, <2>2 DEF compileProofs, CarriedOut
    <3> QED  BY <1>2, <1>5, <2>2, <3>1
  <2>3. CASE Refused(c, "compile_proofs", 1)
    <3>1. Got(c, Left("ProofFailure"))
      BY <1>8, <2>3 DEF compileProofs, Refused
    <3> QED  BY <1>3, <1>5, <2>3, <3>1
  <2> QED  BY <2>1, <2>2, <2>3
<1>9. CASE emitWrapper(c)
  <2>1. \/ CarriedOut(c, "emit_wrapper", 0)
        \/ \E code \in {1, 4, 5} : Refused(c, "emit_wrapper", code)
    BY <1>1, <1>9, WorkflowReturns DEF emitWrapper, h
  <2>2. CASE CarriedOut(c, "emit_wrapper", 0)
    <3>1. Got(c, Right)
      BY <1>9, <2>2 DEF emitWrapper, CarriedOut
    <3> QED  BY <1>2, <1>5, <2>2, <3>1
  <2>3. ASSUME NEW code \in {1, 4, 5}, Refused(c, "emit_wrapper", code) PROVE OutcomeInv'
    <3>1. Got(c, Left("Error"))
      BY <1>9, <2>3 DEF emitWrapper, Refused
    <3> QED  BY <1>3, <1>5, <2>3, <3>1
  <2> QED  BY <2>1, <2>2, <2>3
<1> QED  BY <1>6, <1>7, <1>8, <1>9

\* Steps after which no wrapper has just returned, or one has with Nothing or Just
LEMMA OtherOutcome ==
    ASSUME ClientInv, OutcomeInv, NEW c \in Threads, NEW s \in Session, Goto(c, s), Alone(c),
           s.saw # Garbage, s.at # "failed",
           s.at = "working" => s.saw.tag # "Right", s.at = "freeing" => s.saw = Just
    PROVE  OutcomeInv'
<1>1. client'[c] = s /\ \A d \in Threads : d # c => client'[d] = client[d]
  BY DEF ClientInv, Typed, Goto
<1>2. Truthful(client'[c], reply'[c], lastError'[c])
  BY <1>1 DEF Truthful
<1> QED  BY <1>1, <1>2, OthersKeepOutcome

\* What the results of Maybe are, and that none is taken for another
LEMMA Tags ==
    /\ Just.tag = "Just" /\ Nothing.tag = "Nothing"
    /\ Just # Garbage /\ Nothing # Garbage
  BY DEF Just, Nothing, Garbage

\* The calls that are no part of the workflow are answered to their caller.
LEMMA OthersAlone ==
    ASSUME IInv, NEW c \in Threads,
           \/ init(c) \/ last_error(c)
           \/ \E h : free(c, h) \/ get_string(c, h) \/ free_string(c, h)
    PROVE  Alone(c)
<1>1. ASSUME NEW op, NEW h, NEW val, Fail(c, op, h, val) \/ Succeed(c, op, h, val) \/ Answer(c, op, h, val)
      PROVE  Alone(c)
  BY <1>1, Returns DEF Refused, CarriedOut
<1>2. CASE init(c)
  BY <1>1, <1>2 DEF init
<1>3. CASE last_error(c)
  BY <1>1, <1>3 DEF last_error
<1>4. ASSUME NEW h, free(c, h) \/ get_string(c, h) \/ free_string(c, h) PROVE Alone(c)
  BY <1>1, <1>4 DEF free, get_string, free_string, FailUnusable
<1> QED  BY <1>2, <1>3, <1>4

\* All other steps of a session
LEMMA OtherSteps ==
    ASSUME ClientInv, OutcomeInv, NEW c \in Threads,
           \/ Begin(c) \/ Open(c) \/ getString(c) \/ Copy(c) \/ Release(c) \/ ReadError(c) \/ Close(c)
    PROVE  OutcomeInv'
<1>1. client[c] \in Session /\ Shape(client[c]) /\ IInv /\ Truthful(client[c], reply[c], lastError[c])
  BY ClientState DEF OutcomeInv
<1>2. CASE Begin(c)
  <2>1. PICK script \in Scripts : Goto(c, [Away EXCEPT !.at = "opening", !.script = script])
    BY <1>2 DEF Begin
  <2> DEFINE s == [Away EXCEPT !.at = "opening", !.script = script]
  <2>2. s \in Session /\ s.at = "opening" /\ s.saw = Nothing
    BY ScriptsAssumption, Decoded DEF Away, Session, Results
  <2>3. Alone(c)
    BY <1>2 DEF Begin, engineVars, Alone
  <2> HIDE DEF s
  <2> QED  BY <2>1, <2>2, <2>3, Tags, OtherOutcome DEF s
<1>3. CASE Open(c)
  <2> DEFINE ptr == reply'[c].val
             s == IF ptr = NULL THEN [client[c] EXCEPT !.saw = Nothing]
                                ELSE [client[c] EXCEPT !.saw = Just, !.h = ptr, !.at = "working"]
  <2>1. init(c) /\ Goto(c, s) /\ client[c].at = "opening"
    BY <1>3 DEF Open
  <2>2. ptr \in Addr \cup {NULL}
    BY <1>1, <2>1, InitTakes DEF Unused
  <2> HIDE DEF ptr
  <2>3. s \in Session /\ s.at \in {"opening", "working"} /\ s.saw \in {Nothing, Just}
    BY <1>1, <2>1, <2>2 DEF Session
  <2> HIDE DEF s
  <2> QED  BY <1>1, <2>1, <2>3, Tags, OtherOutcome, OthersAlone
<1>4. CASE getString(c)
  <2> DEFINE ptr == reply'[c].val
  <2>1. /\ Calling(c, "getString") /\ get_string(c, client[c].h)
        /\ IF ptr = NULL THEN Got(c, Nothing) ELSE Goto(c, [client[c] EXCEPT !.at = "copying", !.ptr = ptr])
    BY <1>4 DEF getString
  <2>2. client[c].h \in Live /\ Alone(c)
    BY <1>1, <2>1, ClientState, OthersAlone DEF Calling, Shape
  <2>3. ptr \in Addr \cup {NULL}
    BY <1>1, <2>1, <2>2, StringTaken DEF Unused
  <2> HIDE DEF ptr
  <2>4. CASE ptr = NULL
    <3>1. /\ client'[c].saw = Nothing /\ client'[c].at = "working"
          /\ \A d \in Threads : d # c => client'[d] = client[d]
      BY <2>1, <2>4, Tags, GotRecord
    <3>2. Truthful(client'[c], reply'[c], lastError'[c])
      BY <3>1, Tags DEF Truthful
    <3> QED  BY <2>2, <3>1, <3>2, OthersKeepOutcome
  <2>5. CASE ptr # NULL
    <3> DEFINE s == [client[c] EXCEPT !.at = "copying", !.ptr = ptr]
    <3>1. s \in Session /\ s.at = "copying" /\ s.saw = client[c].saw /\ Goto(c, s)
      BY <1>1, <2>1, <2>3, <2>5 DEF Session
    <3> HIDE DEF s
    <3> QED  BY <1>1, <2>2, <3>1, OtherOutcome DEF Truthful
  <2> QED  BY <2>4, <2>5
<1>5. CASE Copy(c)
  <2> DEFINE s == [client[c] EXCEPT !.at = "freeing", !.saw = Just]
  <2>1. client[c].ptr \in strings
    BY <1>1, <1>5, ClientState DEF Copy, Shape
  <2>2. Goto(c, s)
    BY <1>5, <2>1 DEF Copy
  <2>3. s \in Session /\ s.at = "freeing" /\ s.saw = Just
    BY <1>1 DEF Session
  <2>4. Alone(c)
    BY <1>5 DEF Copy, engineVars, Alone
  <2> HIDE DEF s
  <2> QED  BY <2>2, <2>3, <2>4, Tags, OtherOutcome
<1>6. CASE Release(c)
  <2> DEFINE s == [client[c] EXCEPT !.at = "working", !.ptr = NULL, !.script = Tail(@)]
  <2>1. free_string(c, client[c].ptr) /\ Goto(c, s) /\ client[c].at = "freeing"
    BY <1>6 DEF Release
  <2>2. client[c].saw = Just /\ client[c].script # <<>> /\ client[c].script \in Seq(Wrappers)
    BY <1>1, <2>1 DEF Truthful, Shape, Session
  <2>3. Tail(client[c].script) \in Seq(Wrappers)
    BY <2>2
  <2>4. s \in Session /\ s.at = "working" /\ s.saw = Just
    BY <1>1, <2>2, <2>3 DEF Session
  <2> HIDE DEF s
  <2> QED  BY <1>1, <2>1, <2>4, Tags, OtherOutcome, OthersAlone
<1>7. CASE ReadError(c)
  <2>1. PICK e \in {Nothing, Just} : Goto(c, [client[c] EXCEPT !.at = "closing", !.saw = e])
    BY <1>7 DEF ReadError
  <2> DEFINE s == [client[c] EXCEPT !.at = "closing", !.saw = e]
  <2>2. s \in Session /\ s.at = "closing" /\ s.saw = e /\ last_error(c)
    BY <1>1, <1>7 DEF Session, ReadError
  <2> HIDE DEF s
  <2> QED  BY <1>1, <2>1, <2>2, Tags, OtherOutcome, OthersAlone DEF s
<1>8. CASE Close(c)
  <2>1. free(c, client[c].h) /\ Goto(c, Away)
    BY <1>8 DEF Close
  <2>2. Away \in Session /\ Away.at = "away" /\ Away.saw = Nothing
    BY Decoded DEF Away, Session, Results
  <2> QED  BY <1>1, <2>1, <2>2, Tags, OtherOutcome, OthersAlone
<1> QED  BY <1>2, <1>3, <1>4, <1>5, <1>6, <1>7, <1>8

(* What a wrapper returned is what happened, for any number of clients and any *)
(* scripts: no client's step changes what another was told or may still ask.   *)
THEOREM OutcomesCorrect == ClientSpec => []OutcomesAreTrue
<1>1. ClientInit => OutcomeInv
  <2> SUFFICES ASSUME ClientInit, NEW c \in Threads PROVE Truthful(client[c], reply[c], lastError[c])
    BY DEF OutcomeInv
  <2>1. client[c] = Away
    BY DEF ClientInit
  <2> QED  BY <2>1, Tags DEF Truthful, Away
<1>2. ClientInv /\ OutcomeInv /\ [ClientNext]_clientVars => OutcomeInv'
  <2> SUFFICES ASSUME ClientInv, OutcomeInv, [ClientNext]_clientVars PROVE OutcomeInv'
    OBVIOUS
  <2>1. CASE ClientNext
    BY <2>1, WrapperOutcome, OtherSteps DEF ClientNext, Work
  <2>2. CASE UNCHANGED clientVars
    BY <2>2 DEF clientVars, engineVars, OutcomeInv
  <2> QED  BY <2>1, <2>2
<1>3. OutcomeInv => OutcomesAreTrue
  BY DEF OutcomeInv, OutcomesAreTrue, Truthful
<1> QED  BY <1>1, <1>2, <1>3, ClientInvariant, PTL DEF ClientSpec

(* Together with what is proved of the engine on its own: whatever clients do  *)
(* through the wrappers, the counters agree with the workflow, errors tell how *)
(* the last call ended, and a wrapper is emitted only after every obligation   *)
(* was proved (main.zig:117-272 as Foreign.idr calls it).                      *)
THEOREM ClientsGetTheEngine ==
    ClientSpec => /\ [](CountersTrackProof /\ ErrorReflectsLastCall)
                  /\ ImplementsWorkflow
<1>1. ClientSpec => Spec
  BY ClientsAreLegalCallers DEF CallsAreLegal
<1> QED  BY <1>1, CountersCorrect, ErrorCorrect, EngineImplementsWorkflow, PTL

================================================================================
