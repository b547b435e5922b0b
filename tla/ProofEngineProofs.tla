--------------------------- MODULE ProofEngineProofs ---------------------------
(***************************************************************************)
(* Theorems about the proof engine, for every set of threads, addresses,   *)
(* format codes and obligation counts and every width of the counters.     *)
(***************************************************************************)
EXTENDS ProofEngine, TLAPS

\* What free leaves behind is never mistaken for an engine
FreedIsBlank == \A a \in Addr : ~engine[a].initialized => engine[a] = NoEngine

\* The inductive invariant: the stored counters and flags agree at every live
\* handle.  It says of the fields what CountersTrackProof says of the answers.
FieldsAgree ==
    \A a \in Addr : LET e == engine[a] IN
       /\ e.discharged_count = IF e.proofs_compiled THEN e.obligation_count ELSE 0
       /\ e.proofs_compiled => e.obligation_count # 0
       /\ e.obligation_count # 0 => e.interface_loaded

IInv == TypeOK /\ FreedIsBlank /\ FieldsAgree

\* Counters of the engine's type that do not exceed each other are subtracted
\* without wrapping around.
LEMMA NoWrap ==
    ASSUME NEW x \in U32
    PROVE  x % (MaxU32 + 1) = x
  BY CounterAssumption DEF U32

\* A blank block is an engine state.
LEMMA BlankIsTyped == NoEngine \in EngineState
  BY CounterAssumption DEF NoEngine, EngineState, U32

--------------------------------------------------------------------------------
\* The engine part of the invariant is disturbed only by an update of one block,
\* to a state that agrees with itself.

AgreesWithItself(e) ==
    /\ e \in EngineState
    /\ ~e.initialized => e = NoEngine
    /\ e.discharged_count = IF e.proofs_compiled THEN e.obligation_count ELSE 0
    /\ e.proofs_compiled => e.obligation_count # 0
    /\ e.obligation_count # 0 => e.interface_loaded

EngineInv == engine \in [Addr -> EngineState] /\ FreedIsBlank /\ FieldsAgree

\* Storing a state that agrees with itself keeps the engine part.
LEMMA UpdateKeepsEngineInv ==
    ASSUME EngineInv, NEW h \in Addr, NEW e, AgreesWithItself(e), Update(h, e)
    PROVE  EngineInv'
  BY DEF EngineInv, FreedIsBlank, FieldsAgree, AgreesWithItself, Update

\* How the three ways of returning type the variables they assign
LEMMA ReturnTyped ==
    ASSUME reply \in [Threads -> Reply], NEW t \in Threads, NEW op \in Ops,
           NEW h \in Addr \cup {NULL}, NEW val \in U32 \cup Result \cup Addr \cup {NULL},
           NEW done \in BOOLEAN, Return(t, op, h, val, done)
    PROVE  reply' \in [Threads -> Reply]
  BY DEF Return, Reply
--------------------------------------------------------------------------------
\* All blocks are blank at the start.
LEMMA InitEstablishesIInv == Init => IInv
<1> SUFFICES ASSUME Init PROVE IInv
  OBVIOUS
<1>1. TypeOK
  BY BlankIsTyped DEF Init, TypeOK, Reply, NoReply, Ops, Result, OK
<1>2. FreedIsBlank /\ FieldsAgree
  BY DEF Init, FreedIsBlank, FieldsAgree, NoEngine
<1> QED
  BY <1>1, <1>2 DEF IInv

\* A call that fails stores nothing; an answer stores nothing in the engine.
LEMMA FailKeepsIInv ==
    ASSUME IInv, NEW t \in Threads, NEW op \in Ops, NEW h \in Addr \cup {NULL},
           NEW val \in U32 \cup Result \cup Addr \cup {NULL}, Fail(t, op, h, val)
    PROVE  IInv'
<1>1. reply' \in [Threads -> Reply]
  BY ReturnTyped DEF IInv, TypeOK, Fail
<1>2. lastError' \in [Threads -> {NoError, Message}]
  BY DEF IInv, TypeOK, Fail
<1> QED
  BY <1>1, <1>2 DEF IInv, TypeOK, FreedIsBlank, FieldsAgree, Fail

\* A call that only answers keeps the invariant.
LEMMA AnswerKeepsIInv ==
    ASSUME IInv, NEW t \in Threads, NEW op \in Ops, NEW h \in Addr \cup {NULL},
           NEW val \in U32 \cup Result \cup Addr \cup {NULL}, Answer(t, op, h, val),
           strings' \subseteq Addr
    PROVE  IInv'
<1>1. reply' \in [Threads -> Reply]
  BY ReturnTyped DEF IInv, TypeOK, Answer
<1> QED
  BY <1>1 DEF IInv, TypeOK, FreedIsBlank, FieldsAgree, Answer

\* A call that succeeds keeps it if the engine part and the strings do.
LEMMA SucceedKeepsIInv ==
    ASSUME IInv, NEW t \in Threads, NEW op \in Ops, NEW h \in Addr \cup {NULL},
           NEW val \in U32 \cup Result \cup Addr \cup {NULL}, Succeed(t, op, h, val),
           EngineInv', strings' \subseteq Addr
    PROVE  IInv'
<1>1. reply' \in [Threads -> Reply]
  BY ReturnTyped DEF IInv, TypeOK, Succeed
<1>2. lastError' \in [Threads -> {NoError, Message}]
  BY DEF IInv, TypeOK, Succeed
<1> QED
  BY <1>1, <1>2 DEF IInv, TypeOK, EngineInv

\* A call that succeeds and stores one state that agrees with itself keeps it.
LEMMA UpdateKeepsIInv ==
    ASSUME IInv, NEW t \in Threads, NEW op \in Ops, NEW h \in Addr \cup {NULL},
           NEW val \in U32 \cup Result \cup Addr \cup {NULL}, Succeed(t, op, h, val),
           NEW a \in Addr, NEW e, AgreesWithItself(e), Update(a, e)
    PROVE  IInv'
<1>1. EngineInv'
  BY UpdateKeepsEngineInv DEF IInv, TypeOK, EngineInv
<1>2. strings' \subseteq Addr
  BY DEF Update, IInv, TypeOK
<1> QED
  BY <1>1, <1>2, SucceedKeepsIInv

\* One lemma per exported function that can change the engine or a string
LEMMA HandleGuards ==
    ASSUME IInv, NEW t \in Threads, NEW op \in Ops, NEW h \in Addr \cup {NULL},
           NEW onNull \in U32 \cup Result \cup Addr \cup {NULL},
           NEW onError \in U32 \cup Result \cup Addr \cup {NULL},
           FailUnusable(t, op, h, onNull, onError)
    PROVE  IInv'
  BY FailKeepsIInv DEF FailUnusable

\* idrisiser_init hands out a blank engine.
LEMMA InitCallKeepsIInv ==
    ASSUME IInv, NEW t \in Threads, init(t)
    PROVE  IInv'
<1> "init" \in Ops
  BY DEF Ops, Reporting
<1>1. ASSUME NEW a \in Unused,
             Update(a, [NoEngine EXCEPT !.initialized = TRUE]), Succeed(t, "init", NULL, a)
      PROVE  IInv'
  <2>1. AgreesWithItself([NoEngine EXCEPT !.initialized = TRUE])
    BY BlankIsTyped DEF AgreesWithItself, NoEngine, EngineState
  <2>2. a \in Addr
    BY DEF Unused
  <2> QED
    BY <1>1, <2>1, <2>2, UpdateKeepsIInv
<1>2. CASE Fail(t, "init", NULL, NULL)
  BY <1>2, FailKeepsIInv
<1> QED
  BY <1>1, <1>2 DEF init

\* idrisiser_free leaves a blank block behind.
LEMMA FreeKeepsIInv ==
    ASSUME IInv, NEW t \in Threads, NEW h \in Handles, free(t, h)
    PROVE  IInv'
<1> "free" \in Ops /\ h \in Addr \cup {NULL} /\ 0 \in Result
  BY DEF Ops, Handles, Live, Result, OK
<1>1. CASE h = NULL /\ Answer(t, "free", h, 0) /\ UNCHANGED strings
  <2>1. strings' \subseteq Addr
    BY <1>1 DEF IInv, TypeOK
  <2> QED
    BY <1>1, <2>1, AnswerKeepsIInv
<1>2. CASE h # NULL /\ Update(h, NoEngine) /\ Succeed(t, "free", h, 0)
  <2>1. AgreesWithItself(NoEngine)
    BY BlankIsTyped DEF AgreesWithItself, NoEngine
  <2> QED
    BY <1>2, <2>1, UpdateKeepsIInv
<1> QED
  BY <1>1, <1>2 DEF free

\* The engine at a usable handle
LEMMA UsableEngine ==
    ASSUME IInv, NEW h \in Addr \cup {NULL}, ~Unusable(h)
    PROVE  h \in Addr /\ AgreesWithItself(engine[h]) /\ engine[h].initialized
  BY DEF Unusable, Live, IInv, TypeOK, FreedIsBlank, FieldsAgree, AgreesWithItself

\* idrisiser_parse_interface resets the counters and the flag together.
LEMMA ParseKeepsIInv ==
    ASSUME IInv, NEW t \in Threads, NEW h \in Handles, NEW hasPath \in BOOLEAN,
           NEW format \in FormatCodes, parse_interface(t, h, hasPath, format)
    PROVE  IInv'
<1> DEFINE op == "parse_interface"
           e == [engine[h] EXCEPT !.interface_loaded = TRUE, !.obligation_count = 0,
                                  !.discharged_count = 0, !.proofs_compiled = FALSE]
<1> op \in Ops /\ h \in Addr \cup {NULL} /\ {OK, ERROR, NULL_POINTER, INVALID_PARAM} \subseteq Result
  BY DEF Ops, Reporting, Handles, Live, Result
<1>1. CASE FailUnusable(t, op, h, NULL_POINTER, ERROR)
  BY <1>1, HandleGuards
<1>2. CASE Fail(t, op, h, NULL_POINTER) \/ Fail(t, op, h, INVALID_PARAM)
  BY <1>2, FailKeepsIInv
<1>3. CASE ~Unusable(h) /\ Update(h, e) /\ Succeed(t, op, h, OK)
  <2>1. h \in Addr /\ engine[h] \in EngineState /\ engine[h].initialized
    BY <1>3, UsableEngine DEF AgreesWithItself
  <2>2. AgreesWithItself(e)
    <3>1. 0 \in U32
      BY CounterAssumption DEF U32
    <3>2. e \in EngineState
      BY <2>1, <3>1 DEF EngineState
    <3>3. /\ e.initialized /\ e.interface_loaded /\ ~e.proofs_compiled
          /\ e.obligation_count = 0 /\ e.discharged_count = 0
      BY <2>1 DEF EngineState
    <3> QED
      BY <3>2, <3>3 DEF AgreesWithItself
  <2> QED
    BY <1>3, <2>1, <2>2, UpdateKeepsIInv
<1> QED
  BY <1>1, <1>2, <1>3 DEF parse_interface

\* idrisiser_generate_proofs resets what was discharged with what is due.
LEMMA GenerateKeepsIInv ==
    ASSUME IInv, NEW t \in Threads, NEW h \in Handles, generate_proofs(t, h)
    PROVE  IInv'
<1> DEFINE op == "generate_proofs"
           e(n) == [engine[h] EXCEPT !.obligation_count = n, !.discharged_count = 0,
                                     !.proofs_compiled = FALSE]
<1> op \in Ops /\ h \in Addr \cup {NULL} /\ 0 \in Result
  BY DEF Ops, Reporting, Handles, Live, Result, OK
<1>1. CASE FailUnusable(t, op, h, 0, 0)
  BY <1>1, HandleGuards
<1>2. CASE Fail(t, op, h, 0)
  BY <1>2, FailKeepsIInv
<1>3. ASSUME ~Unusable(h), engine[h].interface_loaded,
             NEW n \in DerivedCounts, Update(h, e(n)), Succeed(t, op, h, n)
      PROVE  IInv'
  <2>1. h \in Addr /\ engine[h] \in EngineState /\ engine[h].initialized
    BY <1>3, UsableEngine DEF AgreesWithItself
  <2>2. n \in U32
    BY CounterAssumption DEF U32
  <2>3. AgreesWithItself(e(n))
    <3>1. 0 \in U32
      BY CounterAssumption DEF U32
    <3>2. e(n) \in EngineState
      BY <2>1, <2>2, <3>1 DEF EngineState
    <3>3. /\ e(n).initialized /\ e(n).interface_loaded /\ ~e(n).proofs_compiled
          /\ e(n).obligation_count = n /\ e(n).discharged_count = 0
      BY <1>3, <2>1 DEF EngineState
    <3> QED
      BY <3>2, <3>3 DEF AgreesWithItself
  <2> QED
    BY <1>3, <2>1, <2>2, <2>3, UpdateKeepsIInv
<1> QED
  BY <1>1, <1>2, <1>3 DEF generate_proofs

\* idrisiser_compile_proofs discharges exactly what is due.
LEMMA CompileKeepsIInv ==
    ASSUME IInv, NEW t \in Threads, NEW h \in Handles, compile_proofs(t, h)
    PROVE  IInv'
<1> DEFINE op == "compile_proofs"
           e == [engine[h] EXCEPT !.proofs_compiled = TRUE,
                                  !.discharged_count = engine[h].obligation_count]
<1> op \in Ops /\ h \in Addr \cup {NULL} /\ {OK, ERROR, NULL_POINTER} \subseteq Result
  BY DEF Ops, Reporting, Handles, Live, Result
<1>1. CASE FailUnusable(t, op, h, NULL_POINTER, ERROR)
  BY <1>1, HandleGuards
<1>2. CASE Fail(t, op, h, ERROR)
  BY <1>2, FailKeepsIInv
<1>3. CASE /\ ~Unusable(h) /\ engine[h].obligation_count # 0
           /\ Update(h, e) /\ Succeed(t, op, h, OK)
  <2>1. h \in Addr /\ AgreesWithItself(engine[h]) /\ engine[h].initialized
    BY <1>3, UsableEngine
  <2>2. AgreesWithItself(e)
    BY <1>3, <2>1 DEF AgreesWithItself, EngineState
  <2> QED
    BY <1>3, <2>1, <2>2, UpdateKeepsIInv
<1> QED
  BY <1>1, <1>2, <1>3 DEF compile_proofs

\* idrisiser_emit_wrapper changes no engine.
LEMMA EmitKeepsIInv ==
    ASSUME IInv, NEW t \in Threads, NEW h \in Handles, NEW hasPath \in BOOLEAN,
           emit_wrapper(t, h, hasPath)
    PROVE  IInv'
<1> DEFINE op == "emit_wrapper"
<1> op \in Ops /\ h \in Addr \cup {NULL} /\ {OK, ERROR, NULL_POINTER} \subseteq Result
  BY DEF Ops, Reporting, Handles, Live, Result
<1>1. EmitCode(engine[h], hasPath) \in Result
  BY DEF EmitCode, Result
<1>2. CASE FailUnusable(t, op, h, NULL_POINTER, ERROR)
  BY <1>2, HandleGuards
<1>3. CASE Fail(t, op, h, EmitCode(engine[h], hasPath))
  BY <1>1, <1>3, FailKeepsIInv
<1>4. CASE Succeed(t, op, h, OK) /\ UNCHANGED <<engine, strings>>
  <2>1. EngineInv' /\ strings' \subseteq Addr
    BY <1>4 DEF IInv, TypeOK, EngineInv, FreedIsBlank, FieldsAgree
  <2> QED
    BY <1>4, <2>1, SucceedKeepsIInv
<1> QED
  BY <1>2, <1>3, <1>4 DEF emit_wrapper

\* idrisiser_get_string takes an unused block.
LEMMA GetStringKeepsIInv ==
    ASSUME IInv, NEW t \in Threads, NEW h \in Handles, get_string(t, h)
    PROVE  IInv'
<1> DEFINE op == "get_string"
<1> op \in Ops /\ h \in Addr \cup {NULL}
  BY DEF Ops, Reporting, Handles, Live
<1>1. CASE FailUnusable(t, op, h, NULL, NULL)
  BY <1>1, HandleGuards
<1>2. CASE Fail(t, op, h, NULL)
  BY <1>2, FailKeepsIInv
<1>3. ASSUME NEW s \in Unused, strings' = strings \cup {s}, Succeed(t, op, h, s),
             UNCHANGED engine
      PROVE  IInv'
  <2>1. EngineInv' /\ strings' \subseteq Addr
    BY <1>3 DEF IInv, TypeOK, EngineInv, FreedIsBlank, FieldsAgree, Unused
  <2> QED
    BY <1>3, <2>1, SucceedKeepsIInv DEF Unused
<1> QED
  BY <1>1, <1>2, <1>3 DEF get_string

\* The calls that only look, and those that only touch strings
LEMMA QueriesKeepIInv ==
    ASSUME IInv, NEW t \in Threads, NEW h \in Handles,
           \/ is_initialized(t, h) \/ discharged_count(t, h) \/ remaining_count(t, h)
    PROVE  IInv'
<1>1. /\ {"is_initialized", "discharged_count", "remaining_count"} \subseteq Ops
      /\ h \in Addr \cup {NULL} /\ {0, 1} \subseteq Result
  BY DEF Ops, Handles, Live, Result, OK, ERROR
<1>2. strings' \subseteq Addr
  BY DEF IInv, TypeOK, is_initialized, discharged_count, remaining_count
<1>3. h # NULL => /\ engine[h].discharged_count \in U32
                  /\ remaining(engine[h]) \in U32
  <2> SUFFICES ASSUME h # NULL
               PROVE  engine[h].discharged_count \in U32 /\ remaining(engine[h]) \in U32
    OBVIOUS
  <2>1. engine[h] \in EngineState
    BY <1>1 DEF IInv, TypeOK
  <2>2. engine[h].discharged_count \in U32 /\ engine[h].obligation_count \in U32
    BY <2>1 DEF EngineState
  <2> QED
    BY <2>2, CounterAssumption DEF remaining, U32
<1> QED
  BY <1>1, <1>2, <1>3, AnswerKeepsIInv DEF is_initialized, discharged_count, remaining_count

\* The other calls that only touch strings.
LEMMA StringsKeepIInv ==
    ASSUME IInv, NEW t \in Threads,
           (\E s \in strings \cup {NULL} : free_string(t, s)) \/ last_error(t)
    PROVE  IInv'
<1>1. {"free_string", "last_error"} \subseteq Ops /\ 0 \in Result
  BY DEF Ops, Result, OK
<1>2. strings' \subseteq Addr
  BY DEF IInv, TypeOK, free_string, last_error, Unused
<1> QED
  BY <1>1, <1>2, AnswerKeepsIInv DEF free_string, last_error, Unused

--------------------------------------------------------------------------------
(* The flags and counters of every engine agree in every reachable state, and *)
(* a freed block is blank: the invariant the other theorems rest on.          *)
THEOREM InductiveInvariant == Spec => []IInv
<1>1. IInv /\ [Next]_vars => IInv'
  <2> SUFFICES ASSUME IInv, [Next]_vars PROVE IInv'
    OBVIOUS
  <2>1. CASE Next
    <3>1. PICK t \in Threads :
             \/ init(t)
             \/ \E h \in Handles :
                   \/ free(t, h)
                   \/ is_initialized(t, h) \/ discharged_count(t, h) \/ remaining_count(t, h)
                   \/ \E hasPath \in BOOLEAN, format \in FormatCodes :
                         parse_interface(t, h, hasPath, format)
                   \/ generate_proofs(t, h)
                   \/ compile_proofs(t, h)
                   \/ \E hasPath \in BOOLEAN : emit_wrapper(t, h, hasPath)
                   \/ get_string(t, h)
             \/ (\E s \in strings \cup {NULL} : free_string(t, s)) \/ last_error(t)
      BY <2>1 DEF Next
    <3> QED
      BY <3>1, InitCallKeepsIInv, FreeKeepsIInv, ParseKeepsIInv, GenerateKeepsIInv,
         CompileKeepsIInv, EmitKeepsIInv, GetStringKeepsIInv, QueriesKeepIInv, StringsKeepIInv
  <2>2. CASE UNCHANGED vars
    BY <2>2 DEF vars, IInv, TypeOK, FreedIsBlank, FieldsAgree
  <2> QED
    BY <2>1, <2>2
<1> QED
  BY InitEstablishesIInv, <1>1, PTL DEF Spec

(* Every reachable state of the engine is of its type, in particular both      *)
(* counters stay in the u32 range whatever is called in whatever order.        *)
THEOREM TypeCorrect == Spec => []TypeOK
<1>1. IInv => TypeOK
  BY DEF IInv
<1> QED
  BY InductiveInvariant, <1>1, PTL

(* The counters and flags of a live engine never drift apart, and what         *)
(* remaining_count (main.zig:230) subtracts never wraps around.                *)
THEOREM CountersCorrect == Spec => []CountersTrackProof
<1>1. IInv => CountersTrackProof
  <2> SUFFICES ASSUME IInv, NEW a \in Live PROVE CountersAgree(engine[a])
    BY DEF CountersTrackProof
  <2> DEFINE e == engine[a]
  <2>1. /\ e \in EngineState
        /\ e.discharged_count = IF e.proofs_compiled THEN e.obligation_count ELSE 0
        /\ e.proofs_compiled => e.obligation_count # 0
        /\ e.obligation_count # 0 => e.interface_loaded
    BY DEF IInv, TypeOK, FieldsAgree, Live
  <2>2. e.obligation_count \in U32 /\ e.discharged_count \in U32
    BY <2>1 DEF EngineState
  <2>3. e.obligation_count - e.discharged_count \in U32
    BY <2>1, <2>2, CounterAssumption DEF U32
  <2>4. remaining(e) = e.obligation_count - e.discharged_count
    BY <2>3, NoWrap DEF remaining
  <2> QED
    BY <2>1, <2>4 DEF CountersAgree
<1> QED
  BY InductiveInvariant, <1>1, PTL

--------------------------------------------------------------------------------
(* A thread that asks about the reporting call it just made learns the truth,  *)
(* however many threads call and whatever they call (main.zig:17-29).          *)
THEOREM ErrorCorrect == Spec => []ErrorReflectsLastCall
<1>1. Init => ErrorReflectsLastCall
  BY DEF Init, ErrorReflectsLastCall, NoReply
<1>2. IInv /\ ErrorReflectsLastCall /\ [Next]_vars => ErrorReflectsLastCall'
  <2> SUFFICES ASSUME IInv, ErrorReflectsLastCall, [Next]_vars
               PROVE  ErrorReflectsLastCall'
    OBVIOUS
  <2> /\ reply \in [Threads -> Reply]
      /\ lastError \in [Threads -> {NoError, Message}]
    BY DEF IInv, TypeOK
  <2>1. ASSUME NEW t \in Threads, NEW op, NEW h, NEW val, Fail(t, op, h, val)
        PROVE  ErrorReflectsLastCall'
    BY <2>1 DEF Fail, Return, ErrorReflectsLastCall, NoError, Message
  <2>2. ASSUME NEW t \in Threads, NEW op, NEW h, NEW val, Succeed(t, op, h, val)
        PROVE  ErrorReflectsLastCall'
    BY <2>2 DEF Succeed, Return, ErrorReflectsLastCall
  <2>3. ASSUME NEW t \in Threads, NEW op, op \notin Reporting, NEW h, NEW val,
               Answer(t, op, h, val)
        PROVE  ErrorReflectsLastCall'
    BY <2>3 DEF Answer, Return, ErrorReflectsLastCall
  <2>4. CASE UNCHANGED vars
    BY <2>4 DEF vars, ErrorReflectsLastCall
  <2>5. CASE Next
    <3>1. {"free", "is_initialized", "discharged_count", "remaining_count", "free_string",
           "last_error"} \cap Reporting = {}
      BY DEF Reporting
    <3>2. PICK t \in Threads :
             \/ init(t)
             \/ \E h \in Handles :
                   \/ free(t, h)
                   \/ is_initialized(t, h) \/ discharged_count(t, h) \/ remaining_count(t, h)
                   \/ \E hasPath \in BOOLEAN, format \in FormatCodes :
                         parse_interface(t, h, hasPath, format)
                   \/ generate_proofs(t, h)
                   \/ compile_proofs(t, h)
                   \/ \E hasPath \in BOOLEAN : emit_wrapper(t, h, hasPath)
                   \/ get_string(t, h)
             \/ (\E s \in strings \cup {NULL} : free_string(t, s)) \/ last_error(t)
      BY <2>5 DEF Next
    <3>3. CASE init(t)
      BY <3>3, <2>1, <2>2 DEF init
    <3>4. ASSUME NEW h \in Handles,
                 free(t, h) \/ is_initialized(t, h) \/ discharged_count(t, h)
                            \/ remaining_count(t, h)
          PROVE  ErrorReflectsLastCall'
      BY <3>1, <3>4, <2>2, <2>3
         DEF free, is_initialized, discharged_count, remaining_count
    <3>5. ASSUME NEW h \in Handles, NEW hasPath \in BOOLEAN, NEW format \in FormatCodes,
                 parse_interface(t, h, hasPath, format)
          PROVE  ErrorReflectsLastCall'
      BY <3>5, <2>1, <2>2 DEF parse_interface, FailUnusable
    <3>6. ASSUME NEW h \in Handles, generate_proofs(t, h) \/ compile_proofs(t, h)
          PROVE  ErrorReflectsLastCall'
      BY <3>6, <2>1, <2>2 DEF generate_proofs, compile_proofs, FailUnusable
    <3>7. ASSUME NEW h \in Handles, NEW hasPath \in BOOLEAN, emit_wrapper(t, h, hasPath)
          PROVE  ErrorReflectsLastCall'
      BY <3>7, <2>1, <2>2 DEF emit_wrapper, FailUnusable
    <3>8. ASSUME NEW h \in Handles, get_string(t, h)
          PROVE  ErrorReflectsLastCall'
      BY <3>8, <2>1, <2>2 DEF get_string, FailUnusable
    <3>9. ASSUME (\E s \in strings \cup {NULL} : free_string(t, s)) \/ last_error(t)
          PROVE  ErrorReflectsLastCall'
      BY <3>1, <3>9, <2>3 DEF free_string, last_error
    <3> QED
      BY <3>2, <3>3, <3>4, <3>5, <3>6, <3>7, <3>8, <3>9
  <2> QED
    BY <2>4, <2>5
<1> QED
  BY <1>1, <1>2, InductiveInvariant, PTL DEF Spec

--------------------------------------------------------------------------------
\* Refinement: the stages of the workflow and the answers, as the instance sees them

stageBar  == [a \in Addr |-> StageOf(engine[a])]
answerBar == [t \in Threads |-> Seen(reply[t])]

\* An answer of the engine is an answer of the workflow.
LEMMA SayStep ==
    ASSUME IInv, NEW t \in Threads, NEW op, NEW h, NEW val, NEW done,
           Return(t, op, h, val, done)
    PROVE  Workflow!Say(t, op, h, val)
  BY DEF IInv, TypeOK, Return, Seen, Workflow!Say

\* An update of one block moves one handle of the workflow.
LEMMA MoveStep ==
    ASSUME IInv, NEW h \in Live, NEW e, Update(h, e)
    PROVE  Workflow!Move(h, StageOf(e))
  BY DEF IInv, TypeOK, Live, Update, Workflow!Move, Workflow!Closed, StageOf

\* A call that stores nothing leaves every handle at its stage.
LEMMA StageStays ==
    ASSUME UNCHANGED engine
    PROVE  UNCHANGED stageBar
  BY DEF stageBar

\* Where a handle stands: only a usable one is in any stage
LEMMA WhereItStands ==
    ASSUME IInv, NEW h \in Handles
    PROVE  /\ h \in Workflow!Handles
           /\ h = NULL <=> Unusable(h)
           /\ h # NULL => /\ h \in Live /\ h \in Addr
                          /\ engine[h] \in EngineState /\ engine[h].initialized
<1>1. h \in Live \/ h = NULL
  BY DEF Handles
<1>2. h \in Live => StageOf(engine[h]).at # "closed"
  BY DEF Live, StageOf
<1>3. h \in Live => h \in Workflow!Handles
  BY <1>2 DEF Workflow!Handles, Workflow!Closed, Live
<1>4. NULL \in Workflow!Handles
  BY DEF Workflow!Handles
<1> QED
  BY <1>1, <1>3, <1>4, NullAssumption DEF Unusable, Live, IInv, TypeOK

\* One lemma per exported function: its call is a step of the workflow.

\* idrisiser_init is Open.
LEMMA InitRefines ==
    ASSUME IInv, NEW t \in Threads, init(t)
    PROVE  Workflow!Open(t)
<1>1. ASSUME NEW a \in Unused,
             Update(a, [NoEngine EXCEPT !.initialized = TRUE]), Succeed(t, "init", NULL, a)
      PROVE  Workflow!Open(t)
  <2>1. a \in Addr /\ engine[a] = NoEngine
    BY DEF Unused, Live, IInv, FreedIsBlank
  <2>2. stageBar[a] = Workflow!Closed
    BY <2>1 DEF stageBar, StageOf, NoEngine, Workflow!Closed
  <2>3. stageBar' = [stageBar EXCEPT ![a] = Workflow!Opened]
    BY <1>1, <2>1 DEF stageBar, StageOf, NoEngine, Update, Workflow!Opened, IInv, TypeOK
  <2>4. Workflow!Say(t, "init", NULL, a)
    BY <1>1, SayStep DEF Succeed
  <2> QED
    BY <2>1, <2>2, <2>3, <2>4 DEF Workflow!Open, stageBar
<1>2. CASE Fail(t, "init", NULL, NULL)
  BY <1>2, SayStep, StageStays DEF Fail, Workflow!Open, stageBar
<1> QED
  BY <1>1, <1>2 DEF init

\* idrisiser_free is Close.
LEMMA FreeRefines ==
    ASSUME IInv, NEW t \in Threads, NEW h \in Handles, free(t, h)
    PROVE  Workflow!Close(t, h)
<1>1. CASE h = NULL /\ Answer(t, "free", h, 0)
  BY <1>1, SayStep, StageStays DEF Answer, Workflow!Close, stageBar
<1>2. CASE h # NULL /\ Update(h, NoEngine) /\ Succeed(t, "free", h, 0)
  <2>1. Workflow!Move(h, StageOf(NoEngine))
    BY <1>2, WhereItStands, MoveStep
  <2>2. StageOf(NoEngine) = Workflow!Closed
    BY DEF StageOf, NoEngine, Workflow!Closed
  <2> QED
    BY <1>2, <2>1, <2>2, SayStep DEF Succeed, Workflow!Close
<1> QED
  BY <1>1, <1>2 DEF free

\* idrisiser_parse_interface is Load.
LEMMA ParseRefines ==
    ASSUME IInv, NEW t \in Threads, NEW h \in Handles, NEW hasPath \in BOOLEAN,
           NEW format \in FormatCodes, parse_interface(t, h, hasPath, format)
    PROVE  Workflow!Load(t, h)
<1> DEFINE op == "parse_interface"
           e == [engine[h] EXCEPT !.interface_loaded = TRUE, !.obligation_count = 0,
                                  !.discharged_count = 0, !.proofs_compiled = FALSE]
<1>1. ASSUME NEW code \in {ERROR, INVALID_PARAM, NULL_POINTER}, Fail(t, op, h, code)
      PROVE  Workflow!Load(t, h)
  BY <1>1, SayStep, StageStays
     DEF Fail, Workflow!Load, stageBar, ERROR, INVALID_PARAM, NULL_POINTER
<1>2. CASE ~Unusable(h) /\ Update(h, e) /\ Succeed(t, op, h, OK)
  <2>1. h \in Live /\ engine[h] \in EngineState /\ engine[h].initialized
    BY <1>2, WhereItStands
  <2>2. e.initialized /\ e.interface_loaded /\ ~e.proofs_compiled /\ e.obligation_count = 0
    BY <2>1 DEF EngineState
  <2>3. StageOf(e) = Workflow!Loaded
    BY <2>2 DEF StageOf, Workflow!Loaded
  <2>4. Workflow!Move(h, StageOf(e))
    BY <1>2, <2>1, MoveStep
  <2> QED
    BY <1>2, <2>3, <2>4, SayStep DEF Succeed, Workflow!Load, OK
<1> QED
  BY <1>1, <1>2 DEF parse_interface, FailUnusable

\* What the guards on the fields say of the stage
LEMMA StageGuards ==
    ASSUME IInv, NEW h \in Live
    PROVE  /\ Workflow!At(h, {"loaded", "derived", "proved"}) <=> engine[h].interface_loaded
           /\ Workflow!At(h, {"derived", "proved"}) <=> engine[h].obligation_count # 0
           /\ Workflow!At(h, {"proved"}) <=> engine[h].proofs_compiled
           /\ Workflow!At(h, {"derived"}) <=>
                 ~engine[h].proofs_compiled /\ engine[h].obligation_count # 0
           /\ stageBar[h].due = engine[h].obligation_count
  BY DEF Workflow!At, StageOf, Live, IInv, FieldsAgree, stageBar

\* The null handle is at no stage of the workflow.
LEMMA NullHasNoStage == ASSUME NEW S PROVE ~Workflow!At(NULL, S)
  BY NullAssumption DEF Workflow!At

\* idrisiser_generate_proofs is the workflow's derivation.
LEMMA GenerateRefines ==
    ASSUME IInv, NEW t \in Threads, NEW h \in Handles, generate_proofs(t, h)
    PROVE  Workflow!Derive(t, h)
<1> DEFINE op == "generate_proofs"
           e(n) == [engine[h] EXCEPT !.obligation_count = n, !.discharged_count = 0,
                                     !.proofs_compiled = FALSE]
<1>1. CASE Unusable(h) /\ Fail(t, op, h, 0)
  <2>1. h = NULL
    BY <1>1, WhereItStands
  <2> QED
    BY <1>1, <2>1, SayStep, StageStays, NullHasNoStage DEF Fail, Workflow!Derive, stageBar
<1>2. CASE ~Unusable(h) /\ ~engine[h].interface_loaded /\ Fail(t, op, h, 0)
  <2>1. h \in Live
    BY <1>2, WhereItStands
  <2> QED
    BY <1>2, <2>1, SayStep, StageStays, StageGuards DEF Fail, Workflow!Derive, stageBar
<1>3. ASSUME ~Unusable(h), engine[h].interface_loaded,
             NEW n \in DerivedCounts, Update(h, e(n)), Succeed(t, op, h, n)
      PROVE  Workflow!Derive(t, h)
  <2>1. h \in Live /\ engine[h] \in EngineState /\ engine[h].initialized
    BY <1>3, WhereItStands
  <2>2. /\ e(n).initialized /\ e(n).interface_loaded /\ ~e(n).proofs_compiled
        /\ e(n).obligation_count = n
    BY <1>3, <2>1 DEF EngineState
  <2>3. StageOf(e(n)) = Workflow!Derived(n)
    BY <2>2 DEF StageOf, Workflow!Derived, Workflow!Loaded
  <2>4. Workflow!Move(h, StageOf(e(n)))
    BY <1>3, <2>1, MoveStep
  <2>5. Workflow!Say(t, op, h, n)
    BY <1>3, SayStep DEF Succeed
  <2> QED
    BY <1>3, <2>1, <2>3, <2>4, <2>5, StageGuards DEF Workflow!Derive
<1> QED
  BY <1>1, <1>2, <1>3 DEF generate_proofs, FailUnusable

\* idrisiser_compile_proofs is the workflow's compilation.
LEMMA CompileRefines ==
    ASSUME IInv, NEW t \in Threads, NEW h \in Handles, compile_proofs(t, h)
    PROVE  Workflow!Prove(t, h)
<1> DEFINE op == "compile_proofs"
           e == [engine[h] EXCEPT !.proofs_compiled = TRUE,
                                  !.discharged_count = engine[h].obligation_count]
<1>1. ASSUME Unusable(h), NEW code \in {NULL_POINTER, ERROR}, Fail(t, op, h, code)
      PROVE  Workflow!Prove(t, h)
  <2>1. h = NULL
    BY <1>1, WhereItStands
  <2> QED
    BY <1>1, <2>1, SayStep, StageStays, NullHasNoStage
       DEF Fail, Workflow!Prove, stageBar, NULL_POINTER, ERROR
<1>2. CASE ~Unusable(h) /\ engine[h].obligation_count = 0 /\ Fail(t, op, h, ERROR)
  <2>1. h \in Live
    BY <1>2, WhereItStands
  <2> QED
    BY <1>2, <2>1, SayStep, StageStays, StageGuards DEF Fail, Workflow!Prove, stageBar, ERROR
<1>3. CASE /\ ~Unusable(h) /\ engine[h].obligation_count # 0
           /\ Update(h, e) /\ Succeed(t, op, h, OK)
  <2>1. h \in Live /\ engine[h] \in EngineState /\ engine[h].initialized
    BY <1>3, WhereItStands
  <2>2. engine[h].interface_loaded
    BY <1>3, <2>1 DEF IInv, FieldsAgree, Live
  <2>3. /\ e.initialized /\ e.interface_loaded /\ e.proofs_compiled
        /\ e.obligation_count = engine[h].obligation_count
    BY <2>1, <2>2 DEF EngineState
  <2>4. StageOf(e) = Workflow!Proved(engine[h].obligation_count)
    BY <2>3 DEF StageOf, Workflow!Proved
  <2>5. Workflow!Move(h, StageOf(e))
    BY <1>3, <2>1, MoveStep
  <2> QED
    BY <1>3, <2>1, <2>4, <2>5, SayStep, StageGuards DEF Succeed, Workflow!Prove, OK, stageBar
<1> QED
  BY <1>1, <1>2, <1>3 DEF compile_proofs, FailUnusable

\* idrisiser_emit_wrapper is the workflow's emission, refused for its reason.
LEMMA EmitRefines ==
    ASSUME IInv, NEW t \in Threads, NEW h \in Handles, NEW hasPath \in BOOLEAN,
           emit_wrapper(t, h, hasPath)
    PROVE  Workflow!Emit(t, h)
<1> DEFINE op == "emit_wrapper"
           code == EmitCode(engine[h], hasPath)
<1>1. ASSUME Unusable(h), NEW c \in {NULL_POINTER, ERROR}, Fail(t, op, h, c)
      PROVE  Workflow!Emit(t, h)
  <2>1. h = NULL
    BY <1>1, WhereItStands
  <2> QED
    BY <1>1, <2>1, SayStep, StageStays, NullHasNoStage
       DEF Fail, Workflow!Emit, stageBar, NULL_POINTER, ERROR
<1>2. CASE ~Unusable(h) /\ (Fail(t, op, h, code) \/ (code = OK /\ Succeed(t, op, h, OK)
                                                     /\ UNCHANGED engine))
  <2>1. h \in Live
    BY <1>2, WhereItStands
  <2>2. CASE engine[h].proofs_compiled
    <3>1. engine[h].discharged_count = engine[h].obligation_count
      BY <2>1, <2>2 DEF IInv, FieldsAgree, Live
    <3>2. code \in {0, 4}
      BY <2>2, <3>1 DEF EmitCode, OK, NULL_POINTER
    <3> QED
      BY <1>2, <2>1, <2>2, <3>2, SayStep, StageStays, StageGuards
         DEF Fail, Succeed, Workflow!Emit, stageBar
  <2>3. CASE ~engine[h].proofs_compiled
    <3>1. code = 1 /\ code # OK
      BY <2>3 DEF EmitCode, ERROR, OK
    <3> QED
      BY <1>2, <2>1, <2>3, <3>1, SayStep, StageStays, StageGuards
         DEF Fail, Workflow!Emit, stageBar
  <2> QED
    BY <2>2, <2>3
<1> QED
  BY <1>1, <1>2 DEF emit_wrapper, FailUnusable

\* The queries answer what the stage tells.
LEMMA QueriesRefine ==
    ASSUME IInv, NEW t \in Threads, NEW h \in Handles,
           \/ is_initialized(t, h) \/ discharged_count(t, h) \/ remaining_count(t, h)
    PROVE  Workflow!Count(t, h)
<1>1. UNCHANGED stageBar
  BY StageStays DEF is_initialized, discharged_count, remaining_count, Answer
<1>2. CASE h = NULL
  <2>1. Unusable(h)
    BY <1>2, WhereItStands
  <2> QED
    BY <1>1, <1>2, <2>1, SayStep, NullHasNoStage
       DEF Workflow!Count, stageBar, is_initialized, discharged_count, remaining_count, Answer
<1>3. CASE h # NULL
  <2>1. h \in Live /\ engine[h] \in EngineState /\ ~Unusable(h)
    BY <1>3, WhereItStands
  <2>2. engine[h].discharged_count =
           IF Workflow!At(h, {"proved"}) THEN stageBar[h].due ELSE 0
    BY <2>1, StageGuards DEF IInv, FieldsAgree, Live
  <2>3. /\ engine[h].obligation_count \in U32
        /\ engine[h].discharged_count =
              IF engine[h].proofs_compiled THEN engine[h].obligation_count ELSE 0
    BY <2>1 DEF IInv, FieldsAgree, Live, EngineState
  <2>4. remaining(engine[h]) = IF Workflow!At(h, {"derived"}) THEN stageBar[h].due ELSE 0
    <3>1. CASE engine[h].proofs_compiled
      <4>1. engine[h].obligation_count - engine[h].discharged_count = 0 /\ 0 \in U32
        BY <2>3, <3>1, CounterAssumption DEF U32
      <4> QED
        BY <2>1, <3>1, <4>1, NoWrap, StageGuards DEF remaining
    <3>2. CASE ~engine[h].proofs_compiled
      <4>1. engine[h].obligation_count - engine[h].discharged_count
              = engine[h].obligation_count
        BY <2>3, <3>2, CounterAssumption DEF U32
      <4>2. remaining(engine[h]) = engine[h].obligation_count
        BY <2>3, <4>1, NoWrap DEF remaining
      <4> QED
        BY <2>1, <3>2, <4>2, StageGuards
    <3> QED
      BY <3>1, <3>2
  <2>5. CASE is_initialized(t, h)
    <3>1. Workflow!Say(t, "is_initialized", h, IF h = NULL THEN 0 ELSE 1)
      BY <1>3, <2>1, <2>5, SayStep DEF is_initialized, Answer
    <3> QED
      BY <1>1, <3>1 DEF Workflow!Count, stageBar
  <2>6. CASE discharged_count(t, h)
    <3>1. Workflow!Say(t, "discharged_count", h, engine[h].discharged_count)
      BY <1>3, <2>6, SayStep DEF discharged_count, Answer
    <3> QED
      BY <1>1, <2>2, <3>1 DEF Workflow!Count, stageBar
  <2>7. CASE remaining_count(t, h)
    <3>1. Workflow!Say(t, "remaining_count", h, remaining(engine[h]))
      BY <1>3, <2>7, SayStep DEF remaining_count, Answer
    <3> QED
      BY <1>1, <2>4, <3>1 DEF Workflow!Count, stageBar
  <2> QED
    BY <2>5, <2>6, <2>7
<1> QED
  BY <1>2, <1>3

\* Calls about strings and errors leave the workflow where it is.
LEMMA StringsRefine ==
    ASSUME IInv, NEW t \in Threads,
           \/ \E h \in Handles : get_string(t, h)
           \/ \E s \in strings \cup {NULL} : free_string(t, s)
           \/ last_error(t)
    PROVE  \E h \in Workflow!Handles : Workflow!Talk(t, h)
<1>1. Unused \subseteq Addr
  BY DEF Unused
<1>2. ASSUME NEW op \in {"get_string", "free_string", "last_error"},
             NEW h \in Handles, NEW val \in Addr \cup {NULL, 0}, NEW done,
             Return(t, op, h, val, done), UNCHANGED engine
      PROVE  \E x \in Workflow!Handles : Workflow!Talk(t, x)
  <2>1. h \in Workflow!Handles /\ Workflow!Say(t, op, h, val) /\ UNCHANGED stageBar
    BY <1>2, WhereItStands, SayStep, StageStays
  <2> QED
    BY <2>1 DEF Workflow!Talk, stageBar
<1>3. NULL \in Handles
  BY DEF Handles
<1>4. ASSUME NEW h \in Handles, get_string(t, h)
      PROVE  \E x \in Workflow!Handles : Workflow!Talk(t, x)
  BY <1>1, <1>2, <1>4 DEF get_string, FailUnusable, Fail, Succeed
<1>5. ASSUME (\E s \in strings \cup {NULL} : free_string(t, s)) \/ last_error(t)
      PROVE  \E x \in Workflow!Handles : Workflow!Talk(t, x)
  BY <1>1, <1>2, <1>3, <1>5 DEF free_string, last_error, Answer
<1> QED
  BY <1>4, <1>5

(* The engine implements the workflow, for every number of handles and threads *)
(* and every count of obligations an interface may give rise to.               *)
THEOREM EngineImplementsWorkflow == Spec => ImplementsWorkflow
<1>1. Init => Workflow!Init
  BY DEF Init, Workflow!Init, StageOf, NoEngine, Workflow!Closed, Seen, NoReply,
         Workflow!Silent
<1>2. IInv /\ [Next]_vars => [Workflow!Next]_(Workflow!vars)
  <2> SUFFICES ASSUME IInv, [Next]_vars PROVE [Workflow!Next]_(Workflow!vars)
    OBVIOUS
  <2>1. CASE Next
    <3>1. PICK t \in Threads :
             \/ init(t)
             \/ \E h \in Handles :
                   \/ free(t, h)
                   \/ is_initialized(t, h) \/ discharged_count(t, h) \/ remaining_count(t, h)
                   \/ \E hasPath \in BOOLEAN, format \in FormatCodes :
                         parse_interface(t, h, hasPath, format)
                   \/ generate_proofs(t, h)
                   \/ compile_proofs(t, h)
                   \/ \E hasPath \in BOOLEAN : emit_wrapper(t, h, hasPath)
                   \/ get_string(t, h)
             \/ (\E s \in strings \cup {NULL} : free_string(t, s)) \/ last_error(t)
      BY <2>1 DEF Next
    <3>2. \A h \in Handles : h \in Workflow!Handles
      BY WhereItStands
    <3>3. \/ Workflow!Open(t)
          \/ \E h \in Workflow!Handles :
                \/ Workflow!Close(t, h) \/ Workflow!Load(t, h) \/ Workflow!Derive(t, h)
                \/ Workflow!Prove(t, h) \/ Workflow!Emit(t, h) \/ Workflow!Count(t, h)
                \/ Workflow!Talk(t, h)
      BY <3>1, <3>2, InitRefines, FreeRefines, ParseRefines, GenerateRefines, CompileRefines,
         EmitRefines, QueriesRefine, StringsRefine
    <3> QED
      BY <3>3 DEF Workflow!Next
  <2>2. CASE UNCHANGED vars
    BY <2>2 DEF vars, Workflow!vars
  <2> QED
    BY <2>1, <2>2
<1> QED
  BY <1>1, <1>2, InductiveInvariant, PTL DEF Spec, ImplementsWorkflow, Workflow!Spec

================================================================================
