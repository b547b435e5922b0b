----------------------------- MODULE EngineThreads -----------------------------
(***************************************************************************)
(* The exported functions of main.zig as threads run them.  A call enters: *)
(* it evaluates its guards, allocates, and decides what it will store.  It *)
(* then stores the fields one by one, in any order, since the stores are   *)
(* plain and the optimizer may move them.  It leaves by setting or         *)
(* clearing the error of its thread and returning.                         *)
(*                                                                         *)
(* engine holds what is in memory: a block keeps its stale contents when   *)
(* it is destroyed, and a new engine starts with whatever is there.        *)
(*                                                                         *)
(* The engine takes no lock, so its callers must keep calls on one handle  *)
(* apart; MayCall is all that is asked of them.  Queries may overlap the   *)
(* calls that change an engine, as a thread that polls the progress of     *)
(* another does; what such a query returns is a data race and is not       *)
(* recorded.                                                               *)
(***************************************************************************)
EXTENDS ProofEngine

VARIABLES
    owned,    \* blocks allocated to engines
    becomes,  \* what a block holds once the call that changes it is done with it
    call      \* the call each thread is in

threadVars == <<engine, strings, lastError, reply, owned, becomes, call>>

Queries == {"is_initialized", "discharged_count", "remaining_count"}

Fields == {"initialized", "obligation_count", "discharged_count",
           "interface_loaded", "proofs_compiled"}

\* on: the block the call works on; answer: what it will return; todo: the
\* fields it still has to store; raced: a query that overlapped a call that
\* changes the engine
NoCall == [on |-> NULL, answer |-> NoReply, todo |-> {}, raced |-> FALSE]

InCall(t)  == call[t] # NoCall
Op(t)      == call[t].answer.op
Free       == Addr \ (owned \cup strings)

ThreadsInit == /\ Init
               /\ owned = {}
               /\ becomes = [a \in Addr |-> NoEngine]
               /\ call = [t \in Threads |-> NoCall]

--------------------------------------------------------------------------------
\* Callers

OnIt(h)    == {t \in Threads : h # NULL /\ call[t].on = h}
Changing(h) == {t \in OnIt(h) : Op(t) \notin Queries}

\* A handle is known to callers once the init that made it has returned; calls
\* that change an engine come one at a time, and free comes alone
Known == {h \in owned : \A t \in OnIt(h) : Op(t) # "init"}
MayCall(op, h) ==
    \/ h = NULL
    \/ /\ h \in Known
       /\ op \notin Queries => Changing(h) = {}
       /\ op = "free" => OnIt(h) = {}
       /\ \A t \in OnIt(h) : Op(t) # "free"

--------------------------------------------------------------------------------
\* Entering a call

\* t works on the block `on`, has the fields todo to store and will return val
Enter(t, op, h, on, val, done, todo) ==
    call' = [u \in Threads |->
        IF u = t
        THEN [on |-> on, answer |-> [op |-> op, h |-> h, val |-> val, done |-> done],
              todo |-> todo, raced |-> op \in Queries /\ Changing(on) # {}]
        ELSE [call[u] EXCEPT !.raced = @ \/ /\ u \in OnIt(on) /\ Op(u) \in Queries
                                            /\ op \notin Queries]]

\* The guards of the call turned it away: it only has an error to set
Refuse(t, op, h, val) ==
    /\ Enter(t, op, h, h, val, FALSE, {})
    /\ UNCHANGED <<engine, strings, owned, becomes>>

\* The call changes nothing, but may have an error to clear
Accept(t, op, h, val) ==
    /\ Enter(t, op, h, h, val, TRUE, {})
    /\ UNCHANGED <<engine, strings, owned, becomes>>

\* The call will store the fields todo, and so make of block h an e
Change(t, op, h, val, e, todo) ==
    /\ Enter(t, op, h, h, val, TRUE, todo)
    /\ becomes' = [becomes EXCEPT ![h] = e]
    /\ UNCHANGED <<engine, strings, owned>>

EnterInit(t) ==
    \/ Refuse(t, "init", NULL, NULL)
    \/ \E a \in Free :
          /\ owned' = owned \cup {a}
          /\ becomes' = [becomes EXCEPT ![a] = [NoEngine EXCEPT !.initialized = TRUE]]
          /\ Enter(t, "init", NULL, a, a, TRUE, Fields)
          /\ UNCHANGED <<engine, strings>>

EnterFree(t, h) ==
    \/ h = NULL /\ Accept(t, "free", h, 0)
    \/ h # NULL /\ Change(t, "free", h, 0, NoEngine, {"initialized"})

\* What a query answers is read when it leaves
EnterQuery(t, op, h) == Accept(t, op, h, 0)

\* (Mutant) The stores of parse_interface leave out discharged_count.
EnterParse_KeepsDischarged(t, h, hasPath, format) ==
    /\ h # NULL /\ engine[h].initialized /\ hasPath /\ format <= 3
    /\ Change(t, "parse_interface", h, OK,
              [engine[h] EXCEPT !.interface_loaded = TRUE, !.obligation_count = 0,
                                !.proofs_compiled = FALSE],
              {"interface_loaded", "obligation_count", "proofs_compiled"})

EnterParse(t, h, hasPath, format) ==
    LET op == "parse_interface" IN
    IF h = NULL                     THEN Refuse(t, op, h, NULL_POINTER)
    ELSE IF ~engine[h].initialized  THEN Refuse(t, op, h, ERROR)
    ELSE IF ~hasPath                THEN Refuse(t, op, h, NULL_POINTER)
    ELSE IF format > 3              THEN Refuse(t, op, h, INVALID_PARAM)
    ELSE Change(t, op, h, OK,
                [engine[h] EXCEPT !.interface_loaded = TRUE, !.obligation_count = 0,
                                  !.discharged_count = 0, !.proofs_compiled = FALSE],
                {"interface_loaded", "obligation_count", "discharged_count", "proofs_compiled"})

EnterGenerate(t, h) ==
    LET op == "generate_proofs" IN
    IF h = NULL                                                    THEN Refuse(t, op, h, 0)
    ELSE IF ~engine[h].initialized \/ ~engine[h].interface_loaded  THEN Refuse(t, op, h, 0)
    ELSE \E n \in DerivedCounts :
            Change(t, op, h, n,
                   [engine[h] EXCEPT !.obligation_count = n, !.discharged_count = 0,
                                     !.proofs_compiled = FALSE],
                   {"obligation_count", "discharged_count", "proofs_compiled"})

\* (Mutant) Each compilation adds what it discharged to the count.
EnterCompile_Accumulates(t, h) ==
    /\ h # NULL
    /\ engine[h].obligation_count # 0
    /\ Change(t, "compile_proofs", h, OK,
              [engine[h] EXCEPT !.proofs_compiled = TRUE,
                                !.discharged_count = @ + engine[h].obligation_count],
              {"proofs_compiled", "discharged_count"})

EnterCompile(t, h) ==
    LET op == "compile_proofs" IN
    IF h = NULL                                                      THEN Refuse(t, op, h, NULL_POINTER)
    ELSE IF ~engine[h].initialized \/ engine[h].obligation_count = 0 THEN Refuse(t, op, h, ERROR)
    ELSE Change(t, op, h, OK,
                [engine[h] EXCEPT !.proofs_compiled = TRUE,
                                  !.discharged_count = engine[h].obligation_count],
                {"proofs_compiled", "discharged_count"})

EnterEmit(t, h, hasPath) ==
    LET op == "emit_wrapper" IN
    IF h = NULL                    THEN Refuse(t, op, h, NULL_POINTER)
    ELSE IF ~engine[h].initialized THEN Refuse(t, op, h, ERROR)
    ELSE LET code == EmitCode(engine[h], hasPath)
         IN  IF code = OK THEN Accept(t, op, h, OK) ELSE Refuse(t, op, h, code)

\* allocator.dupeZ
TakeString(t, op, h) ==
    \E s \in Free : /\ strings' = strings \cup {s}
                    /\ Enter(t, op, h, h, s, TRUE, {})
                    /\ UNCHANGED <<engine, owned, becomes>>

EnterGetString(t, h) ==
    \/ Refuse(t, "get_string", h, NULL)
    \/ h # NULL /\ engine[h].initialized /\ TakeString(t, "get_string", h)

EnterFreeString(t, s) ==
    /\ strings' = strings \ {s}
    /\ Enter(t, "free_string", NULL, NULL, 0, TRUE, {})
    /\ UNCHANGED <<engine, owned, becomes>>

EnterLastError(t) ==
    \/ Accept(t, "last_error", NULL, NULL)
    \/ lastError[t] # NoError /\ TakeString(t, "last_error", NULL)

\* What a thread that is in no call may call, and with which handle
Calls(t) ==
    /\ ~InCall(t)
    /\ \/ EnterInit(t)
       \/ \E h \in Addr \cup {NULL} :
             \/ MayCall("free", h) /\ EnterFree(t, h)
             \/ \E op \in Queries : MayCall(op, h) /\ EnterQuery(t, op, h)
             \/ /\ MayCall("parse_interface", h)
                /\ \E hasPath \in BOOLEAN, format \in FormatCodes : EnterParse(t, h, hasPath, format)
             \/ MayCall("generate_proofs", h) /\ EnterGenerate(t, h)
             \/ MayCall("compile_proofs", h) /\ EnterCompile(t, h)
             \/ MayCall("emit_wrapper", h) /\ \E hasPath \in BOOLEAN : EnterEmit(t, h, hasPath)
             \/ MayCall("get_string", h) /\ EnterGetString(t, h)
       \/ \E s \in strings \cup {NULL} : EnterFreeString(t, s)
       \/ EnterLastError(t)
    /\ UNCHANGED <<lastError, reply>>

--------------------------------------------------------------------------------
\* Inside a call, and leaving it

Store(t) ==
    LET c == call[t] IN
    /\ \E f \in c.todo :
          /\ engine' = [engine EXCEPT ![c.on][f] = becomes[c.on][f]]
          /\ call' = [call EXCEPT ![t].todo = @ \ {f}]
    /\ UNCHANGED <<strings, lastError, reply, owned, becomes>>

\* (Mutant) The block is destroyed before it is marked as no longer initialized.
Destroy_BeforeStore(t) ==
    /\ Op(t) = "free" /\ call[t].on # NULL
    /\ IF call[t].todo # {}
       THEN owned' = owned \ {call[t].on} /\ UNCHANGED call
       ELSE call' = [call EXCEPT ![t].on = NULL] /\ UNCHANGED owned
    /\ UNCHANGED <<engine, strings, lastError, reply, becomes>>

\* allocator.destroy: from here on the block may be handed out again
Destroy(t) ==
    /\ Op(t) = "free" /\ call[t].on # NULL /\ call[t].todo = {}
    /\ owned' = owned \ {call[t].on}
    /\ call' = [call EXCEPT ![t].on = NULL]
    /\ UNCHANGED <<engine, strings, lastError, reply, becomes>>

\* What a query reads
Read(op, e) ==
    IF op = "is_initialized"        THEN IF e.initialized THEN 1 ELSE 0
    ELSE IF op = "discharged_count" THEN e.discharged_count
                                    ELSE remaining(e)

\* The error of the thread after a call that was answered with r
ErrorAfter(r, before) ==
    IF ~r.done                                                      THEN Message
    ELSE IF r.op \in Reporting \/ (r.op = "free" /\ r.h # NULL)     THEN NoError
                                                                    ELSE before

Leave(t) ==
    LET c == call[t]
        answer == IF Op(t) \in Queries /\ c.on # NULL
                  THEN [c.answer EXCEPT !.val = Read(Op(t), engine[c.on])]
                  ELSE c.answer
    IN  /\ InCall(t)
        /\ c.todo = {}
        /\ Op(t) = "free" => c.on = NULL
        /\ lastError' = [lastError EXCEPT ![t] = ErrorAfter(c.answer, @)]
        /\ reply' = [reply EXCEPT ![t] = IF c.raced THEN @ ELSE answer]
        /\ call' = [call EXCEPT ![t] = NoCall]
        /\ UNCHANGED <<engine, strings, owned, becomes>>

ThreadsNext == \E t \in Threads : Calls(t) \/ Store(t) \/ Destroy(t) \/ Leave(t)

ThreadsSpec == ThreadsInit /\ [][ThreadsNext]_threadVars

--------------------------------------------------------------------------------
\* The atomic engine this one stands for: a call happens when it enters, a query
\* when it leaves.  Until a call has stored everything its block already counts
\* as changed, and its thread as answered.
Happened(t) == InCall(t) /\ Op(t) \notin Queries

Atomic == INSTANCE ProofEngine WITH
    engine    <- becomes,
    lastError <- [t \in Threads |-> IF Happened(t) THEN ErrorAfter(call[t].answer, lastError[t])
                                                   ELSE lastError[t]],
    reply     <- [t \in Threads |-> IF Happened(t) THEN call[t].answer ELSE reply[t]]

(* However the loads and stores of several threads interleave, and in whatever *)
(* order the stores of a call are performed, every call that its callers keep  *)
(* apart from others on the same handle behaves as one atomic step of          *)
(* ProofEngine: no call sees half of another, a block that is freed and handed *)
(* out again before free returns (main.zig:102-104) is a new engine with none  *)
(* of the old contents, and polling disturbs nobody.                           *)
ImplementsAtomicEngine == Atomic!Spec

(* The variables have their types -- counters stay within 32 bits -- and no    *)
(* block is an engine and a caller's string at once.                           *)
ThreadsTypeOK ==
    /\ engine \in [Addr -> EngineState]
    /\ strings \subseteq Addr /\ owned \subseteq Addr /\ owned \cap strings = {}
    /\ lastError \in [Threads -> {NoError, Message}]
    /\ reply \in [Threads -> Reply]
    /\ becomes \in [Addr -> EngineState]
    /\ call \in [Threads -> [on : Addr \cup {NULL}, answer : Reply, todo : SUBSET Fields,
                            raced : BOOLEAN]]

(* What lies in memory is consistent whenever someone may look: an engine that *)
(* no call is changing holds counters and flags that agree, however many       *)
(* half-done calls it went through and in whatever order their stores became   *)
(* visible, so that remaining_count (main.zig:230) cannot wrap for a caller    *)
(* that polls while nothing runs.                                              *)
EnginesAtRest ==
    \A h \in owned : Changing(h) = {} => engine[h].initialized /\ CountersAgree(engine[h])

================================================================================
