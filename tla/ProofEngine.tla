------------------------------ MODULE ProofEngine ------------------------------
(***************************************************************************)
(* The Zig proof engine of src/interface/ffi/src/main.zig: engine states   *)
(* on the C heap behind opaque handles, a last error per thread, and one   *)
(* action per exported function.  A call is one step here; EngineThreads   *)
(* takes the calls apart into their loads and stores.                      *)
(*                                                                         *)
(* Callers pass the null handle or a handle that init returned and nobody  *)
(* freed: what a call does to a freed block is undefined.                  *)
(***************************************************************************)
EXTENDS Integers

CONSTANTS
    Threads,       \* threads that call the library
    Addr,          \* addresses of heap blocks, each big enough for an engine
    NULL,          \* the null pointer
    FormatCodes,   \* the u32 format codes callers pass
    DerivedCounts, \* what "obligation derivation" (a placeholder that stores
                   \* 0 in the code today, main.zig:180) may count: {0} is the
                   \* code as it is, more values are what its guards are for
    MaxU32         \* largest value of the u32 counters

ASSUME NullAssumption    == NULL \notin Addr
ASSUME CounterAssumption == MaxU32 \in Nat /\ DerivedCounts \subseteq 0 .. MaxU32
ASSUME FormatAssumption  == FormatCodes \subseteq Nat

VARIABLES
    engine,     \* contents of the block at an address, as an EngineState
    strings,    \* blocks that hold a string handed to a caller
    lastError,  \* threadlocal last_error
    reply       \* the last call of each thread and what it returned

vars == <<engine, strings, lastError, reply>>

\* enum Result
OK             == 0
ERROR          == 1
INVALID_PARAM  == 2
OUT_OF_MEMORY  == 3
NULL_POINTER   == 4
PROOF_FAILURE  == 5
Result == {OK, ERROR, INVALID_PARAM, OUT_OF_MEMORY, NULL_POINTER, PROOF_FAILURE}

U32 == 0 .. MaxU32

\* struct EngineState; the allocator is the heap itself
EngineState == [initialized : BOOLEAN, obligation_count : U32, discharged_count : U32,
                interface_loaded : BOOLEAN, proofs_compiled : BOOLEAN]

\* A block that holds no engine
NoEngine == [initialized |-> FALSE, obligation_count |-> 0, discharged_count |-> 0,
             interface_loaded |-> FALSE, proofs_compiled |-> FALSE]

\* last_error is null or a message; which message is not modelled
NoError == "none"
Message == "message"

\* The exported functions that set or clear the error of the calling thread
Reporting == {"init", "parse_interface", "generate_proofs", "compile_proofs",
              "emit_wrapper", "get_string"}

Ops == Reporting \cup {"none", "free", "is_initialized", "discharged_count",
                        "remaining_count", "free_string", "last_error"}

Live    == {a \in Addr : engine[a].initialized}
Handles == Live \cup {NULL}
Unused  == Addr \ (Live \cup strings)

Reply == [op : Ops, h : Addr \cup {NULL},
          val : U32 \cup Result \cup Addr \cup {NULL}, done : BOOLEAN]
NoReply == [op |-> "none", h |-> NULL, val |-> 0, done |-> TRUE]

Init == /\ engine = [a \in Addr |-> NoEngine]
        /\ strings = {}
        /\ lastError = [t \in Threads |-> NoError]
        /\ reply = [t \in Threads |-> NoReply]

--------------------------------------------------------------------------------
\* How a call returns: done says whether the handler reached its end

Return(t, op, h, val, done) ==
    reply' = [reply EXCEPT ![t] = [op |-> op, h |-> h, val |-> val, done |-> done]]

\* ... clearError(); return val
Succeed(t, op, h, val) ==
    /\ lastError' = [lastError EXCEPT ![t] = NoError]
    /\ Return(t, op, h, val, TRUE)

\* (Mutant) last_error is a plain global instead of a threadlocal.
Fail_SharedError(t, op, h, val) ==
    /\ lastError' = [u \in Threads |-> Message]
    /\ Return(t, op, h, val, FALSE)
    /\ UNCHANGED <<engine, strings>>

\* setError(...); return val, before the handler has stored anything
Fail(t, op, h, val) ==
    /\ lastError' = [lastError EXCEPT ![t] = Message]
    /\ Return(t, op, h, val, FALSE)
    /\ UNCHANGED <<engine, strings>>

\* return val, leaving the error of the thread as it was
Answer(t, op, h, val) ==
    /\ Return(t, op, h, val, TRUE)
    /\ UNCHANGED <<engine, lastError>>

\* The two guards every handler that takes a handle begins with
Unusable(h) == h \notin Live  \* null, or not initialized
FailUnusable(t, op, h, onNull, onError) ==
    /\ Unusable(h)
    /\ Fail(t, op, h, IF h = NULL THEN onNull ELSE onError)

Update(h, e) == engine' = [engine EXCEPT ![h] = e] /\ UNCHANGED strings

--------------------------------------------------------------------------------
\* Lifecycle

init(t) ==
    \/ \E a \in Unused :
          /\ Update(a, [NoEngine EXCEPT !.initialized = TRUE])
          /\ Succeed(t, "init", NULL, a)
    \/ Fail(t, "init", NULL, NULL)

\* (Mutant) free does everything but destroy the engine.
free_Leaks(t, h) ==
    IF h = NULL THEN Answer(t, "free", h, 0) /\ UNCHANGED strings
                ELSE Update(h, engine[h]) /\ Succeed(t, "free", h, 0)

free(t, h) ==
    \/ h = NULL /\ Answer(t, "free", h, 0) /\ UNCHANGED strings
    \/ h # NULL /\ Update(h, NoEngine) /\ Succeed(t, "free", h, 0)

is_initialized(t, h) ==
    /\ Answer(t, "is_initialized", h, IF Unusable(h) THEN 0 ELSE 1)
    /\ UNCHANGED strings

--------------------------------------------------------------------------------
\* The workflow

\* (Mutant) Loading another interface forgets to invalidate the proofs.
parse_interface_KeepsProofs(t, h, hasPath, format) ==
    /\ ~Unusable(h) /\ hasPath /\ format <= 3
    /\ Update(h, [engine[h] EXCEPT !.interface_loaded = TRUE])
    /\ Succeed(t, "parse_interface", h, OK)

parse_interface(t, h, hasPath, format) ==
    LET op == "parse_interface" IN
    \/ FailUnusable(t, op, h, NULL_POINTER, ERROR)
    \/ ~Unusable(h) /\ ~hasPath /\ Fail(t, op, h, NULL_POINTER)
    \/ /\ ~Unusable(h) /\ hasPath /\ format > 3
       /\ Fail(t, op, h, INVALID_PARAM)
    \/ /\ ~Unusable(h) /\ hasPath /\ format <= 3
       /\ Update(h, [engine[h] EXCEPT !.interface_loaded = TRUE, !.obligation_count = 0,
                                      !.discharged_count = 0, !.proofs_compiled = FALSE])
       /\ Succeed(t, op, h, OK)

\* (Mutant) Deriving anew forgets to reset what was discharged before.
generate_proofs_KeepsDischarged(t, h) ==
    /\ ~Unusable(h) /\ engine[h].interface_loaded
    /\ \E n \in DerivedCounts :
          /\ Update(h, [engine[h] EXCEPT !.obligation_count = n, !.proofs_compiled = FALSE])
          /\ Succeed(t, "generate_proofs", h, n)

generate_proofs(t, h) ==
    LET op == "generate_proofs" IN
    \/ FailUnusable(t, op, h, 0, 0)
    \/ ~Unusable(h) /\ ~engine[h].interface_loaded /\ Fail(t, op, h, 0)
    \/ /\ ~Unusable(h) /\ engine[h].interface_loaded
       /\ \E n \in DerivedCounts :
             /\ Update(h, [engine[h] EXCEPT !.obligation_count = n, !.discharged_count = 0,
                                            !.proofs_compiled = FALSE])
             /\ Succeed(t, op, h, n)

\* (Mutant) Each compilation adds what it discharged to the count.
compile_proofs_Accumulates(t, h) ==
    /\ ~Unusable(h) /\ engine[h].obligation_count # 0
    /\ Update(h, [engine[h] EXCEPT !.proofs_compiled = TRUE,
                     !.discharged_count = @ + engine[h].obligation_count])
    /\ Succeed(t, "compile_proofs", h, OK)

compile_proofs(t, h) ==
    LET op == "compile_proofs" IN
    \/ FailUnusable(t, op, h, NULL_POINTER, ERROR)
    \/ /\ ~Unusable(h) /\ engine[h].obligation_count = 0
       /\ Fail(t, op, h, ERROR)
    \/ /\ ~Unusable(h) /\ engine[h].obligation_count # 0
       /\ Update(h, [engine[h] EXCEPT !.proofs_compiled = TRUE,
                                      !.discharged_count = engine[h].obligation_count])
       /\ Succeed(t, op, h, OK)

\* The answer to a call that passed the handle guards, in the order of its checks
EmitCode(e, hasPath) ==
    IF ~e.proofs_compiled                           THEN ERROR
    ELSE IF e.discharged_count # e.obligation_count THEN PROOF_FAILURE
    ELSE IF ~hasPath                                THEN NULL_POINTER
                                                    ELSE OK

emit_wrapper(t, h, hasPath) ==
    LET op == "emit_wrapper" IN
    \/ FailUnusable(t, op, h, NULL_POINTER, ERROR)
    \/ /\ ~Unusable(h)
       /\ EmitCode(engine[h], hasPath) # OK
       /\ Fail(t, op, h, EmitCode(engine[h], hasPath))
    \/ /\ ~Unusable(h)
       /\ EmitCode(engine[h], hasPath) = OK
       /\ Succeed(t, op, h, OK)
       /\ UNCHANGED <<engine, strings>>

--------------------------------------------------------------------------------
\* Counters: u32 arithmetic wraps

discharged_count(t, h) ==
    /\ Answer(t, "discharged_count", h, IF h = NULL THEN 0 ELSE engine[h].discharged_count)
    /\ UNCHANGED strings

remaining(e) == (e.obligation_count - e.discharged_count) % (MaxU32 + 1)

remaining_count(t, h) ==
    /\ Answer(t, "remaining_count", h, IF h = NULL THEN 0 ELSE remaining(engine[h]))
    /\ UNCHANGED strings

--------------------------------------------------------------------------------
\* Strings: dupeZ on the same heap, freed by the caller

get_string(t, h) ==
    LET op == "get_string" IN
    \/ FailUnusable(t, op, h, NULL, NULL)
    \/ ~Unusable(h) /\ Fail(t, op, h, NULL)
    \/ /\ ~Unusable(h)
       /\ \E s \in Unused : strings' = strings \cup {s} /\ Succeed(t, op, h, s)
       /\ UNCHANGED engine

free_string(t, s) ==
    /\ strings' = strings \ {s}
    /\ Answer(t, "free_string", NULL, 0)

\* A copy of the error of this thread; also null when there is no memory for it
last_error(t) ==
    \/ Answer(t, "last_error", NULL, NULL) /\ UNCHANGED strings
    \/ /\ lastError[t] # NoError
       /\ \E s \in Unused : strings' = strings \cup {s} /\ Answer(t, "last_error", NULL, s)

--------------------------------------------------------------------------------
Next == \E t \in Threads :
    \/ init(t)
    \/ \E h \in Handles :
          \/ free(t, h)
          \/ is_initialized(t, h)
          \/ \E hasPath \in BOOLEAN, format \in FormatCodes :
                parse_interface(t, h, hasPath, format)
          \/ generate_proofs(t, h)
          \/ compile_proofs(t, h)
          \/ \E hasPath \in BOOLEAN : emit_wrapper(t, h, hasPath)
          \/ discharged_count(t, h)
          \/ remaining_count(t, h)
          \/ get_string(t, h)
    \/ \E s \in strings \cup {NULL} : free_string(t, s)
    \/ last_error(t)

Spec == Init /\ [][Next]_vars

--------------------------------------------------------------------------------
TypeOK ==
    /\ engine \in [Addr -> EngineState]
    /\ strings \subseteq Addr
    /\ lastError \in [Threads -> {NoError, Message}]
    /\ reply \in [Threads -> Reply]

\* What the fields of an engine say of one another
CountersAgree(e) ==
    /\ e.proofs_compiled <=> e.discharged_count # 0
    /\ e.discharged_count \in {0, e.obligation_count}
    /\ e.obligation_count # 0 => e.interface_loaded
    /\ remaining(e) = e.obligation_count - e.discharged_count

(* The counters and flags of a live engine never drift apart over any sequence *)
(* of loads, derivations and compilations: it is compiled exactly when there   *)
(* was something to prove and all of it is proved, only what a loaded          *)
(* interface gave rise to is counted, and the subtraction of remaining_count   *)
(* (main.zig:230) never wraps around.                                          *)
CountersTrackProof ==
    \A a \in Live : CountersAgree(engine[a])

(* A thread that asks last_error about the reporting call it just made gets    *)
(* the truth, whatever the other threads have called, failed at or freed in    *)
(* between: a message if its own call was refused, none if it was carried out. *)
(* (main.zig:17-29: the error is thread-local, and every handler that can fail *)
(* either sets or clears it on each of its paths.)                             *)
ErrorReflectsLastCall ==
    \A t \in Threads :
       reply[t].op \in Reporting => (lastError[t] # NoError <=> ~reply[t].done)

(* "Returns the number of obligations generated, or 0 on failure"              *)
(* (main.zig:163): a caller that gets 0 finds an error to report.              *)
ZeroMeansFailure ==
    \A t \in Threads :
       reply[t].op = "generate_proofs" /\ reply[t].val = 0 => lastError[t] # NoError

(* The stage of the workflow an engine state stands for, and what a caller sees. *)
StageOf(e) ==
    [at  |-> IF ~e.initialized               THEN "closed"
             ELSE IF ~e.interface_loaded     THEN "open"
             ELSE IF e.proofs_compiled       THEN "proved"
             ELSE IF e.obligation_count # 0  THEN "derived"
                                             ELSE "loaded",
     due |-> e.obligation_count]

Seen(r) == [op |-> r.op, h |-> r.h, val |-> r.val]

Workflow == INSTANCE ProofWorkflow
              WITH Counts <- DerivedCounts,
                   stage  <- [a \in Addr |-> StageOf(engine[a])],
                   answer <- [t \in Threads |-> Seen(reply[t])]

(* The engine implements the workflow: a wrapper is emitted only when every    *)
(* obligation derived from the interface loaded now has been proved, loading   *)
(* or deriving anew invalidates earlier proofs, every refusal has its reason,  *)
(* the counters tell the stage, and no emit ever ends in proof_failure.        *)
ImplementsWorkflow == Workflow!Spec

================================================================================
