----------------------------- MODULE ForeignClient -----------------------------
(***************************************************************************)
(* Idris2 programs that use the engine through the wrappers of Foreign.idr *)
(* (src/interface/abi/Idrisiser/ABI), composed with ProofEngine: a wrapper *)
(* makes one or more calls of the engine and decodes what they return.     *)
(*                                                                         *)
(* A client runs sessions: it opens an engine, trying again while there is *)
(* none to be had, runs a script of wrapper calls until one of them is a   *)
(* Left, reads the error if it cares to, and frees the engine.             *)
(***************************************************************************)
EXTENDS ProofEngine, Sequences

CONSTANT Scripts  \* sequences of wrappers that clients call in a session

Wrappers == {"parseInterface", "generateProofs", "compileProofs", "emitWrapper", "getString"}

ASSUME ScriptsAssumption == Scripts \subseteq Seq(Wrappers)

VARIABLES
    client,  \* the session of each client; a client is a thread of the engine
    leaked   \* history: copies of error messages that no one will free

engineVars == <<engine, strings, lastError, reply>>
clientVars == <<engineVars, client, leaked>>

\* Either Result a, Maybe a: what the last wrapper of a client returned
Left(r)   == [tag |-> "Left", of |-> r]
Right     == [tag |-> "Right", of |-> "unit"]
Just      == [tag |-> "Just", of |-> "value"]
Nothing   == [tag |-> "Nothing", of |-> "unit"]
Garbage   == [tag |-> "Just", of |-> "garbage"]  \* read from a block that was freed

\* h: the handle; script: the wrappers still to call; saw: what the last one
\* returned; ptr: the string that getString is copying
Away == [at |-> "away", h |-> NULL, script |-> <<>>, saw |-> Nothing, ptr |-> NULL]

ClientInit == /\ Init
              /\ client = [c \in Threads |-> Away]
              /\ leaked = {}

--------------------------------------------------------------------------------
\* Decoding

\* (Mutant) The codes above 2 were added to the engine and not here.
resultFromCode_Old(n) ==
    CASE n = 1 -> "Error"
      [] n = 2 -> "InvalidParam"
      [] OTHER -> "Unknown"

\* (Mutant) Two of the codes are mixed up.
resultFromCode_Swapped(n) ==
    CASE n = 1 -> "Error"
      [] n = 2 -> "NullPointer"
      [] n = 4 -> "InvalidParam"
      [] OTHER -> "Error"

resultFromCode(n) ==
    CASE n = 1 -> "Error"
      [] n = 2 -> "InvalidParam"
      [] n = 3 -> "OutOfMemory"
      [] n = 4 -> "NullPointer"
      [] n = 5 -> "ProofFailure"
      [] OTHER -> "Error"

resultToInt == [Ok |-> 0, Error |-> 1, InvalidParam |-> 2, OutOfMemory |-> 3,
                NullPointer |-> 4, ProofFailure |-> 5]

--------------------------------------------------------------------------------
\* A session

Goto(c, s) == client' = [client EXCEPT ![c] = s]

Begin(c) ==
    /\ client[c].at = "away"
    /\ \E script \in Scripts : Goto(c, [Away EXCEPT !.at = "opening", !.script = script])
    /\ UNCHANGED <<engineVars, leaked>>

\* Foreign.init: createHandle makes Nothing of the null pointer
Open(c) ==
    /\ client[c].at = "opening"
    /\ init(c)
    /\ LET ptr == reply'[c].val IN
       Goto(c, IF ptr = NULL THEN [client[c] EXCEPT !.saw = Nothing]
                             ELSE [client[c] EXCEPT !.saw = Just, !.h = ptr, !.at = "working"])
    /\ UNCHANGED leaked

\* The client is about to call w
Calling(c, w) == /\ client[c].at = "working"
                 /\ client[c].script # <<>>
                 /\ Head(client[c].script) = w

\* The wrapper returned e: a Left ends the script
Got(c, e) == Goto(c, [client[c] EXCEPT !.saw = e, !.script = Tail(@),
                                       !.at = IF e.tag = "Left" THEN "failed" ELSE "working"])

parseInterface(c) ==
    /\ Calling(c, "parseInterface")
    /\ \E hasPath \in BOOLEAN, fmt \in FormatCodes : parse_interface(c, client[c].h, hasPath, fmt)
    /\ LET result == reply'[c].val IN Got(c, IF result = 0 THEN Right ELSE Left(resultFromCode(result)))
    /\ UNCHANGED leaked

generateProofs(c) ==
    /\ Calling(c, "generateProofs")
    /\ generate_proofs(c, client[c].h)
    /\ Got(c, IF reply'[c].val = 0 THEN Left("Error") ELSE Right)
    /\ UNCHANGED leaked

compileProofs(c) ==
    /\ Calling(c, "compileProofs")
    /\ compile_proofs(c, client[c].h)
    /\ Got(c, IF reply'[c].val = 0 THEN Right ELSE Left("ProofFailure"))
    /\ UNCHANGED leaked

emitWrapper(c) ==
    /\ Calling(c, "emitWrapper")
    /\ \E hasPath \in BOOLEAN : emit_wrapper(c, client[c].h, hasPath)
    /\ Got(c, IF reply'[c].val = 0 THEN Right ELSE Left("Error"))
    /\ UNCHANGED leaked

\* getString takes a string from the engine, copies it, and gives it back.  The copy
\* is a let-bound call without IO: Idris2 is strict and evaluates it before the
\* next action, and that is the one order modelled.
getString(c) ==
    /\ Calling(c, "getString")
    /\ get_string(c, client[c].h)
    /\ LET ptr == reply'[c].val IN
       IF ptr = NULL THEN Got(c, Nothing)
                     ELSE Goto(c, [client[c] EXCEPT !.at = "copying", !.ptr = ptr])
    /\ UNCHANGED leaked

Copy(c) ==
    /\ client[c].at = "copying"
    /\ Goto(c, [client[c] EXCEPT !.at = "freeing",
                                 !.saw = IF client[c].ptr \in strings THEN Just ELSE Garbage])
    /\ UNCHANGED <<engineVars, leaked>>

\* (Mutant) The copy is returned and the string forgotten.
Release_Forgets(c) ==
    /\ client[c].at = "freeing"
    /\ Goto(c, [client[c] EXCEPT !.at = "working", !.ptr = NULL, !.script = Tail(@)])
    /\ UNCHANGED <<engineVars, leaked>>

Release(c) ==
    /\ client[c].at = "freeing"
    /\ free_string(c, client[c].ptr)
    /\ Goto(c, [client[c] EXCEPT !.at = "working", !.ptr = NULL, !.script = Tail(@)])
    /\ UNCHANGED leaked

\* Foreign.lastError copies the message and never frees the block it came in
ReadError(c) ==
    /\ client[c].at = "failed"
    /\ last_error(c)
    /\ LET ptr == reply'[c].val IN
       /\ Goto(c, [client[c] EXCEPT !.at = "closing", !.saw = IF ptr = NULL THEN Nothing ELSE Just])
       /\ leaked' = leaked \cup ({ptr} \ {NULL})

\* (Mutant) The client keeps the handle for its next session.
Close_KeepsHandle(c) ==
    /\ client[c].at = "working" /\ client[c].script = <<>>
    /\ free(c, client[c].h)
    /\ \E script \in Scripts : Goto(c, [client[c] EXCEPT !.script = script])
    /\ UNCHANGED leaked

\* Foreign.free only calls the engine.  That the handle is not used after it is up to
\* the client (a Handle is not linear); this one forgets it.
Close(c) ==
    /\ \/ client[c].at = "working" /\ client[c].script = <<>>
       \/ client[c].at \in {"failed", "closing"}
    /\ free(c, client[c].h)
    /\ Goto(c, Away)
    /\ UNCHANGED leaked

Work(c) == \/ parseInterface(c) \/ generateProofs(c) \/ compileProofs(c) \/ emitWrapper(c)
           \/ getString(c) \/ Copy(c) \/ Release(c)
           \/ ReadError(c) \/ Close(c)

ClientNext == \E c \in Threads : Begin(c) \/ Open(c) \/ Work(c)

\* A client that has an engine goes on with its session: its wrappers are total
\* (%default total, Foreign.idr:23) and no function of the engine blocks.  An
\* init that keeps asking while there is memory gets it at last.  Clients need
\* not begin a session, and one that only asks while others hold the memory
\* may go on asking.
Opened(c) == Open(c) /\ reply'[c].val # NULL
Fairness  == \A c \in Threads : WF_clientVars(Work(c)) /\ WF_clientVars(Opened(c))

ClientSpec == ClientInit /\ [][ClientNext]_clientVars /\ Fairness

--------------------------------------------------------------------------------
Session == [at : {"away", "opening", "working", "copying", "freeing", "failed", "closing"},
            h : Addr \cup {NULL}, script : Seq(Wrappers),
            saw : {Right, Just, Nothing, Garbage} \cup {Left(r) : r \in DOMAIN resultToInt},
            ptr : Addr \cup {NULL}]

ClientTypeOK == TypeOK /\ client \in [Threads -> Session] /\ leaked \subseteq Addr

Engines == {client[c].h   : c \in Threads} \ {NULL}
Copying == {client[c].ptr : c \in Threads} \ {NULL}

(* Every block of the heap that is in use has exactly one owner: an engine     *)
(* belongs to one session, however the session goes, a string of the engine to *)
(* one getString, and what is left are the copies of the error messages that   *)
(* were read (Foreign.idr:221-226 does not free them) and nothing else.        *)
HeapAccounted ==
    /\ Live = Engines
    /\ strings = Copying \cup leaked
    /\ Copying \cap leaked = {}
    /\ \A c, d \in Threads : c # d => /\ client[c].h # NULL => client[c].h # client[d].h
                                      /\ client[c].ptr # NULL => client[c].ptr # client[d].ptr

(* Clients that forget their handle when they free it keep to the discipline   *)
(* that ProofEngine asks of callers, on every path and however their sessions  *)
(* interleave: each call is made with a handle that is live, and each string   *)
(* that the wrappers free is one that the engine handed out.                   *)
CallsAreLegal == Spec

(* What a wrapper returned is what happened, until the client's next call and  *)
(* whatever other clients do meanwhile: Right only if the engine did its work, *)
(* a Left with the error still there to be read -- free would clear it         *)
(* (main.zig:103), but the session asks first -- and, from parseInterface,     *)
(* with the engine's own reason.  The exception is an interface with nothing   *)
(* to prove, whose 0 Foreign.idr:111 decodes as an error.  A string that was   *)
(* returned was no other client's to free while it was copied.                 *)
NothingToProve(r) == r.op = "generate_proofs" /\ r.done /\ r.val = 0
OutcomesAreTrue ==
    \A c \in Threads :
       LET s == client[c]
           r == reply[c]
       IN  /\ s.at = "working" /\ s.saw.tag = "Right" => r.done /\ lastError[c] = NoError
           /\ s.at = "failed" => lastError[c] # NoError \/ NothingToProve(r)
           /\ s.at = "failed" /\ r.op = "parse_interface" => resultToInt[s.saw.of] = r.val
           /\ s.saw # Garbage

(* Every engine that is opened is freed, and whenever a client waits for one   *)
(* some client gets one: no wrapper loses memory that a later session needs,   *)
(* not even lastError, whose leaks can use up the heap around the engines but  *)
(* never the block of the engine whose error is read.                          *)
SessionsGoOn ==
    /\ \A c \in Threads : client[c].h # NULL ~> client[c].h = NULL
    /\ (\E c \in Threads : client[c].at = "opening") ~> (\E c \in Threads : client[c].h # NULL)

================================================================================
