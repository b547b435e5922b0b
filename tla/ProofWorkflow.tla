----------------------------- MODULE ProofWorkflow -----------------------------
(***************************************************************************)
(* What the proof engine promises its callers, without its counters and    *)
(* flags.  Every engine handle moves through a small workflow              *)
(*                                                                         *)
(*    closed -> open -> loaded -> derived -> proved                        *)
(*                                                                         *)
(* "Cannot compile proofs without generating them first", "cannot emit     *)
(* [the] wrapper without compiled proofs" (the workflow test of main.zig); *)
(* loading an interface or deriving obligations starts the later stages    *)
(* over.  answer[t] is what the last call of thread t returned: the only   *)
(* thing a caller sees.                                                    *)
(***************************************************************************)
EXTENDS Naturals

CONSTANTS Threads,  \* threads that call the engine
          Addr,     \* addresses the engine may hand out as handles
          NULL,     \* the null handle
          Counts    \* how many obligations an interface may give rise to

VARIABLES stage, answer

vars == <<stage, answer>>

Closed      == [at |-> "closed", due |-> 0]
Opened      == [at |-> "open", due |-> 0]
Loaded      == [at |-> "loaded", due |-> 0]
Derived(n)  == IF n = 0 THEN Loaded ELSE [at |-> "derived", due |-> n]
Proved(n)   == [at |-> "proved", due |-> n]

Handles == {a \in Addr : stage[a] # Closed} \cup {NULL}

\* "at h, the workflow has reached one of the stages S"; no stage at NULL
At(h, S) == h \in Addr /\ stage[h].at \in S

Silent == [op |-> "none", h |-> NULL, val |-> 0]

Say(t, op, h, val) == answer' = [answer EXCEPT ![t] = [op |-> op, h |-> h, val |-> val]]

Init == /\ stage = [a \in Addr |-> Closed]
        /\ answer = [t \in Threads |-> Silent]

--------------------------------------------------------------------------------
\* A step of the workflow: handle h goes to stage s
Move(h, s) == h \in Addr /\ stage[h] # Closed /\ stage' = [stage EXCEPT ![h] = s]

\* Opening gives a handle no one else holds, or none at all
Open(t) ==
    \/ \E a \in Addr : /\ stage[a] = Closed
                       /\ stage' = [stage EXCEPT ![a] = Opened]
                       /\ Say(t, "init", NULL, a)
    \/ Say(t, "init", NULL, NULL) /\ UNCHANGED stage

Close(t, h) ==
    /\ Say(t, "free", h, 0)
    /\ IF h = NULL THEN UNCHANGED stage ELSE Move(h, Closed)

\* Loading may be refused for its arguments at any stage
Load(t, h) ==
    \/ Move(h, Loaded) /\ Say(t, "parse_interface", h, 0)
    \/ /\ \E code \in {1, 2, 4} : Say(t, "parse_interface", h, code)
       /\ UNCHANGED stage

Derive(t, h) ==
    \/ /\ At(h, {"loaded", "derived", "proved"})
       /\ \E n \in Counts : Move(h, Derived(n)) /\ Say(t, "generate_proofs", h, n)
    \/ /\ ~At(h, {"loaded", "derived", "proved"})
       /\ Say(t, "generate_proofs", h, 0)
       /\ UNCHANGED stage

\* Proving succeeds exactly when there is something derived to prove
Prove(t, h) ==
    \/ /\ At(h, {"derived", "proved"})
       /\ Move(h, Proved(stage[h].due))
       /\ Say(t, "compile_proofs", h, 0)
    \/ /\ ~At(h, {"derived", "proved"})
       /\ \E code \in {1, 4} : Say(t, "compile_proofs", h, code)
       /\ UNCHANGED stage

\* A wrapper is emitted only when everything derived from the interface that
\* is loaded now has been proved; a proved engine refuses only a null path.
\* "Proof failure" is no possible outcome.
Emit(t, h) ==
    /\ UNCHANGED stage
    /\ \/ At(h, {"proved"}) /\ \E code \in {0, 4} : Say(t, "emit_wrapper", h, code)
       \/ ~At(h, {"proved"}) /\ \E code \in {1, 4} : Say(t, "emit_wrapper", h, code)

\* The counters: what is proved and what is left always make up what is due
Count(t, h) ==
    /\ UNCHANGED stage
    /\ \/ Say(t, "discharged_count", h, IF At(h, {"proved"}) THEN stage[h].due ELSE 0)
       \/ Say(t, "remaining_count", h, IF At(h, {"derived"}) THEN stage[h].due ELSE 0)
       \/ Say(t, "is_initialized", h, IF h = NULL THEN 0 ELSE 1)

\* Calls about strings and errors leave every workflow where it is
Talk(t, h) ==
    /\ UNCHANGED stage
    /\ \E val \in Addr \cup {NULL, 0}, op \in {"get_string", "free_string", "last_error"} :
          Say(t, op, h, val)

Next == \E t \in Threads :
    \/ Open(t)
    \/ \E h \in Handles : \/ Close(t, h)
                          \/ Load(t, h)
                          \/ Derive(t, h)
                          \/ Prove(t, h)
                          \/ Emit(t, h)
                          \/ Count(t, h)
                          \/ Talk(t, h)

Spec == Init /\ [][Next]_vars

================================================================================
