-------------------------- MODULE EngineThreadsProofs --------------------------
(***************************************************************************)
(* EngineThreads implements ProofEngine, for any threads, heap, codes,     *)
(* counts and counter width.                                               *)
(***************************************************************************)
EXTENDS EngineThreads, TLAPS

\* One field stored
WithField(e, b, f) == [e EXCEPT ![f] = b[f]]

\* A block of which one field is stored is an engine state still.
LEMMA StoreTyped ==
    ASSUME NEW e \in EngineState, NEW b \in EngineState, NEW f \in Fields
    PROVE  /\ WithField(e, b, f) \in EngineState
           /\ \A g \in Fields : WithField(e, b, f)[g] = IF g = f THEN b[g] ELSE e[g]
<1>1. DOMAIN e = Fields
  BY DEF EngineState, Fields
<1>2. \A g \in Fields : [e EXCEPT ![f] = b[f]][g] = IF g = f THEN b[g] ELSE e[g]
  BY <1>1
<1>3. [e EXCEPT ![f] = b[f]] \in EngineState
  <2>1. CASE f = "initialized"
    BY <2>1 DEF EngineState
  <2>2. CASE f = "obligation_count"
    BY <2>2 DEF EngineState
  <2>3. CASE f = "discharged_count"
    BY <2>3 DEF EngineState
  <2>4. CASE f = "interface_loaded"
    BY <2>4 DEF EngineState
  <2>5. CASE f = "proofs_compiled"
    BY <2>5 DEF EngineState
  <2> QED  BY <2>1, <2>2, <2>3, <2>4, <2>5 DEF Fields
<1> QED  BY <1>2, <1>3 DEF WithField

\* A state is known by its fields.
LEMMA SameFields ==
    ASSUME NEW e \in EngineState, NEW b \in EngineState, \A f \in Fields : e[f] = b[f]
    PROVE  e = b
  BY DEF EngineState, Fields

--------------------------------------------------------------------------------
\* The invariant: calls

Call == [on : Addr \cup {NULL}, answer : Reply, todo : SUBSET Fields, raced : BOOLEAN]

\* A call works on a block that is an engine's; only calls that change it store
\* fields, and only queries are ever raced, from then on
CallOK(t) ==
    LET c == call[t] IN
    /\ Op(t) = "none" => c = NoCall
    /\ c.on # NULL => c.on \in owned
    /\ c.on = NULL => c.todo = {}
    /\ Op(t) \in Queries =>
          /\ c.todo = {} /\ c.answer.h = c.on /\ c.answer.val = 0 /\ c.answer.done
          /\ ~c.raced /\ c.on # NULL =>
                \A u \in Threads : call[u].on = c.on => Op(u) \in Queries
    /\ Op(t) \notin Queries => ~c.raced

\* No two calls that change an engine are on one block, and init and free are
\* alone on theirs
Apart ==
    \A t, u \in Threads : t # u /\ call[t].on # NULL /\ call[t].on = call[u].on
       => /\ Op(t) \notin {"init", "free"}
          /\ Op(t) \in Queries \/ Op(u) \in Queries

CallsInv == /\ call \in [Threads -> Call]
            /\ \A t \in Threads : CallOK(t)
            /\ Apart

--------------------------------------------------------------------------------
\* The invariant: memory

FreedBy(t, a) == call[t].on = a /\ Op(t) = "free"
Storing(a, f) == \E t \in Threads : call[t].on = a /\ f \in call[t].todo

\* becomes is what a block holds but for the fields that some call has to store
BlockOK(a) ==
    IF a \in owned /\ ~\E t \in Threads : FreedBy(t, a)
    THEN /\ becomes[a].initialized
         /\ \A f \in Fields : engine[a][f] = becomes[a][f] \/ Storing(a, f)
    ELSE becomes[a] = NoEngine

HeapTyped == /\ engine \in [Addr -> EngineState] /\ becomes \in [Addr -> EngineState]
             /\ owned \subseteq Addr /\ strings \subseteq Addr /\ owned \cap strings = {}

MemoryInv == HeapTyped /\ \A a \in Addr : BlockOK(a)

ToldInv == /\ lastError \in [Threads -> {NoError, Message}]
           /\ reply \in [Threads -> Reply]

ThreadsInv == CallsInv /\ MemoryInv /\ ToldInv

--------------------------------------------------------------------------------
\* Entering a call

\* What it takes for a call to be let in: it is about no block, about one that
\* was free, or about one that its callers may work on
Admitted(op, on) ==
    \/ on = NULL
    \/ on \in Addr \ owned /\ op = "init"
    \/ /\ on \in owned
       /\ \A u \in OnIt(on) : Op(u) \notin {"init", "free"}
       /\ op # "init"
       /\ op \notin Queries => Changing(on) = {}
       /\ op = "free" => OnIt(on) = {}

\* MayCall admits the calls of the library but init.
LEMMA MayCallAdmits ==
    ASSUME NEW op \in Ops \ {"none", "init"}, NEW h \in Addr \cup {NULL}, MayCall(op, h)
    PROVE  Admitted(op, h)
  BY DEF MayCall, Admitted, Known

\* The other threads' calls stay what they are, but for the mark of a race.
Entered(t, op, h, on, val, done, todo) ==
    /\ call' \in [Threads -> Call]
    /\ call'[t].on = on /\ call'[t].todo = todo
    /\ call'[t].answer = [op |-> op, h |-> h, val |-> val, done |-> done]
    /\ call'[t].raced <=> op \in Queries /\ Changing(on) # {}
    /\ \A u \in Threads \ {t} :
          /\ call'[u].on = call[u].on /\ call'[u].answer = call[u].answer
          /\ call'[u].todo = call[u].todo
          /\ call'[u].raced <=> \/ call[u].raced
                                \/ /\ u \in OnIt(on) /\ Op(u) \in Queries
                                   /\ op \notin Queries
          /\ Op(u) \notin Queries => call'[u] = call[u]

LEMMA EnterEffect ==
    ASSUME call \in [Threads -> Call], NEW t \in Threads, NEW op \in Ops,
           NEW h \in Addr \cup {NULL}, NEW on \in Addr \cup {NULL},
           NEW val \in U32 \cup Result \cup Addr \cup {NULL}, NEW done \in BOOLEAN,
           NEW todo \in SUBSET Fields, Enter(t, op, h, on, val, done, todo)
    PROVE  Entered(t, op, h, on, val, done, todo)
<1> DEFINE cond(u) == u \in OnIt(on) /\ Op(u) \in Queries /\ op \notin Queries
           mine == [on |-> on, answer |-> [op |-> op, h |-> h, val |-> val, done |-> done],
                    todo |-> todo, raced |-> op \in Queries /\ Changing(on) # {}]
           marked(u) == [call[u] EXCEPT !.raced = @ \/ cond(u)]
<1>1. mine \in Call
  BY DEF Call, Reply
<1>2. \A u \in Threads : cond(u) \in BOOLEAN
  OBVIOUS
<1>3. call' = [u \in Threads |-> IF u = t THEN mine ELSE marked(u)]
  BY DEF Enter
<1> HIDE DEF cond
<1>4. \A u \in Threads :
        /\ marked(u) \in Call /\ marked(u).on = call[u].on /\ marked(u).answer = call[u].answer
        /\ marked(u).todo = call[u].todo
        /\ marked(u).raced <=> call[u].raced \/ cond(u)
        /\ ~cond(u) => marked(u) = call[u]
  BY <1>2 DEF Call
<1> HIDE DEF mine, marked
<1>5. \A u \in Threads \ {t} : call'[u] = marked(u)
  BY <1>3
<1>6. call'[t] = mine
  BY <1>3
<1>7. call' \in [Threads -> Call]
  BY <1>1, <1>3, <1>4
<1> DEFINE raced == op \in Queries /\ Changing(on) # {}
<1>8. raced \in BOOLEAN
  OBVIOUS
<1> HIDE DEF raced
<1>9. /\ call'[t].on = on /\ call'[t].todo = todo
      /\ call'[t].answer = [op |-> op, h |-> h, val |-> val, done |-> done]
      /\ call'[t].raced = raced
  BY <1>6 DEF mine, raced
<1>10. \A u \in Threads \ {t} :
          /\ call'[u].on = call[u].on /\ call'[u].answer = call[u].answer
          /\ call'[u].todo = call[u].todo
          /\ call'[u].raced <=> call[u].raced \/ cond(u)
          /\ ~cond(u) => call'[u] = call[u]
  BY <1>4, <1>5
<1> QED  BY <1>7, <1>8, <1>9, <1>10 DEF Entered, cond, raced

\* The same of what the memory invariant looks at
LEMMA EnterOps ==
    ASSUME call \in [Threads -> Call], NEW t \in Threads, NEW op \in Ops,
           NEW h \in Addr \cup {NULL}, NEW on \in Addr \cup {NULL},
           NEW val \in U32 \cup Result \cup Addr \cup {NULL}, NEW done \in BOOLEAN,
           NEW todo \in SUBSET Fields, Enter(t, op, h, on, val, done, todo)
    PROVE  /\ call'[t].on = on /\ call'[t].todo = todo /\ Op(t)' = op
           /\ \A u \in Threads \ {t} : /\ call'[u].on = call[u].on /\ Op(u)' = Op(u)
                                        /\ call'[u].todo = call[u].todo
<1>1. Entered(t, op, h, on, val, done, todo)
  BY EnterEffect
<1> QED  BY <1>1 DEF Entered, Op

\* A call that is admitted leaves the calls in order.
LEMMA EnterKeepsCalls ==
    ASSUME CallsInv, NEW t \in Threads, ~InCall(t), NEW op \in Ops \ {"none"},
           NEW h \in Addr \cup {NULL}, NEW on \in Addr \cup {NULL},
           NEW val \in U32 \cup Result \cup Addr \cup {NULL}, NEW done \in BOOLEAN,
           NEW todo \in SUBSET Fields, Enter(t, op, h, on, val, done, todo),
           Admitted(op, on), owned' = owned \cup ({on} \ {NULL}),
           on = NULL \/ op \in Queries => todo = {},
           op \in Queries => h = on /\ val = 0 /\ done
    PROVE  CallsInv'
<1>0. Entered(t, op, h, on, val, done, todo)
  BY EnterEffect DEF CallsInv
<1>1. /\ call' \in [Threads -> Call]
      /\ call'[t].on = on /\ call'[t].todo = todo
      /\ call'[t].answer = [op |-> op, h |-> h, val |-> val, done |-> done]
      /\ call'[t].raced <=> op \in Queries /\ Changing(on) # {}
      /\ \A u \in Threads \ {t} :
            /\ call'[u].on = call[u].on /\ call'[u].answer = call[u].answer
            /\ call'[u].todo = call[u].todo
            /\ call'[u].raced <=> \/ call[u].raced
                                  \/ /\ u \in OnIt(on) /\ Op(u) \in Queries
                                     /\ op \notin Queries
            /\ Op(u) \notin Queries => call'[u] = call[u]
  BY <1>0 DEF Entered
<1>2. call[t] = NoCall /\ call[t].on = NULL /\ Op(t) = "none"
  BY DEF InCall, NoCall, NoReply, Op
<1>3. Op(t)' = op /\ call'[t].on = on
  BY <1>1 DEF Op
<1>4. \A u \in Threads \ {t} : Op(u)' = Op(u) /\ call'[u].on = call[u].on
  BY <1>1 DEF Op
<1>7. on # NULL => on \in owned'
  OBVIOUS
<1>8. CallOK(t)'
  <2>1. op \in Queries /\ ~call'[t].raced /\ on # NULL
        => \A u \in Threads : call'[u].on = on => Op(u)' \in Queries
    <3>1. op \in Queries /\ ~call'[t].raced => Changing(on) = {}
      BY <1>1, Zenon
    <3> QED  BY <1>3, <1>4, <3>1 DEF Changing, OnIt
  <2>2. op \notin Queries => ~call'[t].raced
    BY <1>1, Zenon
  <2>3. op # "none" /\ call'[t].answer.h = h /\ call'[t].answer.val = val
        /\ call'[t].answer.done = done /\ call'[t].todo = todo
    BY <1>1
  <2> QED  BY <1>3, <1>7, <2>1, <2>2, <2>3 DEF CallOK
<1>9. ASSUME NEW u \in Threads, u # t
      PROVE  CallOK(u)'
  <2>1. CallOK(u)
    BY DEF CallsInv
  <2>2. Op(u) = "none" => call'[u] = call[u]
    BY <1>1, <1>9 DEF Queries
  <2>3. call[u].on # NULL => call'[u].on \in owned'
    BY <1>4, <1>9, <2>1 DEF CallOK
  <2>4. ASSUME Op(u) \in Queries, ~call'[u].raced, call'[u].on # NULL,
               NEW v \in Threads, call'[v].on = call'[u].on
        PROVE  Op(v)' \in Queries
    <3>1. ~call[u].raced /\ ~(u \in OnIt(on) /\ op \notin Queries)
      BY <1>1, <1>9, <2>4
    <3>2. call[u].on = call'[u].on
      BY <1>4, <1>9
    <3>3. CASE v = t
      BY <1>3, <2>4, <3>1, <3>2, <3>3 DEF OnIt
    <3>4. CASE v # t
      BY <1>4, <2>1, <2>4, <3>1, <3>2, <3>4 DEF CallOK
    <3> QED  BY <3>3, <3>4
  <2>5. Op(u) \notin Queries => ~call'[u].raced
    BY <1>1, <1>9, <2>1 DEF CallOK
  <2>6. call'[u].answer = call[u].answer /\ call'[u].todo = call[u].todo /\ call'[u].on = call[u].on
    BY <1>1, <1>9
  <2> QED  BY <1>4, <1>9, <2>1, <2>2, <2>3, <2>4, <2>5, <2>6 DEF CallOK
<1>10. ASSUME NEW u \in Threads, u # t, on # NULL, call[u].on = on
       PROVE  /\ Op(u) \notin {"init", "free"} /\ op \notin {"init", "free"}
              /\ Op(u) \in Queries \/ op \in Queries
  <2>1. u \in OnIt(on) /\ on \in owned
    BY <1>10 DEF CallsInv, CallOK, OnIt
  <2>2. op \notin Queries => Op(u) \in Queries
    BY <1>10, <2>1 DEF Admitted, Changing
  <2> QED  BY <1>10, <2>1, <2>2 DEF Admitted
<1>11. Apart'
  <2> SUFFICES ASSUME NEW v \in Threads, NEW u \in Threads, v # u, call'[v].on # NULL,
                      call'[v].on = call'[u].on
               PROVE  /\ Op(v)' \notin {"init", "free"}
                      /\ Op(v)' \in Queries \/ Op(u)' \in Queries
    BY DEF Apart
  <2>1. CASE v = t
    BY <1>3, <1>4, <1>10, <2>1
  <2>2. CASE u = t
    BY <1>3, <1>4, <1>10, <2>2
  <2>3. CASE v # t /\ u # t
    BY <1>4, <2>3 DEF CallsInv, Apart
  <2> QED  BY <2>1, <2>2, <2>3
<1> QED  BY <1>1, <1>8, <1>9, <1>11 DEF CallsInv

\* A call that stores nothing leaves memory as it is accounted for.
LEMMA EnterKeepsMemory ==
    ASSUME ThreadsInv, NEW t \in Threads, ~InCall(t), NEW op \in Ops \ {"none"},
           NEW h \in Addr \cup {NULL}, NEW on \in Addr \cup {NULL},
           NEW val \in U32 \cup Result \cup Addr \cup {NULL}, NEW done \in BOOLEAN,
           Enter(t, op, h, on, val, done, {}), op = "free" => on = NULL,
           UNCHANGED <<engine, owned, becomes>>, strings' \subseteq Addr, owned \cap strings' = {}
    PROVE  MemoryInv'
<1>1. /\ call'[t].on = on /\ call'[t].todo = {} /\ Op(t)' = op
      /\ \A u \in Threads \ {t} : /\ call'[u].on = call[u].on /\ Op(u)' = Op(u)
                                   /\ call'[u].todo = call[u].todo
  <2>1. {} \in SUBSET Fields /\ call \in [Threads -> Call]
    BY DEF ThreadsInv, CallsInv
  <2> QED  BY <2>1, EnterOps
<1>2. call[t].on = NULL /\ call[t].todo = {}
  BY DEF InCall, NoCall
<1>3. \A a \in Addr : /\ (\E u \in Threads : FreedBy(u, a)') <=> \E u \in Threads : FreedBy(u, a)
                     /\ \A f : Storing(a, f)' <=> Storing(a, f)
  BY <1>1, <1>2, NullAssumption DEF FreedBy, Storing
<1>4. \A a \in Addr : BlockOK(a)'
  BY <1>3 DEF ThreadsInv, MemoryInv, BlockOK
<1>5. HeapTyped'
  BY DEF ThreadsInv, MemoryInv, HeapTyped
<1> QED  BY <1>4, <1>5 DEF MemoryInv

\* A call that will make an e of the block it works on has the fields in which
\* the block differs from e left to store.
LEMMA ChangeKeepsMemory ==
    ASSUME ThreadsInv, NEW t \in Threads, ~InCall(t), NEW op \in Ops \ {"none"},
           NEW h \in Addr \cup {NULL}, NEW on \in Addr,
           NEW val \in U32 \cup Result \cup Addr \cup {NULL}, NEW done \in BOOLEAN,
           NEW todo \in SUBSET Fields, Enter(t, op, h, on, val, done, todo),
           NEW e \in EngineState, IF op = "free" THEN e = NoEngine ELSE e.initialized,
           op = "free" \/ \A f \in Fields : e[f] = engine[on][f] \/ f \in todo,
           \A u \in Threads : ~FreedBy(u, on),
           becomes' = [becomes EXCEPT ![on] = e], owned' = owned \cup {on}, on \notin strings,
           UNCHANGED <<engine, strings>>
    PROVE  MemoryInv'
<1>1. /\ call'[t].on = on /\ call'[t].todo = todo /\ Op(t)' = op
      /\ \A u \in Threads \ {t} : /\ call'[u].on = call[u].on /\ Op(u)' = Op(u)
                                   /\ call'[u].todo = call[u].todo
  <2>1. call \in [Threads -> Call] /\ on \in Addr \cup {NULL}
    BY DEF ThreadsInv, CallsInv
  <2>2. Entered(t, op, h, on, val, done, todo)
    BY <2>1, EnterEffect
  <2> QED  BY <2>2 DEF Entered, Op
<1>2. call[t].on = NULL /\ call[t].todo = {} /\ on # NULL
  BY NullAssumption DEF InCall, NoCall
<1>3. \A a \in Addr \ {on} :
         /\ (\E u \in Threads : FreedBy(u, a)') <=> \E u \in Threads : FreedBy(u, a)
         /\ \A f : Storing(a, f)' <=> Storing(a, f)
  BY <1>1, <1>2, NullAssumption DEF FreedBy, Storing
<1>4. (\E u \in Threads : FreedBy(u, on)') <=> op = "free"
  BY <1>1, <1>2 DEF FreedBy
<1>5. \A f \in todo : Storing(on, f)'
  BY <1>1 DEF Storing
<1>6. HeapTyped'
  BY DEF ThreadsInv, MemoryInv, HeapTyped
<1>7. becomes'[on] = e /\ \A a \in Addr \ {on} : becomes'[a] = becomes[a]
  BY DEF ThreadsInv, MemoryInv, HeapTyped
<1>8. BlockOK(on)'
  BY <1>4, <1>5, <1>7 DEF BlockOK
<1>9. ASSUME NEW a \in Addr, a # on PROVE BlockOK(a)'
  <2>1. BlockOK(a)
    BY DEF ThreadsInv, MemoryInv
  <2>2. a \in owned' <=> a \in owned
    BY <1>9
  <2> QED  BY <1>3, <1>7, <1>9, <2>1, <2>2 DEF BlockOK
<1> QED  BY <1>6, <1>8, <1>9 DEF MemoryInv

\* What a caller is allowed to change has settled: memory holds what becomes says.
LEMMA Settled ==
    ASSUME ThreadsInv, NEW a \in owned, Changing(a) = {}
    PROVE  /\ a \in Addr /\ engine[a] = becomes[a] /\ becomes[a] \in EngineState
           /\ becomes[a].initialized
           /\ \A u \in Threads : ~FreedBy(u, a)
<1>1. a \in Addr /\ engine[a] \in EngineState /\ becomes[a] \in EngineState /\ BlockOK(a)
  BY DEF ThreadsInv, MemoryInv, HeapTyped
<1>2. \A u \in Threads : call[u].on = a => Op(u) \in Queries
  BY <1>1, NullAssumption DEF Changing, OnIt
<1>3. \A u \in Threads : ~FreedBy(u, a)
  BY <1>2 DEF FreedBy, Queries
<1>4. \A f : ~Storing(a, f)
  BY <1>2 DEF ThreadsInv, CallsInv, CallOK, Storing
<1> QED  BY <1>1, <1>3, <1>4, SameFields DEF BlockOK

\* A thread is in a call exactly when it has one to speak of.
LEMMA InCallByOp ==
    ASSUME CallsInv, NEW t \in Threads
    PROVE  InCall(t) <=> Op(t) # "none"
  BY DEF CallsInv, CallOK, InCall, NoCall, NoReply, Op

--------------------------------------------------------------------------------
\* How the atomic engine sees a call enter

lastErrorBar == [t \in Threads |-> IF Happened(t) THEN ErrorAfter(call[t].answer, lastError[t])
                                                  ELSE lastError[t]]
replyBar     == [t \in Threads |-> IF Happened(t) THEN call[t].answer ELSE reply[t]]

\* The answer of a call that entered is given already, unless it is a query.
EnterSeen(t, op, h, val, done) ==
    LET r == [op |-> op, h |-> h, val |-> val, done |-> done] IN
    IF op \in Queries THEN UNCHANGED <<lastErrorBar, replyBar>>
    ELSE /\ lastErrorBar' = [lastErrorBar EXCEPT ![t] = ErrorAfter(r, @)]
         /\ replyBar' = [replyBar EXCEPT ![t] = r]

LEMMA EnterStep ==
    ASSUME ThreadsInv, NEW t \in Threads, ~InCall(t), NEW op \in Ops \ {"none"},
           NEW h \in Addr \cup {NULL}, NEW on \in Addr \cup {NULL},
           NEW val \in U32 \cup Result \cup Addr \cup {NULL}, NEW done \in BOOLEAN,
           NEW todo \in SUBSET Fields, Enter(t, op, h, on, val, done, todo),
           Admitted(op, on), owned' = owned \cup ({on} \ {NULL}),
           on = NULL \/ op \in Queries => todo = {},
           op \in Queries => h = on /\ val = 0 /\ done,
           UNCHANGED <<lastError, reply>>, MemoryInv'
    PROVE  ThreadsInv' /\ EnterSeen(t, op, h, val, done)
<1>1. CallsInv /\ CallsInv'
  BY EnterKeepsCalls DEF ThreadsInv
<1>2. ThreadsInv'
  BY <1>1 DEF ThreadsInv, ToldInv
<1>3. Entered(t, op, h, on, val, done, todo)
  BY <1>1, EnterEffect DEF CallsInv
<1>4. \A u \in Threads \ {t} : call'[u].answer = call[u].answer /\ Op(u)' = Op(u)
  BY <1>3 DEF Entered, Op
<1>5. Op(t)' = op /\ call'[t].answer = [op |-> op, h |-> h, val |-> val, done |-> done]
  BY <1>3 DEF Entered, Op
<1>6. \A u \in Threads : Happened(u) <=> Op(u) \notin Queries \cup {"none"}
  BY <1>1, InCallByOp DEF Happened
<1>7. \A u \in Threads : Happened(u)' <=> Op(u)' \notin Queries \cup {"none"}
  <2>1. \A u \in Threads : InCall(u)' <=> Op(u)' # "none"
    BY <1>1 DEF CallsInv, CallOK, InCall, NoCall, NoReply, Op
  <2> QED  BY <2>1 DEF Happened
<1>8. ~Happened(t) /\ (Happened(t)' <=> op \notin Queries)
  BY <1>5, <1>7 DEF Happened
<1>9. \A u \in Threads \ {t} : Happened(u)' <=> Happened(u)
  BY <1>4, <1>6, <1>7
<1>10. /\ \A u \in Threads \ {t} : lastErrorBar'[u] = lastErrorBar[u] /\ replyBar'[u] = replyBar[u]
       /\ lastErrorBar[t] = lastError[t] /\ replyBar[t] = reply[t]
  BY <1>4, <1>8, <1>9 DEF lastErrorBar, replyBar
<1>11. IF op \in Queries
       THEN lastErrorBar'[t] = lastErrorBar[t] /\ replyBar'[t] = replyBar[t]
       ELSE LET r == [op |-> op, h |-> h, val |-> val, done |-> done]
            IN  lastErrorBar'[t] = ErrorAfter(r, lastErrorBar[t]) /\ replyBar'[t] = r
  BY <1>5, <1>8, <1>10 DEF lastErrorBar, replyBar
<1> HIDE DEF ThreadsInv
<1>12. EnterSeen(t, op, h, val, done)
  <2>1. /\ lastErrorBar = [u \in Threads |-> lastErrorBar[u]]
        /\ lastErrorBar' = [u \in Threads |-> lastErrorBar'[u]]
        /\ replyBar = [u \in Threads |-> replyBar[u]]
        /\ replyBar' = [u \in Threads |-> replyBar'[u]]
    BY DEF lastErrorBar, replyBar
  <2> QED  BY <1>10, <1>11, <2>1 DEF EnterSeen
<1> QED  BY <1>2, <1>12

\* How ProofEngine's ways of returning read when it is the atomic engine
LEMMA AtomicReturns ==
    ASSUME NEW t, NEW op, NEW h, NEW val, NEW done
    PROVE  /\ Atomic!Return(t, op, h, val, done) <=>
                 replyBar' = [replyBar EXCEPT ![t] = [op |-> op, h |-> h, val |-> val, done |-> done]]
           /\ Atomic!Fail(t, op, h, val) <=>
                 /\ lastErrorBar' = [lastErrorBar EXCEPT ![t] = Message]
                 /\ replyBar' = [replyBar EXCEPT ![t] = [op |-> op, h |-> h, val |-> val, done |-> FALSE]]
                 /\ UNCHANGED <<becomes, strings>>
           /\ Atomic!Succeed(t, op, h, val) <=>
                 /\ lastErrorBar' = [lastErrorBar EXCEPT ![t] = NoError]
                 /\ replyBar' = [replyBar EXCEPT ![t] = [op |-> op, h |-> h, val |-> val, done |-> TRUE]]
           /\ Atomic!Answer(t, op, h, val) <=>
                 /\ replyBar' = [replyBar EXCEPT ![t] = [op |-> op, h |-> h, val |-> val, done |-> TRUE]]
                 /\ UNCHANGED <<becomes, lastErrorBar>>
<1>1. Atomic!Return(t, op, h, val, done) <=>
         replyBar' = [replyBar EXCEPT ![t] = [op |-> op, h |-> h, val |-> val, done |-> done]]
  BY DEF Atomic!Return, replyBar
<1>2. Atomic!Fail(t, op, h, val) <=>
         /\ lastErrorBar' = [lastErrorBar EXCEPT ![t] = Message]
         /\ replyBar' = [replyBar EXCEPT ![t] = [op |-> op, h |-> h, val |-> val, done |-> FALSE]]
         /\ UNCHANGED <<becomes, strings>>
  BY DEF Atomic!Fail, Atomic!Return, Atomic!Message, Message, replyBar, lastErrorBar
<1>3. Atomic!Succeed(t, op, h, val) <=>
         /\ lastErrorBar' = [lastErrorBar EXCEPT ![t] = NoError]
         /\ replyBar' = [replyBar EXCEPT ![t] = [op |-> op, h |-> h, val |-> val, done |-> TRUE]]
  BY DEF Atomic!Succeed, Atomic!Return, Atomic!NoError, NoError, replyBar, lastErrorBar
<1>4. Atomic!Answer(t, op, h, val) <=>
         /\ replyBar' = [replyBar EXCEPT ![t] = [op |-> op, h |-> h, val |-> val, done |-> TRUE]]
         /\ UNCHANGED <<becomes, lastErrorBar>>
  BY DEF Atomic!Answer, Atomic!Return, replyBar, lastErrorBar
<1> QED  BY <1>1, <1>2, <1>3, <1>4

\* A call that is turned away
LEMMA RefuseStep ==
    ASSUME ThreadsInv, NEW t \in Threads, ~InCall(t), NEW op \in Reporting,
           NEW h \in Addr \cup {NULL}, NEW val \in U32 \cup Result \cup Addr \cup {NULL},
           h = NULL \/ MayCall(op, h), op = "init" => h = NULL,
           Refuse(t, op, h, val), UNCHANGED <<lastError, reply>>
    PROVE  ThreadsInv' /\ Atomic!Fail(t, op, h, val)
<1>1. op \in Ops \ {"none"} /\ op \notin Queries /\ op # "free" /\ {} \in SUBSET Fields
  BY DEF Reporting, Ops, Queries
<1>2. Admitted(op, h) /\ (h # NULL => h \in owned)
  BY <1>1, MayCallAdmits DEF Admitted, MayCall, Known
<1>3. Enter(t, op, h, h, val, FALSE, {}) /\ UNCHANGED <<engine, strings, owned, becomes>>
  BY DEF Refuse
<1>4. MemoryInv'
  BY <1>1, <1>3, EnterKeepsMemory DEF ThreadsInv, MemoryInv, HeapTyped
<1>5. owned' = owned \cup ({h} \ {NULL})
  BY <1>2, <1>3
<1>6. ThreadsInv' /\ EnterSeen(t, op, h, val, FALSE)
  BY <1>1, <1>2, <1>3, <1>4, <1>5, EnterStep
<1>7. /\ replyBar' = [replyBar EXCEPT ![t] = [op |-> op, h |-> h, val |-> val, done |-> FALSE]]
      /\ lastErrorBar' = [lastErrorBar EXCEPT ![t] = Message]
  BY <1>1, <1>6 DEF EnterSeen, ErrorAfter
<1>8. Atomic!Fail(t, op, h, val)
  BY <1>3, <1>7, AtomicReturns
<1> QED  BY <1>6, <1>8

\* A call that changes no block
LEMMA AcceptStep ==
    ASSUME ThreadsInv, NEW t \in Threads, ~InCall(t), NEW op \in Ops \ {"none", "init"},
           NEW h \in Addr \cup {NULL}, NEW val \in U32 \cup Result \cup Addr \cup {NULL},
           h = NULL \/ MayCall(op, h), op = "free" => h = NULL, op \in Queries => val = 0,
           Enter(t, op, h, h, val, TRUE, {}), UNCHANGED <<engine, owned, becomes>>,
           strings' \subseteq Addr, owned \cap strings' = {}, UNCHANGED <<lastError, reply>>
    PROVE  /\ ThreadsInv'
           /\ op \in Queries => UNCHANGED <<lastErrorBar, replyBar>>
           /\ op \in Reporting => Atomic!Succeed(t, op, h, val)
           /\ op \notin Queries \cup Reporting => Atomic!Answer(t, op, h, val)
<1>1. op \in Ops \ {"none"} /\ {} \in SUBSET Fields /\ Reporting \cap Queries = {}
  BY DEF Reporting, Queries
<1>2. Admitted(op, h) /\ (h # NULL => h \in owned)
  BY <1>1, MayCallAdmits DEF Admitted, MayCall, Known
<1>3. MemoryInv'
  BY <1>1, EnterKeepsMemory
<1>4. owned' = owned \cup ({h} \ {NULL})
  BY <1>2
<1>5. ThreadsInv' /\ EnterSeen(t, op, h, val, TRUE)
  BY <1>1, <1>2, <1>3, <1>4, EnterStep
<1>6. op \in Queries => UNCHANGED <<lastErrorBar, replyBar>>
  BY <1>5 DEF EnterSeen
<1>7. ASSUME op \notin Queries
      PROVE  /\ op \in Reporting => Atomic!Succeed(t, op, h, val)
             /\ op \notin Queries \cup Reporting => Atomic!Answer(t, op, h, val)
  <2>1. /\ replyBar' = [replyBar EXCEPT ![t] = [op |-> op, h |-> h, val |-> val, done |-> TRUE]]
        /\ op \in Reporting => lastErrorBar' = [lastErrorBar EXCEPT ![t] = NoError]
        /\ op \notin Reporting => lastErrorBar' = lastErrorBar
    <3>1. lastErrorBar = [lastErrorBar EXCEPT ![t] = @]
      BY DEF lastErrorBar
    <3> QED  BY <1>1, <1>5, <1>7, <3>1 DEF EnterSeen, ErrorAfter
  <2> QED  BY <2>1, AtomicReturns
<1> QED  BY <1>1, <1>5, <1>6, <1>7

\* A call that will change the block it works on
LEMMA ChangeStep ==
    ASSUME ThreadsInv, NEW t \in Threads, ~InCall(t),
           NEW op \in {"free", "parse_interface", "generate_proofs", "compile_proofs"},
           NEW h \in Addr, NEW val \in U32 \cup Result \cup Addr \cup {NULL}, MayCall(op, h),
           NEW e \in EngineState, IF op = "free" THEN e = NoEngine ELSE e.initialized,
           NEW todo \in SUBSET Fields, op = "free" \/ \A f \in Fields : e[f] = engine[h][f] \/ f \in todo,
           Change(t, op, h, val, e, todo), UNCHANGED <<lastError, reply>>
    PROVE  ThreadsInv' /\ Atomic!Update(h, e) /\ Atomic!Succeed(t, op, h, val)
<1>1. op \in Ops \ {"none", "init"} /\ op \notin Queries /\ h # NULL
      /\ (op \in Reporting \/ op = "free")
  BY NullAssumption DEF Reporting, Queries, Ops
<1>2. Admitted(op, h) /\ h \in owned /\ Changing(h) = {}
  BY <1>1, MayCallAdmits DEF MayCall, Known
<1>3. Enter(t, op, h, h, val, TRUE, todo) /\ becomes' = [becomes EXCEPT ![h] = e]
      /\ UNCHANGED <<engine, strings, owned>>
  BY DEF Change
<1>4. (\A u \in Threads : ~FreedBy(u, h)) /\ h \notin strings
  BY <1>2, Settled DEF ThreadsInv, MemoryInv, HeapTyped
<1>5. owned' = owned \cup {h} /\ owned' = owned \cup ({h} \ {NULL})
  BY <1>1, <1>2, <1>3
<1>6. MemoryInv'
  BY <1>1, <1>3, <1>4, <1>5, ChangeKeepsMemory
<1>7. ThreadsInv' /\ EnterSeen(t, op, h, val, TRUE)
  BY <1>1, <1>2, <1>3, <1>5, <1>6, EnterStep
<1>8. Atomic!Succeed(t, op, h, val)
  <2>1. /\ replyBar' = [replyBar EXCEPT ![t] = [op |-> op, h |-> h, val |-> val, done |-> TRUE]]
        /\ lastErrorBar' = [lastErrorBar EXCEPT ![t] = NoError]
    BY <1>1, <1>7 DEF EnterSeen, ErrorAfter
  <2> QED  BY <2>1, AtomicReturns
<1>9. Atomic!Update(h, e)
  BY <1>3 DEF Atomic!Update
<1> QED  BY <1>7, <1>8, <1>9

--------------------------------------------------------------------------------
\* Each call, as it enters

\* Codes and addresses are answers.
LEMMA Values ==
    /\ {OK, ERROR, INVALID_PARAM, NULL_POINTER, PROOF_FAILURE, 0} \subseteq U32 \cup Result \cup Addr \cup {NULL}
    /\ Atomic!OK = OK /\ Atomic!ERROR = ERROR /\ Atomic!INVALID_PARAM = INVALID_PARAM
    /\ Atomic!NULL_POINTER = NULL_POINTER /\ Atomic!PROOF_FAILURE = PROOF_FAILURE
    /\ Atomic!NoEngine = NoEngine
  BY DEF Result, OK, ERROR, INVALID_PARAM, NULL_POINTER, PROOF_FAILURE, NoEngine, Atomic!OK,
         Atomic!ERROR, Atomic!INVALID_PARAM, Atomic!NULL_POINTER, Atomic!PROOF_FAILURE,
         Atomic!NoEngine

\* What is free in memory is unused in the atomic engine.
LEMMA FreeIsUnused ==
    ASSUME ThreadsInv, NEW a \in Free
    PROVE  a \in Atomic!Unused /\ a \in Addr \ owned /\ a \notin strings
  BY DEF ThreadsInv, MemoryInv, BlockOK, Free, Atomic!Unused, Atomic!Live, NoEngine

\* A handle that may be called with is live, and holds what memory says.
LEMMA CallableIsLive ==
    ASSUME ThreadsInv, NEW op \in Ops \ Queries, NEW h \in Addr \cup {NULL}, MayCall(op, h), h # NULL
    PROVE  /\ h \in owned /\ h \in Addr /\ engine[h] = becomes[h] /\ engine[h] \in EngineState
           /\ engine[h].initialized
           /\ h \in Atomic!Live /\ ~Atomic!Unusable(h)
<1>1. h \in owned /\ Changing(h) = {}
  BY DEF MayCall, Known
<1> QED  BY <1>1, Settled DEF Atomic!Live, Atomic!Unusable

\* The null handle is never usable.
LEMMA NullIsUnusable == Atomic!Unusable(NULL)
  BY NullAssumption DEF Atomic!Unusable, Atomic!Live

\* The null handle and every handle that may be called with is one of the engine's.
LEMMA HandleSeen ==
    ASSUME ThreadsInv, NEW op \in Ops \ Queries, NEW h \in Addr \cup {NULL}, MayCall(op, h)
    PROVE  h \in Atomic!Handles
  BY CallableIsLive DEF Atomic!Handles

LEMMA EnterInitStep ==
    ASSUME ThreadsInv, NEW t \in Threads, ~InCall(t), EnterInit(t), UNCHANGED <<lastError, reply>>
    PROVE  ThreadsInv' /\ Atomic!init(t)
<1>1. CASE Refuse(t, "init", NULL, NULL)
  BY <1>1, RefuseStep DEF Reporting, Atomic!init
<1>2. ASSUME NEW a \in Free, owned' = owned \cup {a},
             becomes' = [becomes EXCEPT ![a] = [NoEngine EXCEPT !.initialized = TRUE]],
             Enter(t, "init", NULL, a, a, TRUE, Fields), UNCHANGED <<engine, strings>>
      PROVE  ThreadsInv' /\ Atomic!init(t)
  <2> DEFINE e == [NoEngine EXCEPT !.initialized = TRUE]
  <2>1. a \in Atomic!Unused /\ a \in Addr \ owned /\ a \notin strings /\ a # NULL
    BY FreeIsUnused, NullAssumption
  <2>2. e \in EngineState /\ e.initialized
    <3>1. NoEngine \in EngineState
      BY CounterAssumption DEF NoEngine, EngineState, U32
    <3> QED  BY <3>1 DEF EngineState
  <2>3. "init" \in Ops \ {"none"} /\ "init" \notin Queries /\ "init" \in Reporting
        /\ Fields \in SUBSET Fields /\ a \in U32 \cup Result \cup Addr \cup {NULL}
    BY <2>1 DEF Ops, Queries, Reporting
  <2>4. \A u \in Threads : ~FreedBy(u, a)
    BY <2>1 DEF ThreadsInv, CallsInv, CallOK, FreedBy
  <2>5. MemoryInv'
    <3> HIDE DEF e
    <3> QED  BY <1>2, <2>1, <2>2, <2>3, <2>4, ChangeKeepsMemory DEF e
  <2>6. Admitted("init", a) /\ owned' = owned \cup ({a} \ {NULL})
    BY <1>2, <2>1 DEF Admitted
  <2>7. ThreadsInv' /\ EnterSeen(t, "init", NULL, a, TRUE)
    BY <1>2, <2>1, <2>3, <2>5, <2>6, EnterStep
  <2>8. /\ replyBar' = [replyBar EXCEPT ![t] = [op |-> "init", h |-> NULL, val |-> a, done |-> TRUE]]
        /\ lastErrorBar' = [lastErrorBar EXCEPT ![t] = NoError]
    BY <2>3, <2>7 DEF EnterSeen, ErrorAfter
  <2>9. Atomic!Succeed(t, "init", NULL, a)
    BY <2>8, AtomicReturns
  <2>10. Atomic!Update(a, [Atomic!NoEngine EXCEPT !.initialized = TRUE])
    BY <1>2, Values DEF Atomic!Update
  <2> QED  BY <2>1, <2>7, <2>9, <2>10 DEF Atomic!init
<1> QED  BY <1>1, <1>2 DEF EnterInit

LEMMA EnterFreeStep ==
    ASSUME ThreadsInv, NEW t \in Threads, ~InCall(t), NEW h \in Addr \cup {NULL},
           MayCall("free", h), EnterFree(t, h), UNCHANGED <<lastError, reply>>
    PROVE  ThreadsInv' /\ Atomic!free(t, h)
<1>1. CASE h = NULL /\ Accept(t, "free", h, 0)
  <2>1. /\ "free" \in Ops \ {"none", "init"} /\ "free" \notin Queries \cup Reporting
        /\ 0 \in U32 \cup Result \cup Addr \cup {NULL}
    BY Values DEF Ops, Queries, Reporting
  <2>2. strings' \subseteq Addr /\ owned \cap strings' = {} /\ UNCHANGED strings
    BY <1>1 DEF Accept, ThreadsInv, MemoryInv, HeapTyped
  <2>3. Enter(t, "free", h, h, 0, TRUE, {}) /\ UNCHANGED <<engine, owned, becomes>>
    BY <1>1 DEF Accept
  <2>4. ThreadsInv' /\ Atomic!Answer(t, "free", h, 0)
    BY <1>1, <2>1, <2>2, <2>3, AcceptStep
  <2> QED  BY <1>1, <2>2, <2>4 DEF Atomic!free
<1>2. CASE h # NULL /\ Change(t, "free", h, 0, NoEngine, {"initialized"})
  <2>1. 0 \in U32 \cup Result \cup Addr \cup {NULL} /\ h \in Addr
    BY <1>2, Values
  <2>2. NoEngine \in EngineState /\ {"initialized"} \in SUBSET Fields
    BY CounterAssumption DEF NoEngine, EngineState, U32, Fields
  <2>4. ThreadsInv' /\ Atomic!Update(h, NoEngine) /\ Atomic!Succeed(t, "free", h, 0)
    BY <1>2, <2>1, <2>2, ChangeStep
  <2> QED  BY <1>2, <2>4, Values DEF Atomic!free
<1> QED  BY <1>1, <1>2 DEF EnterFree

\* A query has not happened before it leaves.
LEMMA EnterQueryStep ==
    ASSUME ThreadsInv, NEW t \in Threads, ~InCall(t), NEW op \in Queries,
           NEW h \in Addr \cup {NULL}, MayCall(op, h), EnterQuery(t, op, h),
           UNCHANGED <<lastError, reply>>
    PROVE  ThreadsInv' /\ UNCHANGED <<becomes, strings, lastErrorBar, replyBar>>
<1>1. op \in Ops \ {"none", "init"} /\ op # "free" /\ 0 \in U32 \cup Result \cup Addr \cup {NULL}
  BY Values DEF Ops, Queries
<1>2. /\ Enter(t, op, h, h, 0, TRUE, {}) /\ UNCHANGED <<engine, owned, becomes, strings>>
      /\ strings' \subseteq Addr /\ owned \cap strings' = {}
  BY DEF EnterQuery, Accept, ThreadsInv, MemoryInv, HeapTyped
<1> QED  BY <1>1, <1>2, AcceptStep

LEMMA EnterParseStep ==
    ASSUME ThreadsInv, NEW t \in Threads, ~InCall(t), NEW h \in Addr \cup {NULL},
           MayCall("parse_interface", h), NEW hasPath \in BOOLEAN, NEW format \in FormatCodes,
           EnterParse(t, h, hasPath, format), UNCHANGED <<lastError, reply>>
    PROVE  ThreadsInv' /\ Atomic!parse_interface(t, h, hasPath, format)
<1> DEFINE op == "parse_interface"
<1>1. op \in Reporting /\ op \in Ops \ Queries
  BY DEF Reporting, Ops, Queries
<1>2. ASSUME NEW val \in {NULL_POINTER, ERROR, INVALID_PARAM}, Refuse(t, op, h, val)
      PROVE  ThreadsInv' /\ Atomic!Fail(t, op, h, val)
  BY <1>1, <1>2, Values, RefuseStep
<1>3. CASE h = NULL
  BY <1>2, <1>3, NullIsUnusable, Values DEF EnterParse, Atomic!parse_interface, Atomic!FailUnusable
<1>4. CASE h # NULL
  <2>1. /\ engine[h].initialized /\ ~Atomic!Unusable(h) /\ engine[h] = becomes[h]
        /\ engine[h] \in EngineState /\ h \in Addr
    BY <1>1, <1>4, CallableIsLive
  <2>2. CASE ~hasPath
    BY <1>2, <1>4, <2>1, <2>2, Values DEF EnterParse, Atomic!parse_interface
  <2>3. CASE hasPath /\ format > 3
    BY <1>2, <1>4, <2>1, <2>3, Values DEF EnterParse, Atomic!parse_interface
  <2>4. CASE hasPath /\ ~(format > 3)
    <3> DEFINE e == [engine[h] EXCEPT !.interface_loaded = TRUE, !.obligation_count = 0,
                                      !.discharged_count = 0, !.proofs_compiled = FALSE]
               todo == {"interface_loaded", "obligation_count", "discharged_count", "proofs_compiled"}
    <3>1. /\ e \in EngineState /\ e.initialized /\ todo \in SUBSET Fields
          /\ \A f \in Fields : e[f] = engine[h][f] \/ f \in todo
      <4>1. 0 \in U32 /\ todo \in SUBSET Fields
        BY CounterAssumption DEF U32, Fields
      <4>2. e \in EngineState /\ e.initialized
        BY <2>1, <4>1 DEF EngineState
      <4>3. \A f \in Fields \ todo : e[f] = engine[h][f]
        BY <2>1 DEF Fields, EngineState
      <4> QED  BY <4>1, <4>2, <4>3
    <3>2. Change(t, op, h, OK, e, todo)
      BY <1>4, <2>1, <2>4 DEF EnterParse
    <3> HIDE DEF e, todo
    <3>3. ThreadsInv' /\ Atomic!Update(h, e) /\ Atomic!Succeed(t, op, h, OK)
      BY <2>1, <3>1, <3>2, Values, ChangeStep
    <3>4. format <= 3
      BY <2>4, FormatAssumption
    <3> QED  BY <2>1, <2>4, <3>3, <3>4, Values DEF Atomic!parse_interface, e
  <2> QED  BY <2>2, <2>3, <2>4
<1> QED  BY <1>3, <1>4

LEMMA EnterGenerateStep ==
    ASSUME ThreadsInv, NEW t \in Threads, ~InCall(t), NEW h \in Addr \cup {NULL},
           MayCall("generate_proofs", h), EnterGenerate(t, h), UNCHANGED <<lastError, reply>>
    PROVE  ThreadsInv' /\ Atomic!generate_proofs(t, h)
<1> DEFINE op == "generate_proofs"
<1>1. op \in Reporting /\ op \in Ops \ Queries
  BY DEF Reporting, Ops, Queries
<1>2. ASSUME Refuse(t, op, h, 0) PROVE ThreadsInv' /\ Atomic!Fail(t, op, h, 0)
  BY <1>1, <1>2, Values, RefuseStep
<1>3. CASE h = NULL
  BY <1>2, <1>3, NullIsUnusable DEF EnterGenerate, Atomic!generate_proofs, Atomic!FailUnusable
<1>4. CASE h # NULL
  <2>1. /\ engine[h].initialized /\ ~Atomic!Unusable(h) /\ engine[h] = becomes[h]
        /\ engine[h] \in EngineState /\ h \in Addr
    BY <1>1, <1>4, CallableIsLive
  <2>2. CASE ~engine[h].interface_loaded
    BY <1>2, <1>4, <2>1, <2>2 DEF EnterGenerate, Atomic!generate_proofs
  <2>3. CASE engine[h].interface_loaded
    <3> DEFINE e(n) == [engine[h] EXCEPT !.obligation_count = n, !.discharged_count = 0,
                                         !.proofs_compiled = FALSE]
               todo == {"obligation_count", "discharged_count", "proofs_compiled"}
    <3>1. PICK n \in DerivedCounts : Change(t, op, h, n, e(n), todo)
      BY <1>4, <2>1, <2>3 DEF EnterGenerate
    <3>2. n \in U32 /\ n \in U32 \cup Result \cup Addr \cup {NULL}
      BY CounterAssumption DEF U32
    <3>3. /\ e(n) \in EngineState /\ e(n).initialized /\ todo \in SUBSET Fields
          /\ \A f \in Fields : e(n)[f] = engine[h][f] \/ f \in todo
      <4>1. 0 \in U32 /\ todo \in SUBSET Fields
        BY CounterAssumption DEF U32, Fields
      <4>2. e(n) \in EngineState /\ e(n).initialized
        BY <2>1, <3>2, <4>1 DEF EngineState
      <4>3. \A f \in Fields \ todo : e(n)[f] = engine[h][f]
        BY <2>1 DEF Fields, EngineState
      <4> QED  BY <4>1, <4>2, <4>3
    <3> HIDE DEF e, todo
    <3>4. ThreadsInv' /\ Atomic!Update(h, e(n)) /\ Atomic!Succeed(t, op, h, n)
      BY <2>1, <3>1, <3>2, <3>3, ChangeStep
    <3> QED  BY <2>1, <2>3, <3>4 DEF Atomic!generate_proofs, e
  <2> QED  BY <2>2, <2>3
<1> QED  BY <1>3, <1>4

LEMMA EnterCompileStep ==
    ASSUME ThreadsInv, NEW t \in Threads, ~InCall(t), NEW h \in Addr \cup {NULL},
           MayCall("compile_proofs", h), EnterCompile(t, h), UNCHANGED <<lastError, reply>>
    PROVE  ThreadsInv' /\ Atomic!compile_proofs(t, h)
<1> DEFINE op == "compile_proofs"
<1>1. op \in Reporting /\ op \in Ops \ Queries
  BY DEF Reporting, Ops, Queries
<1>2. ASSUME NEW val \in {NULL_POINTER, ERROR}, Refuse(t, op, h, val)
      PROVE  ThreadsInv' /\ Atomic!Fail(t, op, h, val)
  BY <1>1, <1>2, Values, RefuseStep
<1>3. CASE h = NULL
  BY <1>2, <1>3, NullIsUnusable, Values DEF EnterCompile, Atomic!compile_proofs, Atomic!FailUnusable
<1>4. CASE h # NULL
  <2>1. /\ engine[h].initialized /\ ~Atomic!Unusable(h) /\ engine[h] = becomes[h]
        /\ engine[h] \in EngineState /\ h \in Addr
    BY <1>1, <1>4, CallableIsLive
  <2>2. CASE engine[h].obligation_count = 0
    BY <1>2, <1>4, <2>1, <2>2, Values DEF EnterCompile, Atomic!compile_proofs
  <2>3. CASE engine[h].obligation_count # 0
    <3> DEFINE e == [engine[h] EXCEPT !.proofs_compiled = TRUE,
                                      !.discharged_count = engine[h].obligation_count]
               todo == {"proofs_compiled", "discharged_count"}
    <3>1. /\ e \in EngineState /\ e.initialized /\ todo \in SUBSET Fields
          /\ \A f \in Fields : e[f] = engine[h][f] \/ f \in todo
      BY <2>1 DEF EngineState, Fields
    <3>2. Change(t, op, h, OK, e, todo)
      BY <1>4, <2>1, <2>3 DEF EnterCompile
    <3> HIDE DEF e, todo
    <3>3. ThreadsInv' /\ Atomic!Update(h, e) /\ Atomic!Succeed(t, op, h, OK)
      BY <2>1, <3>1, <3>2, Values, ChangeStep
    <3> QED  BY <2>1, <2>3, <3>3, Values DEF Atomic!compile_proofs, e
  <2> QED  BY <2>2, <2>3
<1> QED  BY <1>3, <1>4

LEMMA EnterEmitStep ==
    ASSUME ThreadsInv, NEW t \in Threads, ~InCall(t), NEW h \in Addr \cup {NULL},
           MayCall("emit_wrapper", h), NEW hasPath \in BOOLEAN, EnterEmit(t, h, hasPath),
           UNCHANGED <<lastError, reply>>
    PROVE  ThreadsInv' /\ Atomic!emit_wrapper(t, h, hasPath)
<1> DEFINE op == "emit_wrapper"
<1>1. op \in Reporting /\ op \in Ops \ Queries /\ op \in Ops \ {"none", "init"} /\ op # "free"
  BY DEF Reporting, Ops, Queries
<1>2. ASSUME NEW val \in {OK, NULL_POINTER, ERROR, PROOF_FAILURE}, Refuse(t, op, h, val)
      PROVE  ThreadsInv' /\ Atomic!Fail(t, op, h, val)
  BY <1>1, <1>2, Values, RefuseStep
<1>3. CASE h = NULL
  BY <1>2, <1>3, NullIsUnusable, Values DEF EnterEmit, Atomic!emit_wrapper, Atomic!FailUnusable
<1>4. CASE h # NULL
  <2> DEFINE code == EmitCode(engine[h], hasPath)
  <2>1. /\ engine[h].initialized /\ ~Atomic!Unusable(h) /\ engine[h] = becomes[h]
        /\ engine[h] \in EngineState /\ h \in Addr
    BY <1>1, <1>4, CallableIsLive
  <2>2. code = Atomic!EmitCode(becomes[h], hasPath)
    BY <2>1, Values DEF EmitCode, Atomic!EmitCode
  <2>3. code \in {OK, NULL_POINTER, ERROR, PROOF_FAILURE}
    BY DEF EmitCode
  <2>4. IF code = OK THEN Accept(t, op, h, OK) ELSE Refuse(t, op, h, code)
    BY <1>4, <2>1 DEF EnterEmit
  <2> HIDE DEF code
  <2>5. CASE code = OK
    <3>1. Enter(t, op, h, h, OK, TRUE, {}) /\ UNCHANGED <<engine, owned, becomes, strings>>
      BY <2>4, <2>5 DEF Accept
    <3>2. strings' \subseteq Addr /\ owned \cap strings' = {}
      BY <3>1 DEF ThreadsInv, MemoryInv, HeapTyped
    <3>3. ThreadsInv' /\ Atomic!Succeed(t, op, h, OK)
      <4>1. op \notin Queries /\ OK \in U32 \cup Result \cup Addr \cup {NULL}
        BY <1>1, Values
      <4> QED  BY <1>1, <3>1, <3>2, <4>1, AcceptStep
    <3> QED  BY <2>1, <2>2, <2>5, <3>1, <3>3, Values DEF Atomic!emit_wrapper
  <2>6. CASE code # OK
    <3>1. PICK val \in {OK, NULL_POINTER, ERROR, PROOF_FAILURE} : val = code
      BY <2>3
    <3>2. Refuse(t, op, h, val)
      BY <2>4, <2>6, <3>1 DEF Refuse, Enter
    <3>3. ThreadsInv' /\ Atomic!Fail(t, op, h, val)
      BY <1>2, <3>2
    <3>4. Atomic!EmitCode(becomes[h], hasPath) # Atomic!OK
      BY <2>2, <2>6, Values
    <3>5. Atomic!Fail(t, op, h, Atomic!EmitCode(becomes[h], hasPath))
      BY <2>2, <3>1, <3>3 DEF Atomic!Fail, Atomic!Return
    <3> QED  BY <2>1, <3>3, <3>4, <3>5 DEF Atomic!emit_wrapper
  <2> QED  BY <2>5, <2>6
<1> QED  BY <1>3, <1>4

\* A string is taken from what is free, and handed to the caller.
LEMMA TakeStringStep ==
    ASSUME ThreadsInv, NEW t \in Threads, ~InCall(t), NEW op \in {"get_string", "last_error"},
           NEW h \in Addr \cup {NULL}, h = NULL \/ MayCall(op, h), TakeString(t, op, h),
           UNCHANGED <<lastError, reply>>
    PROVE  /\ ThreadsInv' /\ UNCHANGED becomes
           /\ \E s \in Atomic!Unused :
                 /\ strings' = strings \cup {s}
                 /\ op = "get_string" => Atomic!Succeed(t, op, h, s)
                 /\ op = "last_error" => Atomic!Answer(t, op, h, s)
<1>1. PICK s \in Free : /\ strings' = strings \cup {s} /\ Enter(t, op, h, h, s, TRUE, {})
                        /\ UNCHANGED <<engine, owned, becomes>>
  BY DEF TakeString
<1>2. s \in Atomic!Unused /\ s \in Addr \ owned
  BY FreeIsUnused
<1>3. /\ op \in Ops \ {"none", "init"} /\ op # "free" /\ op \notin Queries
      /\ op \in Reporting <=> op = "get_string"
      /\ s \in U32 \cup Result \cup Addr \cup {NULL}
  BY <1>2 DEF Ops, Queries, Reporting
<1>4. strings' \subseteq Addr /\ owned \cap strings' = {}
  BY <1>1, <1>2 DEF ThreadsInv, MemoryInv, HeapTyped
<1>5. /\ ThreadsInv'
      /\ op \in Reporting => Atomic!Succeed(t, op, h, s)
      /\ op \notin Queries \cup Reporting => Atomic!Answer(t, op, h, s)
  BY <1>1, <1>3, <1>4, AcceptStep
<1> QED  BY <1>1, <1>2, <1>3, <1>5

LEMMA EnterGetStringStep ==
    ASSUME ThreadsInv, NEW t \in Threads, ~InCall(t), NEW h \in Addr \cup {NULL},
           MayCall("get_string", h), EnterGetString(t, h), UNCHANGED <<lastError, reply>>
    PROVE  ThreadsInv' /\ Atomic!get_string(t, h)
<1>1. "get_string" \in Reporting /\ "get_string" \in Ops \ Queries
  BY DEF Reporting, Ops, Queries
<1>2. CASE Refuse(t, "get_string", h, NULL)
  <2>1. ThreadsInv' /\ Atomic!Fail(t, "get_string", h, NULL)
    BY <1>1, <1>2, RefuseStep
  <2> QED  BY <2>1 DEF Atomic!get_string, Atomic!FailUnusable
<1>3. CASE h # NULL /\ engine[h].initialized /\ TakeString(t, "get_string", h)
  <2>1. ~Atomic!Unusable(h)
    BY <1>1, <1>3, CallableIsLive
  <2>2. /\ ThreadsInv' /\ UNCHANGED becomes
        /\ \E s \in Atomic!Unused : /\ strings' = strings \cup {s}
                                     /\ Atomic!Succeed(t, "get_string", h, s)
    BY <1>3, TakeStringStep
  <2> QED  BY <2>1, <2>2 DEF Atomic!get_string
<1> QED  BY <1>2, <1>3 DEF EnterGetString

LEMMA EnterFreeStringStep ==
    ASSUME ThreadsInv, NEW t \in Threads, ~InCall(t), NEW s \in strings \cup {NULL},
           EnterFreeString(t, s), UNCHANGED <<lastError, reply>>
    PROVE  ThreadsInv' /\ Atomic!free_string(t, s)
<1>1. /\ "free_string" \in Ops \ {"none", "init"} /\ "free_string" \notin Queries \cup Reporting
      /\ 0 \in U32 \cup Result \cup Addr \cup {NULL}
  BY Values DEF Ops, Queries, Reporting
<1>2. /\ strings' = strings \ {s} /\ Enter(t, "free_string", NULL, NULL, 0, TRUE, {})
      /\ UNCHANGED <<engine, owned, becomes>>
  BY DEF EnterFreeString
<1>3. strings' \subseteq Addr /\ owned \cap strings' = {}
  BY <1>2 DEF ThreadsInv, MemoryInv, HeapTyped
<1>4. ThreadsInv' /\ Atomic!Answer(t, "free_string", NULL, 0)
  BY <1>1, <1>2, <1>3, AcceptStep
<1> QED  BY <1>2, <1>4 DEF Atomic!free_string

LEMMA EnterLastErrorStep ==
    ASSUME ThreadsInv, NEW t \in Threads, ~InCall(t), EnterLastError(t),
           UNCHANGED <<lastError, reply>>
    PROVE  ThreadsInv' /\ Atomic!last_error(t)
<1>1. /\ "last_error" \in Ops \ {"none", "init"} /\ "last_error" \notin Queries \cup Reporting
      /\ "last_error" # "free"
  BY DEF Ops, Queries, Reporting
<1>2. CASE Accept(t, "last_error", NULL, NULL)
  <2>1. /\ Enter(t, "last_error", NULL, NULL, NULL, TRUE, {})
        /\ UNCHANGED <<engine, owned, becomes, strings>>
    BY <1>2 DEF Accept
  <2>2. strings' \subseteq Addr /\ owned \cap strings' = {}
    BY <2>1 DEF ThreadsInv, MemoryInv, HeapTyped
  <2>3. ThreadsInv' /\ Atomic!Answer(t, "last_error", NULL, NULL)
    BY <1>1, <2>1, <2>2, AcceptStep
  <2> QED  BY <2>1, <2>3 DEF Atomic!last_error
<1>3. CASE lastError[t] # NoError /\ TakeString(t, "last_error", NULL)
  <2>1. \E s \in Atomic!Unused : strings' = strings \cup {s} /\ Atomic!Answer(t, "last_error", NULL, s)
    BY <1>3, TakeStringStep
  <2>2. lastErrorBar[t] # NoError
    BY <1>3 DEF lastErrorBar, Happened
  <2>3. ThreadsInv'
    BY <1>3, TakeStringStep
  <2> QED  BY <2>1, <2>2, <2>3 DEF Atomic!last_error, lastErrorBar, NoError, Atomic!NoError
<1> QED  BY <1>2, <1>3 DEF EnterLastError

\* A thread that is in no call makes one: a step of the atomic engine, or a query
\* that has yet to happen.
LEMMA CallsStep ==
    ASSUME ThreadsInv, NEW t \in Threads, Calls(t)
    PROVE  /\ ThreadsInv'
           /\ Atomic!Next \/ UNCHANGED <<becomes, strings, lastErrorBar, replyBar>>
<1>1. ~InCall(t) /\ UNCHANGED <<lastError, reply>>
  BY DEF Calls
<1>2. {"free", "parse_interface", "generate_proofs", "compile_proofs", "emit_wrapper", "get_string"}
        \subseteq Ops \ Queries
  BY DEF Reporting, Ops, Queries
<1>3. CASE EnterInit(t)
  BY <1>1, <1>3, EnterInitStep DEF Atomic!Next
<1>4. ASSUME NEW h \in Addr \cup {NULL}, MayCall("free", h), EnterFree(t, h)
      PROVE  ThreadsInv' /\ Atomic!Next
  BY <1>1, <1>2, <1>4, EnterFreeStep, HandleSeen DEF Atomic!Next
<1>5. ASSUME NEW h \in Addr \cup {NULL}, NEW op \in Queries, MayCall(op, h), EnterQuery(t, op, h)
      PROVE  ThreadsInv' /\ UNCHANGED <<becomes, strings, lastErrorBar, replyBar>>
  BY <1>1, <1>5, EnterQueryStep
<1>6. ASSUME NEW h \in Addr \cup {NULL}, MayCall("parse_interface", h), NEW hasPath \in BOOLEAN,
             NEW format \in FormatCodes, EnterParse(t, h, hasPath, format)
      PROVE  ThreadsInv' /\ Atomic!Next
  <2>1. ThreadsInv' /\ Atomic!parse_interface(t, h, hasPath, format) /\ h \in Atomic!Handles
    BY <1>1, <1>2, <1>6, EnterParseStep, HandleSeen
  <2> QED  BY <2>1 DEF Atomic!Next
<1>7. ASSUME NEW h \in Addr \cup {NULL}, MayCall("generate_proofs", h), EnterGenerate(t, h)
      PROVE  ThreadsInv' /\ Atomic!Next
  BY <1>1, <1>2, <1>7, EnterGenerateStep, HandleSeen DEF Atomic!Next
<1>8. ASSUME NEW h \in Addr \cup {NULL}, MayCall("compile_proofs", h), EnterCompile(t, h)
      PROVE  ThreadsInv' /\ Atomic!Next
  BY <1>1, <1>2, <1>8, EnterCompileStep, HandleSeen DEF Atomic!Next
<1>9. ASSUME NEW h \in Addr \cup {NULL}, MayCall("emit_wrapper", h), NEW hasPath \in BOOLEAN,
             EnterEmit(t, h, hasPath)
      PROVE  ThreadsInv' /\ Atomic!Next
  <2>1. ThreadsInv' /\ Atomic!emit_wrapper(t, h, hasPath) /\ h \in Atomic!Handles
    BY <1>1, <1>2, <1>9, EnterEmitStep, HandleSeen
  <2> QED  BY <2>1 DEF Atomic!Next
<1>10. ASSUME NEW h \in Addr \cup {NULL}, MayCall("get_string", h), EnterGetString(t, h)
       PROVE  ThreadsInv' /\ Atomic!Next
  BY <1>1, <1>2, <1>10, EnterGetStringStep, HandleSeen DEF Atomic!Next
<1>11. ASSUME NEW s \in strings \cup {NULL}, EnterFreeString(t, s)
       PROVE  ThreadsInv' /\ Atomic!Next
  BY <1>1, <1>11, EnterFreeStringStep DEF Atomic!Next
<1>12. CASE EnterLastError(t)
  BY <1>1, <1>12, EnterLastErrorStep DEF Atomic!Next
<1> QED
  BY <1>3, <1>4, <1>5, <1>6, <1>7, <1>8, <1>9, <1>10, <1>11, <1>12 DEF Calls

--------------------------------------------------------------------------------
\* Inside a call

\* Nothing a call does inside is seen from outside.
LEMMA InsideUnseen ==
    ASSUME CallsInv, CallsInv', \A u \in Threads : call'[u].answer = call[u].answer,
           UNCHANGED <<lastError, reply>>
    PROVE  UNCHANGED <<lastErrorBar, replyBar>>
<1>1. \A u \in Threads : Op(u)' = Op(u)
  BY DEF Op
<1>2. \A u \in Threads : InCall(u) <=> Op(u) # "none"
  BY InCallByOp
<1>3. \A u \in Threads : InCall(u)' <=> Op(u)' # "none"
  BY DEF CallsInv, CallOK, InCall, NoCall, NoReply, Op
<1>4. \A u \in Threads : Happened(u)' <=> Happened(u)
  BY <1>1, <1>2, <1>3 DEF Happened
<1> QED  BY <1>4 DEF lastErrorBar, replyBar

LEMMA StoreStep ==
    ASSUME ThreadsInv, NEW t \in Threads, Store(t)
    PROVE  ThreadsInv' /\ UNCHANGED <<becomes, strings, lastErrorBar, replyBar>>
<1>1. PICK f \in call[t].todo :
         /\ engine' = [engine EXCEPT ![call[t].on][f] = becomes[call[t].on][f]]
         /\ call' = [call EXCEPT ![t].todo = @ \ {f}]
  BY DEF Store
<1>2. UNCHANGED <<strings, lastError, reply, owned, becomes>>
  BY DEF Store
<1> DEFINE a == call[t].on
<1>3. CallOK(t) /\ call \in [Threads -> Call] /\ a # NULL /\ a \in Addr /\ f \in Fields
      /\ a \in owned
  BY DEF ThreadsInv, CallsInv, CallOK, Call
<1>4. /\ call' \in [Threads -> Call]
      /\ \A u \in Threads \ {t} : call'[u] = call[u]
      /\ call'[t].on = call[t].on /\ call'[t].answer = call[t].answer
      /\ call'[t].raced = call[t].raced /\ call'[t].todo = call[t].todo \ {f}
  BY <1>1, <1>3 DEF Call
<1>5. \A u \in Threads : /\ Op(u)' = Op(u) /\ call'[u].answer = call[u].answer
                          /\ call'[u].on = call[u].on
  BY <1>4 DEF Op
<1>6. CallsInv'
  <2>1. Op(t) # "none" /\ Op(t) \notin Queries
    BY <1>3 DEF CallOK, NoCall
  <2>2. CallOK(t)'
    BY <1>2, <1>3, <1>4, <1>5, <2>1 DEF CallOK
  <2>3. ASSUME NEW u \in Threads, u # t PROVE CallOK(u)'
    <3>1. CallOK(u) /\ call'[u] = call[u]
      BY <1>4, <2>3 DEF ThreadsInv, CallsInv
    <3> QED  BY <1>2, <1>5, <3>1 DEF CallOK
  <2>4. Apart'
    BY <1>5 DEF ThreadsInv, CallsInv, Apart
  <2> QED  BY <1>4, <2>2, <2>3, <2>4 DEF CallsInv
<1>7. engine[a] \in EngineState /\ becomes[a] \in EngineState
  BY <1>3 DEF ThreadsInv, MemoryInv, HeapTyped
<1>8. /\ WithField(engine[a], becomes[a], f) \in EngineState
      /\ \A g \in Fields : WithField(engine[a], becomes[a], f)[g]
                             = IF g = f THEN becomes[a][g] ELSE engine[a][g]
  <2>1. f \in Fields
    BY <1>3
  <2> HIDE DEF a
  <2> QED  BY <1>7, <2>1, StoreTyped
<1>9. /\ engine' \in [Addr -> EngineState]
      /\ \A g \in Fields : engine'[a][g] = IF g = f THEN becomes[a][g] ELSE engine[a][g]
      /\ \A b \in Addr \ {a} : engine'[b] = engine[b]
  BY <1>1, <1>3, <1>8 DEF ThreadsInv, MemoryInv, HeapTyped, WithField
<1>10. \A b \in Addr :
         /\ (\E u \in Threads : FreedBy(u, b)') <=> \E u \in Threads : FreedBy(u, b)
         /\ \A g : Storing(b, g) => Storing(b, g)' \/ (b = a /\ g = f)
  BY <1>4, <1>5 DEF FreedBy, Storing
<1>11. ASSUME NEW b \in Addr PROVE BlockOK(b)'
  <2>1. BlockOK(b)
    BY DEF ThreadsInv, MemoryInv
  <2>2. CASE b = a
    BY <1>2, <1>9, <1>10, <2>1, <2>2 DEF BlockOK
  <2>3. CASE b # a
    BY <1>2, <1>9, <1>10, <2>1, <2>3 DEF BlockOK
  <2> QED  BY <2>2, <2>3
<1>12. HeapTyped'
  BY <1>2, <1>9 DEF ThreadsInv, MemoryInv, HeapTyped
<1>13. UNCHANGED <<lastErrorBar, replyBar>>
  BY <1>2, <1>5, <1>6, InsideUnseen DEF ThreadsInv
<1> QED
  BY <1>2, <1>6, <1>11, <1>12, <1>13 DEF ThreadsInv, MemoryInv, ToldInv

LEMMA DestroyStep ==
    ASSUME ThreadsInv, NEW t \in Threads, Destroy(t)
    PROVE  ThreadsInv' /\ UNCHANGED <<becomes, strings, lastErrorBar, replyBar>>
<1> DEFINE a == call[t].on
<1>1. /\ Op(t) = "free" /\ a # NULL /\ call[t].todo = {}
      /\ owned' = owned \ {a} /\ call' = [call EXCEPT ![t].on = NULL]
      /\ UNCHANGED <<engine, strings, lastError, reply, becomes>>
  BY DEF Destroy
<1>2. CallOK(t) /\ call \in [Threads -> Call] /\ a \in Addr /\ a \in owned
  BY <1>1 DEF ThreadsInv, CallsInv, CallOK, Call
<1>3. \A u \in Threads \ {t} : call[u].on # a
  BY <1>1 DEF ThreadsInv, CallsInv, Apart
<1>4. /\ call' \in [Threads -> Call]
      /\ \A u \in Threads \ {t} : call'[u] = call[u]
      /\ call'[t].on = NULL /\ call'[t].answer = call[t].answer /\ call'[t].todo = {}
      /\ call'[t].raced = call[t].raced
  BY <1>1, <1>2 DEF Call
<1>5. \A u \in Threads : Op(u)' = Op(u) /\ call'[u].answer = call[u].answer
  BY <1>4 DEF Op
<1>6. CallsInv'
  <2>1. CallOK(t)'
    BY <1>1, <1>2, <1>4, <1>5 DEF CallOK, Queries
  <2>2. ASSUME NEW u \in Threads, u # t PROVE CallOK(u)'
    <3>1. CallOK(u) /\ call'[u] = call[u]
      BY <1>4, <2>2 DEF ThreadsInv, CallsInv
    <3>2. call'[t].on # call[u].on \/ call[u].on = NULL
      BY <1>4
    <3> QED  BY <1>1, <1>3, <1>4, <1>5, <2>2, <3>1, <3>2 DEF CallOK
  <2>3. Apart'
    BY <1>4, <1>5 DEF ThreadsInv, CallsInv, Apart
  <2> QED  BY <1>4, <2>1, <2>2, <2>3 DEF CallsInv
<1>7. /\ \A b \in Addr \ {a} :
            /\ (\E u \in Threads : FreedBy(u, b)') <=> \E u \in Threads : FreedBy(u, b)
            /\ \A g : Storing(b, g)' <=> Storing(b, g)
      /\ FreedBy(t, a)
  BY <1>1, <1>2, <1>4, NullAssumption DEF FreedBy, Storing, Op
<1>8. \A b \in Addr : BlockOK(b)'
  BY <1>1, <1>7 DEF ThreadsInv, MemoryInv, BlockOK
<1>9. HeapTyped'
  BY <1>1 DEF ThreadsInv, MemoryInv, HeapTyped
<1>10. UNCHANGED <<lastErrorBar, replyBar>>
  BY <1>1, <1>5, <1>6, InsideUnseen DEF ThreadsInv
<1> QED
  BY <1>1, <1>6, <1>8, <1>9, <1>10 DEF ThreadsInv, MemoryInv, ToldInv

--------------------------------------------------------------------------------
\* Leaving a call

\* What a call is answered with when it leaves
Given(t) == IF Op(t) \in Queries /\ call[t].on # NULL
            THEN [call[t].answer EXCEPT !.val = Read(Op(t), engine[call[t].on])]
            ELSE call[t].answer

\* What a query reads is an answer.
LEMMA ReadTyped ==
    ASSUME NEW e \in EngineState, NEW op
    PROVE  Read(op, e) \in U32 \cup Result
<1>1. e.discharged_count \in U32 /\ e.obligation_count \in U32
  BY DEF EngineState
<1>2. remaining(e) \in U32
  BY <1>1, CounterAssumption DEF remaining, U32
<1>3. {0, 1} \subseteq Result
  BY DEF Result, OK, ERROR
<1> QED  BY <1>1, <1>2, <1>3 DEF Read

\* The thread is out of its call, and nothing else changed but what it was told.
LEMMA LeaveKeepsInv ==
    ASSUME ThreadsInv, NEW t \in Threads, Leave(t)
    PROVE  ThreadsInv'
<1>1. /\ call[t].todo = {} /\ (Op(t) = "free" => call[t].on = NULL)
      /\ lastError' = [lastError EXCEPT ![t] = ErrorAfter(call[t].answer, @)]
      /\ reply' = [reply EXCEPT ![t] = IF call[t].raced THEN @ ELSE Given(t)]
      /\ call' = [call EXCEPT ![t] = NoCall]
      /\ UNCHANGED <<engine, strings, owned, becomes>>
  BY DEF Leave, Given
<1>2. call \in [Threads -> Call] /\ (\A u \in Threads : CallOK(u)) /\ Apart
  BY DEF ThreadsInv, CallsInv
<1>3. NoCall \in Call /\ NoCall.on = NULL /\ NoCall.todo = {} /\ NoCall.answer.op = "none"
      /\ ~NoCall.raced
  BY Values DEF NoCall, NoReply, Call, Reply, Ops
<1>4. /\ call' \in [Threads -> Call]
      /\ \A u \in Threads \ {t} : call'[u] = call[u] /\ Op(u)' = Op(u)
      /\ call'[t] = NoCall /\ call'[t].on = NULL /\ call'[t].todo = {} /\ Op(t)' = "none"
      /\ ~call'[t].raced
  BY <1>1, <1>2, <1>3 DEF Op
<1>5. CallsInv'
  <2>1. CallOK(t)'
    BY <1>4 DEF CallOK, Queries
  <2>2. ASSUME NEW u \in Threads, u # t PROVE CallOK(u)'
    <3>1. CallOK(u) /\ call'[u] = call[u] /\ Op(u)' = Op(u)
      BY <1>2, <1>4, <2>2
    <3> QED  BY <1>1, <1>4, <2>2, <3>1 DEF CallOK
  <2>3. Apart'
    BY <1>2, <1>4 DEF Apart
  <2> QED  BY <1>4, <2>1, <2>2, <2>3 DEF CallsInv
<1>6. \A b \in Addr : /\ (\E u \in Threads : FreedBy(u, b)') <=> \E u \in Threads : FreedBy(u, b)
                     /\ \A g : Storing(b, g)' <=> Storing(b, g)
  BY <1>1, <1>4, NullAssumption DEF FreedBy, Storing
<1>7. MemoryInv'
  <2>1. \A b \in Addr : BlockOK(b)'
    BY <1>1, <1>6 DEF ThreadsInv, MemoryInv, BlockOK
  <2> QED  BY <1>1, <2>1 DEF ThreadsInv, MemoryInv, HeapTyped
<1>8. Given(t) \in Reply
  <2>1. call[t].answer \in Reply /\ call[t].on \in Addr \cup {NULL}
    BY <1>2 DEF Call
  <2>2. call[t].on # NULL => Read(Op(t), engine[call[t].on]) \in U32 \cup Result
    BY <2>1, ReadTyped DEF ThreadsInv, MemoryInv, HeapTyped
  <2> QED  BY <2>1, <2>2 DEF Given, Reply
<1>9. \A r, b : b \in {NoError, Message} => ErrorAfter(r, b) \in {NoError, Message}
  BY DEF ErrorAfter
<1>10. ToldInv'
  BY <1>1, <1>8, <1>9 DEF ThreadsInv, ToldInv
<1> QED  BY <1>5, <1>7, <1>10 DEF ThreadsInv

\* A query that raced with nobody answers what the atomic engine does.
LEMMA QueryStep ==
    ASSUME ThreadsInv, NEW t \in Threads, Op(t) \in Queries, ~call[t].raced,
           replyBar' = [replyBar EXCEPT ![t] = Given(t)],
           UNCHANGED <<becomes, strings, lastErrorBar>>
    PROVE  Atomic!Next
<1> DEFINE h == call[t].on
<1>1. CallOK(t) /\ call[t] \in Call /\ h \in Addr \cup {NULL} /\ call[t].answer \in Reply
  BY DEF ThreadsInv, CallsInv, Call
<1>2. call[t].answer.h = h /\ call[t].answer.val = 0 /\ call[t].answer.done
      /\ call[t].answer.op = Op(t)
  BY <1>1 DEF CallOK, Op
<1>3. h # NULL => /\ h \in Addr /\ engine[h] = becomes[h] /\ becomes[h].initialized
                  /\ ~Atomic!Unusable(h) /\ h \in Atomic!Live
  <2> SUFFICES ASSUME h # NULL
               PROVE  /\ h \in Addr /\ engine[h] = becomes[h] /\ becomes[h].initialized
                      /\ ~Atomic!Unusable(h) /\ h \in Atomic!Live
    OBVIOUS
  <2>1. h \in owned /\ Changing(h) = {}
    BY <1>1 DEF CallOK, Changing, OnIt
  <2> QED  BY <2>1, Settled DEF Atomic!Live, Atomic!Unusable
<1>4. h \in Atomic!Handles
  BY <1>1, <1>3 DEF Atomic!Handles
<1>5. Given(t) = [op |-> Op(t), h |-> h,
                  val |-> IF h = NULL THEN 0 ELSE Read(Op(t), becomes[h]), done |-> TRUE]
  BY <1>1, <1>2, <1>3 DEF Given, Reply
<1>6. PICK val : val = IF h = NULL THEN 0 ELSE Read(Op(t), becomes[h])
  OBVIOUS
<1>7. PICK x \in Atomic!Handles : x = h
  BY <1>4
<1>8. PICK op \in Queries : op = Op(t)
  OBVIOUS
<1>9. Atomic!Answer(t, op, x, val) /\ UNCHANGED strings
  BY <1>5, <1>6, <1>7, <1>8 DEF Atomic!Answer, Atomic!Return, replyBar, lastErrorBar
<1>10. x = NULL => Atomic!Unusable(x)
  BY NullIsUnusable DEF Atomic!Unusable
<1>11. CASE op = "is_initialized"
  <2>1. Atomic!is_initialized(t, x)
    BY <1>3, <1>6, <1>7, <1>8, <1>9, <1>10, <1>11 DEF Atomic!is_initialized, Atomic!Answer,
       Atomic!Return, Atomic!Unusable, Read
  <2> QED  BY <2>1 DEF Atomic!Next
<1>12. CASE op = "discharged_count"
  <2>1. Atomic!discharged_count(t, x)
    BY <1>3, <1>6, <1>7, <1>8, <1>9, <1>12 DEF Atomic!discharged_count, Atomic!Answer,
       Atomic!Return, Read
  <2> QED  BY <2>1 DEF Atomic!Next
<1>13. CASE op = "remaining_count"
  <2>1. Atomic!remaining_count(t, x)
    BY <1>3, <1>6, <1>7, <1>8, <1>9, <1>13 DEF Atomic!remaining_count, Atomic!remaining, Atomic!Answer,
       Atomic!Return, Read, remaining
  <2> QED  BY <2>1 DEF Atomic!Next
<1> QED  BY <1>11, <1>12, <1>13 DEF Queries

\* A query happens as it leaves, unless it raced; any other call has happened.
LEMMA LeaveStep ==
    ASSUME ThreadsInv, NEW t \in Threads, Leave(t)
    PROVE  Atomic!Next \/ UNCHANGED <<becomes, strings, lastErrorBar, replyBar>>
<1>1. /\ InCall(t)
      /\ lastError' = [lastError EXCEPT ![t] = ErrorAfter(call[t].answer, @)]
      /\ reply' = [reply EXCEPT ![t] = IF call[t].raced THEN @ ELSE Given(t)]
      /\ call' = [call EXCEPT ![t] = NoCall]
      /\ UNCHANGED <<becomes, strings>>
  BY DEF Leave, Given
<1>2. /\ call \in [Threads -> Call] /\ CallOK(t)
      /\ lastError \in [Threads -> {NoError, Message}] /\ reply \in [Threads -> Reply]
  BY DEF ThreadsInv, CallsInv, ToldInv
<1>3. /\ ~Happened(t)'
      /\ \A u \in Threads \ {t} : call'[u] = call[u] /\ (Happened(u)' <=> Happened(u))
  BY <1>1, <1>2 DEF Happened, InCall, Op
<1>4. /\ lastError'[t] = ErrorAfter(call[t].answer, lastError[t])
      /\ reply'[t] = IF call[t].raced THEN reply[t] ELSE Given(t)
      /\ \A u \in Threads \ {t} : lastError'[u] = lastError[u] /\ reply'[u] = reply[u]
  BY <1>1, <1>2
<1>5. /\ \A u \in Threads \ {t} : lastErrorBar'[u] = lastErrorBar[u] /\ replyBar'[u] = replyBar[u]
      /\ lastErrorBar'[t] = lastError'[t] /\ replyBar'[t] = reply'[t]
  BY <1>3, <1>4 DEF lastErrorBar, replyBar
<1>6. /\ lastErrorBar = [u \in Threads |-> lastErrorBar[u]]
      /\ lastErrorBar' = [u \in Threads |-> lastErrorBar'[u]]
      /\ replyBar = [u \in Threads |-> replyBar[u]]
      /\ replyBar' = [u \in Threads |-> replyBar'[u]]
  BY DEF lastErrorBar, replyBar
<1>7. CASE Op(t) \notin Queries
  <2>1. ~call[t].raced /\ Happened(t)
    BY <1>1, <1>2, <1>7 DEF CallOK, Happened
  <2>2. lastErrorBar[t] = lastError'[t] /\ replyBar[t] = reply'[t]
    BY <1>4, <1>7, <2>1 DEF lastErrorBar, replyBar, Given
  <2> QED  BY <1>1, <1>5, <1>6, <2>2
<1>8. CASE Op(t) \in Queries
  <2>1. ~Happened(t) /\ call[t].answer.done /\ call[t].answer.op \in Queries
    BY <1>2, <1>8 DEF CallOK, Happened, Op
  <2>2. ErrorAfter(call[t].answer, lastError[t]) = lastError[t]
    BY <2>1 DEF ErrorAfter, Queries, Reporting
  <2>3. lastErrorBar[t] = lastError'[t] /\ replyBar[t] = reply[t]
    BY <1>4, <2>1, <2>2 DEF lastErrorBar, replyBar
  <2>4. lastErrorBar' = lastErrorBar
    BY <1>5, <1>6, <2>3
  <2>5. CASE call[t].raced
    BY <1>1, <1>4, <1>5, <1>6, <2>3, <2>4, <2>5
  <2>6. CASE ~call[t].raced
    <3>1. replyBar' = [replyBar EXCEPT ![t] = Given(t)]
      BY <1>4, <1>5, <1>6, <2>6
    <3> QED  BY <1>1, <1>8, <2>4, <2>6, <3>1, QueryStep
  <2> QED  BY <2>5, <2>6
<1> QED  BY <1>7, <1>8

--------------------------------------------------------------------------------
\* At the start nobody is in a call, and no block is an engine.
LEMMA InitEstablishes ==
    ASSUME ThreadsInit
    PROVE  ThreadsInv /\ Atomic!Init
<1>1. NoEngine \in EngineState
  BY CounterAssumption DEF NoEngine, EngineState, U32
<1>2. NoReply \in Reply /\ NoCall \in Call /\ NoCall.on = NULL /\ NoCall.todo = {}
      /\ NoCall.answer = NoReply /\ NoReply.op = "none" /\ ~NoCall.raced
  BY Values DEF NoReply, Reply, Ops, NoCall, Call
<1>3. \A u \in Threads : call[u] = NoCall /\ Op(u) = "none" /\ ~InCall(u)
  BY <1>2 DEF ThreadsInit, Op, InCall
<1>4. CallsInv
  BY <1>2, <1>3 DEF ThreadsInit, CallsInv, CallOK, Apart, Queries
<1>5. MemoryInv
  BY <1>1 DEF ThreadsInit, Init, MemoryInv, HeapTyped, BlockOK
<1>6. ToldInv
  BY <1>2 DEF ThreadsInit, Init, ToldInv
<1>7. Atomic!Init
  BY <1>3, Values DEF ThreadsInit, Init, Atomic!Init, Happened, NoReply, Atomic!NoReply, NoError,
     Atomic!NoError
<1> QED  BY <1>4, <1>5, <1>6, <1>7 DEF ThreadsInv

\* Every step is one of the atomic engine or one it does not see.
LEMMA EveryStep ==
    ASSUME ThreadsInv, [ThreadsNext]_threadVars
    PROVE  ThreadsInv' /\ [Atomic!Next]_(Atomic!vars)
<1>1. ASSUME UNCHANGED <<becomes, strings, lastErrorBar, replyBar>>
      PROVE  UNCHANGED Atomic!vars
  BY <1>1 DEF Atomic!vars, lastErrorBar, replyBar
<1>2. CASE ThreadsNext
  <2>1. PICK t \in Threads : Calls(t) \/ Store(t) \/ Destroy(t) \/ Leave(t)
    BY <1>2 DEF ThreadsNext
  <2> QED  BY <1>1, <2>1, CallsStep, StoreStep, DestroyStep, LeaveKeepsInv, LeaveStep
<1>3. CASE UNCHANGED threadVars
  <2>1. UNCHANGED <<engine, strings, lastError, reply, owned, becomes, call>>
    BY <1>3 DEF threadVars
  <2>2. CallsInv'
    BY <2>1 DEF ThreadsInv, CallsInv, CallOK, Apart, Op
  <2>3. MemoryInv' /\ ToldInv'
    BY <2>1 DEF ThreadsInv, MemoryInv, ToldInv, HeapTyped, BlockOK, FreedBy, Storing, Op
  <2>4. UNCHANGED Atomic!vars
    BY <2>1 DEF Atomic!vars, Happened, InCall, Op
  <2> QED  BY <2>2, <2>3, <2>4 DEF ThreadsInv
<1> QED  BY <1>2, <1>3

(* However the loads and stores of the threads interleave, calls stay apart    *)
(* where it matters, and what memory holds differs from what it will hold in   *)
(* the fields that some call has left to store, and only in these.             *)
THEOREM ThreadsInvariant == ThreadsSpec => []ThreadsInv
<1>1. ThreadsInit => ThreadsInv
  BY InitEstablishes
<1>2. ThreadsInv /\ [ThreadsNext]_threadVars => ThreadsInv'
  BY EveryStep
<1> QED  BY <1>1, <1>2, PTL DEF ThreadsSpec

(* The variables have their types, and no block is an engine and a string at   *)
(* once, for any threads, heap, codes, counts and counter width.               *)
THEOREM ThreadsTypeCorrect == ThreadsSpec => []ThreadsTypeOK
<1>1. ThreadsInv => ThreadsTypeOK
  BY DEF ThreadsInv, CallsInv, MemoryInv, ToldInv, HeapTyped, ThreadsTypeOK, Call
<1> QED  BY <1>1, ThreadsInvariant, PTL

(* Calls taken apart into their loads and stores implement the engine whose    *)
(* calls are atomic, for any number of threads and blocks: what is proved of   *)
(* ProofEngine holds of the threads as long as callers keep to MayCall.        *)
THEOREM ThreadsImplementAtomicEngine == ThreadsSpec => ImplementsAtomicEngine
<1>1. ThreadsInit => Atomic!Init
  BY InitEstablishes
<1>2. ThreadsInv /\ [ThreadsNext]_threadVars => [Atomic!Next]_(Atomic!vars)
  BY EveryStep
<1> QED
  BY <1>1, <1>2, ThreadsInvariant, PTL DEF ThreadsSpec, ImplementsAtomicEngine, Atomic!Spec

--------------------------------------------------------------------------------
\* The same instance with the theorems on ProofEngine
AtomicEngine == INSTANCE ProofEngineProofs WITH
    engine    <- becomes,
    lastError <- [t \in Threads |-> IF Happened(t) THEN ErrorAfter(call[t].answer, lastError[t])
                                                   ELSE lastError[t]],
    reply     <- [t \in Threads |-> IF Happened(t) THEN call[t].answer ELSE reply[t]]

LEMMA ThreadsRunTheEngine == ThreadsSpec => AtomicEngine!Spec
<1>1. Atomic!Init <=> AtomicEngine!Init
  BY DEF Atomic!Init, AtomicEngine!Init, Atomic!NoEngine, AtomicEngine!NoEngine, Atomic!NoError,
         AtomicEngine!NoError, Atomic!NoReply, AtomicEngine!NoReply
<1>2. Atomic!Next <=> AtomicEngine!Next
  BY DEF Atomic!Next, AtomicEngine!Next, Atomic!init, AtomicEngine!init, Atomic!free,
         AtomicEngine!free, Atomic!is_initialized, AtomicEngine!is_initialized,
         Atomic!parse_interface, AtomicEngine!parse_interface, Atomic!generate_proofs,
         AtomicEngine!generate_proofs, Atomic!compile_proofs, AtomicEngine!compile_proofs,
         Atomic!emit_wrapper, AtomicEngine!emit_wrapper, Atomic!discharged_count,
         AtomicEngine!discharged_count, Atomic!remaining_count, AtomicEngine!remaining_count,
         Atomic!get_string, AtomicEngine!get_string, Atomic!free_string,
         AtomicEngine!free_string, Atomic!last_error, AtomicEngine!last_error, Atomic!Fail,
         AtomicEngine!Fail, Atomic!Succeed, AtomicEngine!Succeed, Atomic!Answer,
         AtomicEngine!Answer, Atomic!Return, AtomicEngine!Return, Atomic!Unusable,
         AtomicEngine!Unusable, Atomic!FailUnusable, AtomicEngine!FailUnusable, Atomic!Update,
         AtomicEngine!Update, Atomic!Live, AtomicEngine!Live, Atomic!Unused,
         AtomicEngine!Unused, Atomic!NoEngine, AtomicEngine!NoEngine, Atomic!NoError,
         AtomicEngine!NoError, Atomic!Message, AtomicEngine!Message, Atomic!OK,
         AtomicEngine!OK, Atomic!ERROR, AtomicEngine!ERROR, Atomic!INVALID_PARAM,
         AtomicEngine!INVALID_PARAM, Atomic!NULL_POINTER, AtomicEngine!NULL_POINTER,
         Atomic!PROOF_FAILURE, AtomicEngine!PROOF_FAILURE, Atomic!EmitCode,
         AtomicEngine!EmitCode, Atomic!remaining, AtomicEngine!remaining, Atomic!Handles,
         AtomicEngine!Handles
<1>3. [Atomic!Next]_(Atomic!vars) => [AtomicEngine!Next]_(AtomicEngine!vars)
  BY <1>2 DEF Atomic!vars, AtomicEngine!vars
<1> QED
  BY <1>1, <1>3, ThreadsImplementAtomicEngine, PTL
  DEF ImplementsAtomicEngine, Atomic!Spec, AtomicEngine!Spec

(* The workflow survives the interleaving of loads and stores: a wrapper is    *)
(* emitted only when every obligation of the interface loaded now was proved,  *)
(* as callers see it who get their answers from calls taken apart              *)
(* (main.zig:117-272).                                                         *)
THEOREM ThreadsImplementWorkflow == ThreadsSpec => AtomicEngine!ImplementsWorkflow
<1>1. AtomicEngine!Spec => AtomicEngine!ImplementsWorkflow
  BY AtomicEngine!EngineImplementsWorkflow, NullAssumption, CounterAssumption, FormatAssumption
<1> QED  BY <1>1, ThreadsRunTheEngine, PTL

(* Engines at rest are consistent in memory: the atomic engine's counters      *)
(* agree, and memory differs from it only where a call has stores due, for any *)
(* number of threads and any order of the stores.                              *)
THEOREM RestConsistent == ThreadsSpec => []EnginesAtRest
<1>1. AtomicEngine!Spec => []AtomicEngine!CountersTrackProof
  BY AtomicEngine!CountersCorrect, NullAssumption, CounterAssumption, FormatAssumption
<1>2. ThreadsInv /\ AtomicEngine!CountersTrackProof => EnginesAtRest
  <2> SUFFICES ASSUME ThreadsInv, AtomicEngine!CountersTrackProof, NEW h \in owned, Changing(h) = {}
               PROVE  engine[h].initialized /\ CountersAgree(engine[h])
    BY DEF EnginesAtRest
  <2>1. h \in Addr /\ h # NULL /\ engine[h] \in EngineState /\ becomes[h] \in EngineState
    BY NullAssumption DEF ThreadsInv, MemoryInv, HeapTyped
  <2>2. \A t \in Threads : call[t].on = h => Op(t) \in Queries
    BY <2>1 DEF Changing, OnIt
  <2>3. \A t \in Threads : call[t].on = h => call[t].todo = {}
    BY <2>2 DEF ThreadsInv, CallsInv, CallOK
  <2>4. (\A t \in Threads : ~FreedBy(t, h)) /\ (\A f \in Fields : ~Storing(h, f))
    BY <2>2, <2>3 DEF FreedBy, Storing, Queries
  <2>5. becomes[h].initialized /\ \A f \in Fields : engine[h][f] = becomes[h][f]
    BY <2>1, <2>4 DEF ThreadsInv, MemoryInv, BlockOK
  <2>6. engine[h] = becomes[h]
    BY <2>1, <2>5, SameFields
  <2>7. CountersAgree(becomes[h])
    BY <2>1, <2>5 DEF AtomicEngine!CountersTrackProof, AtomicEngine!Live, AtomicEngine!CountersAgree,
       AtomicEngine!remaining, CountersAgree, remaining
  <2> QED  BY <2>5, <2>6, <2>7
<1> QED  BY <1>1, <1>2, ThreadsInvariant, ThreadsRunTheEngine, PTL

(* A thread that has left its call finds in last_error how that call ended,    *)
(* whatever the calls of other threads were doing meanwhile (main.zig:17-29):  *)
(* what ErrorReflectsLastCall says of atomic calls holds of calls taken apart. *)
ErrorsAtRest ==
    \A t \in Threads : ~InCall(t) /\ reply[t].op \in Reporting =>
        (lastError[t] # NoError <=> ~reply[t].done)

(* In every state of every interleaving of loads and stores, the error that a  *)
(* thread at rest would read is that of its own last reporting call.           *)
THEOREM ErrorsConsistent == ThreadsSpec => []ErrorsAtRest
<1>1. AtomicEngine!Spec => []AtomicEngine!ErrorReflectsLastCall
  BY AtomicEngine!ErrorCorrect, NullAssumption, CounterAssumption, FormatAssumption
<1>2. AtomicEngine!ErrorReflectsLastCall => ErrorsAtRest
  BY DEF AtomicEngine!ErrorReflectsLastCall, AtomicEngine!Reporting, AtomicEngine!NoError,
     ErrorsAtRest, Reporting, NoError, Happened
<1> QED  BY <1>1, <1>2, ThreadsRunTheEngine, PTL

================================================================================
