---------------------------- MODULE Reconfigure ----------------------------
(***************************************************************************)
(* Configure and the wiring of the plugin: the callback of main.go (60-104)*)
(* that opens a database pool, publishes a store, a registry and a handler *)
(* through pointers, restarts the poll loop and closes the pool it         *)
(* replaces, while events, HTTP requests and ticks of the loop use what is *)
(* published.                                                              *)
(*                                                                         *)
(* Nothing in Configure keeps two calls of the host apart; how many of     *)
(* them the host makes at a time is the constant AtATime.  A pool, store,  *)
(* registry, handler and loop are named by the call that made them.        *)
(*                                                                         *)
(* An arrival is an event that matches one rule with one target, or a      *)
(* request to /send that is to be queued, for a target that is enabled.    *)
(* The database never fails: what is lost is lost by the wiring.           *)
(***************************************************************************)
EXTENDS Integers, FiniteSets

CONSTANTS
    Calls,     \* the calls of Configure
    Events,    \* arrivals: events and requests
    AtATime,   \* so many calls may run at once
    None

ASSUME AtATimeAssumption == AtATime \in Nat \ {0}
ASSUME NoneAssumption == None \notin Calls

VARIABLES
    pc,           \* where a call of Configure is
    old,          \* the pool it found in poolPtr
    pool,         \* "none", "open" or "closed"
    storePtr, registryPtr, poolPtr,
    handler,      \* the handler of the HTTP routes
    manager,      \* the loop whose cancel function Manager.cancel is
    live,         \* the loops whose context is not cancelled
    loop,         \* where a loop is
    loopStore,    \* the store its tick has read
    lastTick,     \* the store of the last tick that ran, and whether it could
    last,         \* the last call that returned without an error
    overlapped,   \* whether two calls ever ran at once
    via,          \* how an arrival comes in: "event" or "http"
    eventPc,      \* where its handler is
    eventStore,   \* the store it has read
    queued,       \* arrivals that have their row
    disturbed     \* arrivals handled before or during a call of Configure

configure == <<pc, old, pool, poolPtr, last, overlapped>>
wiring == <<storePtr, registryPtr, handler, manager>>
loops  == <<live, loop, loopStore, lastTick>>
arrivals == <<via, eventPc, eventStore, queued>>
events == <<arrivals, disturbed>>
vars   == <<configure, wiring, loops, events>>

CallOrNone == Calls \cup {None}

TypeOK ==
    /\ pc \in [Calls -> {"idle", "pool", "migrate", "store", "registry",
                         "handler", "cancel", "start", "swap", "close",
                         "done", "failed"}]
    /\ old \in [Calls -> CallOrNone]
    /\ pool \in [Calls -> {"none", "open", "closed"}]
    /\ {storePtr, registryPtr, poolPtr, handler, manager, last} \subseteq CallOrNone
    /\ live \subseteq Calls
    /\ loop \in [Calls -> {"none", "wait", "tick", "over"}]
    /\ loopStore \in [Calls -> CallOrNone]
    /\ lastTick \in [store : CallOrNone, ok : BOOLEAN]
    /\ overlapped \in BOOLEAN
    /\ via \in [Events -> {"event", "http"}]
    /\ eventPc \in [Events -> {"new", "rules", "target", "insert", "acked",
                               "failed"}]
    /\ eventStore \in [Events -> CallOrNone]
    /\ queued \subseteq Events
    /\ disturbed \subseteq Events

Init ==
    /\ pc = [c \in Calls |-> "idle"]
    /\ old = [c \in Calls |-> None]
    /\ pool = [c \in Calls |-> "none"]
    /\ storePtr = None /\ registryPtr = None /\ poolPtr = None
    /\ handler = None /\ manager = None /\ last = None
    /\ live = {}
    /\ loop = [c \in Calls |-> "none"]
    /\ loopStore = [c \in Calls |-> None]
    /\ lastTick = [store |-> None, ok |-> FALSE]
    /\ overlapped = FALSE
    /\ via \in [Events -> {"event", "http"}]
    /\ eventPc = [e \in Events |-> "new"]
    /\ eventStore = [e \in Events |-> None]
    /\ queued = {}
    /\ disturbed = Events   \* until the first call returns

Goto(c, label) == pc' = [pc EXCEPT ![c] = label]

Running == {c \in Calls : pc[c] \notin {"idle", "done", "failed"}}

\* Can a query on the pool of a call succeed?
Open(c) == pool[c] = "open"

-----------------------------------------------------------------------------
(* A call of Configure.                                                    *)

InHand(e) == eventPc[e] \in {"rules", "target", "insert"}

Configure(c) ==
    /\ pc[c] = "idle"
    /\ Cardinality(Running) < AtATime
    /\ Goto(c, "pool")
    /\ overlapped' = (overlapped \/ Running # {})
    /\ disturbed' = disturbed \cup {e \in Events : eventPc[e] \notin {"acked", "failed"}}
    /\ UNCHANGED <<old, pool, poolPtr, last, wiring, loops, arrivals>>

\* The call returns.  An event that comes from now on is not disturbed by it.
Return(c, label) ==
    /\ Goto(c, label)
    /\ last' = IF label = "done" THEN c ELSE last
    /\ disturbed' = IF Running = {c} /\ last' # None
                    THEN {e \in disturbed : eventPc[e] # "new"} ELSE disturbed

\* No database_url, or one that does not parse.
Refuse(c) ==
    /\ pc[c] = "pool"
    /\ Return(c, "failed")
    /\ UNCHANGED <<old, pool, poolPtr, wiring, loops, arrivals, overlapped>>

OpenPool(c) ==
    /\ pc[c] = "pool"
    /\ pool' = [pool EXCEPT ![c] = "open"]
    /\ Goto(c, "migrate")
    /\ UNCHANGED <<old, poolPtr, last, overlapped, wiring, loops, events>>

Migrate(c) ==
    /\ pc[c] = "migrate"
    /\ Goto(c, "store")
    /\ UNCHANGED <<old, pool, poolPtr, last, overlapped, wiring, loops, events>>

\* Mutation: the pool is left open.
MigrateFailsLeaks(c) ==
    /\ pc[c] = "migrate"
    /\ Return(c, "failed")
    /\ UNCHANGED <<old, pool, poolPtr, wiring, loops, arrivals, overlapped>>

MigrateFails(c) ==
    /\ pc[c] = "migrate"
    /\ pool' = [pool EXCEPT ![c] = "closed"]
    /\ Return(c, "failed")
    /\ UNCHANGED <<old, poolPtr, wiring, loops, arrivals, overlapped>>

StoreStore(c) ==
    /\ pc[c] = "store"
    /\ storePtr' = c
    /\ Goto(c, "registry")
    /\ UNCHANGED <<old, pool, poolPtr, last, overlapped, registryPtr, handler, manager, loops,
                   events>>

StoreRegistry(c) ==
    /\ pc[c] = "registry"
    /\ registryPtr' = c
    /\ Goto(c, "handler")
    /\ UNCHANGED <<old, pool, poolPtr, last, overlapped, storePtr, handler, manager, loops,
                   events>>

SetHandler(c) ==
    /\ pc[c] = "handler"
    /\ handler' = c
    /\ Goto(c, "cancel")
    /\ UNCHANGED <<old, pool, poolPtr, last, overlapped, storePtr, registryPtr, manager,
                   loops, events>>

\* Mutation: the cancel function is called without a look at whether it is nil.
CancelLoopUnchecked(c) ==
    /\ pc[c] = "cancel"
    /\ live' = live \ {manager}
    /\ Goto(c, IF manager = None THEN "panicked" ELSE "start")
    /\ UNCHANGED <<old, pool, poolPtr, last, overlapped, wiring, loop, loopStore, lastTick,
                   events>>

\* Mutation: the loop gets the context of the call, which is done soon.
StartLoopInCall(c) ==
    /\ pc[c] = "start"
    /\ manager' = c
    /\ loop' = [loop EXCEPT ![c] = "wait"]
    /\ Goto(c, "swap")
    /\ UNCHANGED <<old, pool, poolPtr, last, overlapped, storePtr, registryPtr, handler, live,
                   loopStore, lastTick, events>>

\* Mutation: what is closed is what poolPtr holds after the swap.
CloseOldAfterSwap(c) ==
    /\ pc[c] = "close"
    /\ pool' = [pool EXCEPT ![poolPtr] = "closed"]
    /\ Return(c, "done")
    /\ UNCHANGED <<old, poolPtr, wiring, loops, arrivals, overlapped>>

\* Manager.Start cancels the loop it knows of, and then notes the new one.
CancelLoop(c) ==
    /\ pc[c] = "cancel"
    /\ live' = live \ {manager}
    /\ Goto(c, "start")
    /\ UNCHANGED <<old, pool, poolPtr, last, overlapped, wiring, loop, loopStore, lastTick,
                   events>>

StartLoop(c) ==
    /\ pc[c] = "start"
    /\ manager' = c
    /\ live' = live \cup {c}
    /\ loop' = [loop EXCEPT ![c] = "wait"]
    /\ Goto(c, "swap")
    /\ UNCHANGED <<old, pool, poolPtr, last, overlapped, storePtr, registryPtr, handler,
                   loopStore, lastTick, events>>

SwapPool(c) ==
    /\ pc[c] = "swap"
    /\ old' = [old EXCEPT ![c] = poolPtr]
    /\ poolPtr' = c
    /\ Goto(c, "close")
    /\ UNCHANGED <<pool, last, overlapped, wiring, loops, events>>

CloseOld(c) ==
    /\ pc[c] = "close"
    /\ pool' = [p \in Calls |-> IF p = old[c] THEN "closed" ELSE pool[p]]
    /\ Return(c, "done")
    /\ UNCHANGED <<old, poolPtr, wiring, loops, arrivals, overlapped>>

-----------------------------------------------------------------------------
(* The loop a call started.                                                *)

\* Poller.deps; without a store and a registry the tick does nothing.
LoadDeps(c) ==
    /\ loop[c] = "wait"
    /\ storePtr # None /\ registryPtr # None
    /\ loop' = [loop EXCEPT ![c] = "tick"]
    /\ loopStore' = [loopStore EXCEPT ![c] = storePtr]
    /\ UNCHANGED <<configure, wiring, live, lastTick, events>>

\* The queries of the tick, which a cancelled context makes fail.
Tick(c) ==
    /\ loop[c] = "tick"
    /\ lastTick' = [store |-> loopStore[c],
                    ok |-> c \in live /\ Open(loopStore[c])]
    /\ loop' = [loop EXCEPT ![c] = "wait"]
    /\ UNCHANGED <<configure, wiring, live, loopStore, events>>

\* The loop sees that its context is done.
EndLoop(c) ==
    /\ loop[c] = "wait"
    /\ c \notin live
    /\ loop' = [loop EXCEPT ![c] = "over"]
    /\ UNCHANGED <<configure, wiring, live, loopStore, lastTick, events>>

-----------------------------------------------------------------------------
(* An arrival: HandleEvent, or handleSend behind httproutes.Server.Handle; *)
(* one step for each database call.                                        *)

EventGoto(e, label) == eventPc' = [eventPc EXCEPT ![e] = label]

Arrive(e, store, first) ==
    /\ eventPc[e] = "new"
    /\ EventGoto(e, first)
    /\ eventStore' = [eventStore EXCEPT ![e] = store]
    /\ disturbed' = IF Running = {} THEN disturbed ELSE disturbed \cup {e}
    /\ UNCHANGED <<configure, wiring, loops, via, queued>>

\* Consumer.deps; without a store the event is acknowledged.
TakeEvent(e) ==
    /\ via[e] = "event"
    /\ Arrive(e, storePtr, IF storePtr = None THEN "acked" ELSE "rules")

\* A handler answers with the store it was made with; without one there is 503.
TakeRequest(e) ==
    /\ via[e] = "http"
    /\ Arrive(e, handler, IF handler = None THEN "failed" ELSE "target")

ListRules(e) ==
    /\ eventPc[e] = "rules"
    /\ EventGoto(e, IF Open(eventStore[e]) THEN "target" ELSE "failed")
    /\ UNCHANGED <<configure, wiring, loops, via, eventStore, queued, disturbed>>

\* Mutation: a send whose target is missing counts as sent, as with an event.
GetTargetOrSkip(e) ==
    /\ eventPc[e] = "target"
    /\ EventGoto(e, IF Open(eventStore[e]) THEN "insert" ELSE "acked")
    /\ UNCHANGED <<configure, wiring, loops, via, eventStore, queued, disturbed>>

\* GetTarget: to HandleEvent an error is a target that is missing, which it
\* skips; a request is answered with the error.
GetTarget(e) ==
    /\ eventPc[e] = "target"
    /\ EventGoto(e, IF Open(eventStore[e]) THEN "insert"
                    ELSE IF via[e] = "event" THEN "acked" ELSE "failed")
    /\ UNCHANGED <<configure, wiring, loops, via, eventStore, queued, disturbed>>

Enqueue(e) ==
    /\ eventPc[e] = "insert"
    /\ IF Open(eventStore[e])
       THEN EventGoto(e, "acked") /\ queued' = queued \cup {e}
       ELSE EventGoto(e, "failed") /\ UNCHANGED queued
    /\ UNCHANGED <<configure, wiring, loops, via, eventStore, disturbed>>

-----------------------------------------------------------------------------
OnConfig(c) ==
    \/ Refuse(c)       \/ OpenPool(c)      \/ Migrate(c)    \/ MigrateFails(c)
    \/ StoreStore(c)   \/ StoreRegistry(c) \/ SetHandler(c)
    \/ CancelLoop(c)   \/ StartLoop(c)     \/ SwapPool(c)   \/ CloseOld(c)

RunLoop(c) == LoadDeps(c) \/ Tick(c) \/ EndLoop(c)

HandleEvent(e) ==
    \/ TakeEvent(e) \/ TakeRequest(e)
    \/ ListRules(e) \/ GetTarget(e)   \/ Enqueue(e)

Next ==
    \/ \E c \in Calls : Configure(c) \/ OnConfig(c) \/ RunLoop(c)
    \/ \E e \in Events : HandleEvent(e)

Spec == Init /\ [][Next]_vars

\* A call of Configure returns, and the loops run; a loop that is cancelled
\* finds out, although a tick that is due may win the select once more.
Fairness ==
    \A c \in Calls : /\ WF_vars(OnConfig(c))
                     /\ WF_vars(RunLoop(c))
                     /\ SF_vars(EndLoop(c))

FairSpec == Spec /\ Fairness

-----------------------------------------------------------------------------
(* Properties.                                                             *)

\* What is published can be used, at every moment of a reconfiguration: no
\* pointer leads to a pool that is closed.  When two calls overlap this still
\* holds of poolPtr, but no more of the store and the handler, which the slower
\* call may have published from the pool that the faster one closes
\* (main.go:82-102, runtime.go:50).
PublishedPoolIsOpen ==
    \A c \in {storePtr, handler, poolPtr} :
        c # None /\ (c = poolPtr \/ ~overlapped) => Open(c)

\* Between calls the pool of poolPtr is the only one that is open, even if calls
\* have overlapped; and if none has, everything belongs to the last call that
\* succeeded, whatever failed since, and no loop of another is left.
OneConfigurationAtRest ==
    Running = {} =>
        /\ {c \in Calls : Open(c)} = {poolPtr} \ {None}
        /\ ~overlapped =>
              /\ {storePtr, registryPtr, handler, poolPtr, manager} = {last}
              /\ live = {last} \ {None}

\* A request is never answered with success without its row, and an event is
\* acknowledged without its row only if it came before the plugin was configured
\* or its handling met a call of Configure (consumer.go:35-37,61-64,
\* server.go:170-235).
OnlyReconfigurationLosesEvents ==
    \A e \in Events :
        eventPc[e] = "acked" =>
            e \in queued \/ (via[e] = "event" /\ e \in disturbed)

\* The loop gets to poll the database of the last configuration, and stays, if
\* no two calls have overlapped.
PollingResumes ==
    <>[](last # None /\ ~overlapped => lastTick = [store |-> last, ok |-> TRUE])
=============================================================================
