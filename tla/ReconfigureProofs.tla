------------------------- MODULE ReconfigureProofs -------------------------
(***************************************************************************)
(* Proofs about Reconfigure, for any number of calls of Configure, one at  *)
(* a time or overlapping, and any number of events and requests.           *)
(***************************************************************************)
EXTENDS Reconfigure, TLAPS

Labels == {"idle", "pool", "migrate", "store", "registry", "handler", "cancel",
           "start", "swap", "close", "done", "failed"}

\* Between opening its pool and publishing it in poolPtr.
Preparing == {"migrate", "store", "registry", "handler", "cancel", "start",
              "swap"}

\* From the publication of its store on.
Publishing == {"registry", "handler", "cancel", "start", "swap", "close"}

\* Who answers for a pool: the call that opened it until it publishes it,
\* poolPtr while it is published, and then the one call that is to close it.
PoolInv ==
    /\ poolPtr # None => pc[poolPtr] \in {"close", "done"} /\ Open(poolPtr)
    /\ \A c \in Calls : pc[c] \in Preparing => Open(c)
    /\ \A c \in Calls : pc[c] = "close" /\ old[c] # None =>
          /\ pc[old[c]] \in {"close", "done"}
          /\ old[c] # poolPtr
          /\ \A d \in Calls : pc[d] = "close" /\ old[d] = old[c] => d = c
    /\ \A p \in Calls : Open(p) =>
          \/ pc[p] \in Preparing
          \/ p = poolPtr
          \/ \E c \in Calls : pc[c] = "close" /\ old[c] = p

\* As long as no calls overlapped, all is published by the last call that
\* returned or by the one that runs, and which of the two is a matter of how far
\* that is.
SerialInv ==
    ~overlapped =>
        /\ \A c, d \in Running : c = d
        /\ Running = {} =>
              /\ {storePtr, registryPtr, handler, poolPtr, manager} = {last}
              /\ live = {last} \ {None}
        /\ \A c \in Running :
              LET At(labels, published) ==
                      published = IF pc[c] \in labels THEN last ELSE c
              IN  /\ At({"pool", "migrate", "store"}, storePtr)
                  /\ At({"pool", "migrate", "store", "registry"}, registryPtr)
                  /\ At({"pool", "migrate", "store", "registry", "handler"}, handler)
                  /\ At(Labels \ {"swap", "close"}, manager)
                  /\ At(Labels \ {"close"}, poolPtr)
                  /\ pc[c] = "close" => old[c] = last
                  /\ live = IF pc[c] = "start" THEN {}
                            ELSE IF pc[c] \in {"swap", "close"} THEN {c}
                            ELSE {last} \ {None}

-----------------------------------------------------------------------------
(* Types.                                                                  *)

\* At the start nothing is configured.
LEMMA TypedInit == Init => TypeOK
  <1> SUFFICES ASSUME Init PROVE TypeOK
    OBVIOUS
  <1>1. lastTick \in [store : CallOrNone, ok : BOOLEAN]
    BY DEF Init, CallOrNone
  <1>2. via \in [Events -> {"event", "http"}]
    BY DEF Init
  <1> QED
    BY <1>1, <1>2 DEF Init, TypeOK, CallOrNone

\* The steps of a call.
LEMMA ConfigureTyped ==
    ASSUME TypeOK, NEW c \in Calls, Configure(c) \/ OnConfig(c)
    PROVE  TypeOK'
  <1> USE DEF TypeOK, CallOrNone, Goto, Return, wiring, loops, events, arrivals
  <1>1. CASE Configure(c)
    BY <1>1 DEF Configure
  <1>2. CASE Refuse(c)
    BY <1>2 DEF Refuse
  <1>3. CASE OpenPool(c)
    BY <1>3 DEF OpenPool
  <1>4. CASE Migrate(c)
    BY <1>4 DEF Migrate
  <1>5. CASE MigrateFails(c)
    BY <1>5 DEF MigrateFails
  <1>6. CASE StoreStore(c)
    BY <1>6 DEF StoreStore
  <1>7. CASE StoreRegistry(c)
    BY <1>7 DEF StoreRegistry
  <1>8. CASE SetHandler(c)
    BY <1>8 DEF SetHandler
  <1>9. CASE CancelLoop(c)
    BY <1>9 DEF CancelLoop
  <1>10. CASE StartLoop(c)
    BY <1>10 DEF StartLoop
  <1>11. CASE SwapPool(c)
    BY <1>11 DEF SwapPool
  <1>12. CASE CloseOld(c)
    BY <1>12 DEF CloseOld
  <1> QED
    BY <1>1, <1>2, <1>3, <1>4, <1>5, <1>6, <1>7, <1>8, <1>9, <1>10, <1>11,
       <1>12 DEF OnConfig

\* The steps of a loop and of an arrival.
LEMMA LoopTyped ==
    ASSUME TypeOK, NEW c \in Calls, RunLoop(c)
    PROVE  TypeOK'
  <1> USE DEF TypeOK, CallOrNone, configure, wiring, events, arrivals
  <1>1. CASE LoadDeps(c)
    BY <1>1 DEF LoadDeps
  <1>2. CASE Tick(c)
    BY <1>2 DEF Tick
  <1>3. CASE EndLoop(c)
    BY <1>3 DEF EndLoop
  <1> QED
    BY <1>1, <1>2, <1>3 DEF RunLoop

LEMMA EventTyped ==
    ASSUME TypeOK, NEW e \in Events, HandleEvent(e)
    PROVE  TypeOK'
  <1> USE DEF TypeOK, CallOrNone, configure, wiring, loops, EventGoto
  <1>1. CASE TakeEvent(e)
    BY <1>1 DEF TakeEvent, Arrive
  <1>2. CASE TakeRequest(e)
    BY <1>2 DEF TakeRequest, Arrive
  <1>3. CASE ListRules(e)
    BY <1>3 DEF ListRules
  <1>4. CASE GetTarget(e)
    BY <1>4 DEF GetTarget
  <1>5. CASE Enqueue(e)
    BY <1>5 DEF Enqueue
  <1> QED
    BY <1>1, <1>2, <1>3, <1>4, <1>5 DEF HandleEvent

\* Every step keeps the types.
LEMMA TypedStep == TypeOK /\ [Next]_vars => TypeOK'
  <1>1. TypeOK /\ UNCHANGED vars => TypeOK'
    BY DEF TypeOK, CallOrNone, vars, configure, wiring, loops, events, arrivals
  <1> QED
    BY <1>1, ConfigureTyped, LoopTyped, EventTyped DEF Next

\* The wiring is well typed, however many calls there are and whatever fails.
THEOREM WiringIsTyped == Spec => []TypeOK
  <1> QED
    BY TypedInit, TypedStep, PTL DEF Spec

-----------------------------------------------------------------------------
(* Pools.                                                                  *)

LEMMA PoolInit == Init => PoolInv
  BY DEF Init, PoolInv, Open, Preparing

\* Every step keeps a pool open as long as somebody answers for it.
LEMMA PoolStep == TypeOK /\ PoolInv /\ [Next]_vars => PoolInv'
  <1> SUFFICES ASSUME TypeOK, PoolInv, [Next]_vars PROVE PoolInv'
    OBVIOUS
  <1> USE NoneAssumption
  <1>1. ASSUME UNCHANGED <<pc, old, pool, poolPtr>> PROVE PoolInv'
    BY <1>1 DEF PoolInv, Open
  <1>2. ASSUME NEW c \in Calls, UNCHANGED <<old, pool, poolPtr>>,
               pc[c] \in Labels \ {"close", "done"},
               NEW label \in Labels \ {"close"}, Goto(c, label),
               pc[c] \in Preparing <=> label \in Preparing
        PROVE  PoolInv'
    BY <1>2 DEF TypeOK, PoolInv, Open, Goto, CallOrNone
  <1>3. ASSUME NEW c \in Calls, Configure(c) PROVE PoolInv'
    BY <1>2, <1>3 DEF Configure, Preparing, Labels
  <1>4. ASSUME NEW c \in Calls, Refuse(c) PROVE PoolInv'
    BY <1>2, <1>4 DEF Refuse, Return, Preparing, Labels
  <1>5. ASSUME NEW c \in Calls, OpenPool(c) PROVE PoolInv'
    BY <1>5 DEF OpenPool, TypeOK, PoolInv, Open, Goto, CallOrNone, Preparing
  <1>6. ASSUME NEW c \in Calls, MigrateFails(c) PROVE PoolInv'
    BY <1>6 DEF MigrateFails, Return, TypeOK, PoolInv, Open, Goto, CallOrNone,
                Preparing
  <1>7. ASSUME NEW c \in Calls,
               \/ Migrate(c) \/ StoreStore(c) \/ StoreRegistry(c)
               \/ SetHandler(c) \/ CancelLoop(c) \/ StartLoop(c)
        PROVE  PoolInv'
    BY <1>2, <1>7 DEF Migrate, StoreStore, StoreRegistry, SetHandler, CancelLoop,
                      StartLoop, Preparing, Labels
  <1>8. ASSUME NEW c \in Calls, SwapPool(c) PROVE PoolInv'
    BY <1>8 DEF SwapPool, TypeOK, PoolInv, Open, Goto, CallOrNone, Preparing
  <1>9. ASSUME NEW c \in Calls, CloseOld(c) PROVE PoolInv'
    BY <1>9 DEF CloseOld, Return, TypeOK, PoolInv, Open, Goto, CallOrNone,
                Preparing
  <1>10. ASSUME NEW c \in Calls, RunLoop(c) PROVE PoolInv'
    BY <1>1, <1>10 DEF RunLoop, LoadDeps, Tick, EndLoop, configure
  <1>11. ASSUME NEW e \in Events, HandleEvent(e) PROVE PoolInv'
    BY <1>1, <1>11 DEF HandleEvent, TakeEvent, TakeRequest, Arrive, ListRules,
                       GetTarget, Enqueue, configure
  <1> QED
    BY <1>1, <1>3, <1>4, <1>5, <1>6, <1>7, <1>8, <1>9, <1>10, <1>11
       DEF Next, OnConfig, vars, configure

-----------------------------------------------------------------------------
(* Calls one at a time.                                                    *)

LEMMA SerialInit == Init => SerialInv
  BY DEF Init, SerialInv, Running

\* What a step of a call leaves of those that run.
LEMMA RunningAlone ==
    ASSUME TypeOK, SerialInv, ~overlapped, NEW c \in Calls, OnConfig(c)
    PROVE  /\ Running = {c}
           /\ \A d \in Calls : d # c => pc'[d] \in {"idle", "done", "failed"}
           /\ UNCHANGED overlapped
           /\ pc[c] \in Labels \ {"idle", "done", "failed"}
  <1>1. c \in Running /\ pc[c] \in Labels \ {"idle", "done", "failed"}
    BY DEF OnConfig, Refuse, OpenPool, Migrate, MigrateFails, StoreStore,
           StoreRegistry, SetHandler, CancelLoop, StartLoop, SwapPool, CloseOld,
           Running, Labels
  <1>2. Running = {c}
    BY <1>1 DEF SerialInv
  <1>3. \A d \in Calls : d # c => pc[d] \in {"idle", "done", "failed"}
    BY <1>2 DEF Running
  <1>4. \E label \in Labels : Goto(c, label)
    BY DEF OnConfig, Refuse, OpenPool, Migrate, MigrateFails, StoreStore,
           StoreRegistry, SetHandler, CancelLoop, StartLoop, SwapPool, CloseOld,
           Return, Labels
  <1>5. \A d \in Calls : d # c => pc'[d] = pc[d]
    BY <1>4 DEF TypeOK, Goto
  <1>6. UNCHANGED overlapped
    BY DEF OnConfig, Refuse, OpenPool, Migrate, MigrateFails, StoreStore,
           StoreRegistry, SetHandler, CancelLoop, StartLoop, SwapPool, CloseOld
  <1> QED
    BY <1>1, <1>2, <1>3, <1>5, <1>6

\* Every step keeps a serial history in order.
LEMMA SerialStep == TypeOK /\ SerialInv /\ [Next]_vars => SerialInv'
  <1> SUFFICES ASSUME TypeOK, SerialInv, [Next]_vars, ~overlapped' PROVE SerialInv'
    BY DEF SerialInv
  <1> USE NoneAssumption
  <1>1. ASSUME UNCHANGED <<configure, wiring, live>> PROVE SerialInv'
    BY <1>1 DEF SerialInv, Running, configure, wiring
  <1>2. ASSUME NEW c \in Calls, Configure(c) PROVE SerialInv'
    <2>1. Running = {} /\ ~overlapped
      BY <1>2 DEF Configure
    <2>2. Running' = {c} /\ pc'[c] = "pool"
      BY <1>2, <2>1 DEF Configure, Goto, Running, TypeOK
    <2>3. UNCHANGED <<wiring, live, last, poolPtr>>
      BY <1>2 DEF Configure, loops
    <2> QED
      BY <2>1, <2>2, <2>3 DEF SerialInv, Labels, wiring
  <1>3. ASSUME NEW c \in Calls, OnConfig(c) PROVE SerialInv'
    <2>0. ~overlapped
      BY <1>3 DEF OnConfig, Refuse, OpenPool, Migrate, MigrateFails, StoreStore,
                  StoreRegistry, SetHandler, CancelLoop, StartLoop, SwapPool,
                  CloseOld
    <2>1. /\ Running = {c}
          /\ \A d \in Calls : d # c => pc'[d] \in {"idle", "done", "failed"}
          /\ pc[c] \in Labels \ {"idle", "done", "failed"}
      BY <1>3, <2>0, RunningAlone
    <2>2. pc'[c] \in {"idle", "done", "failed"} => Running' = {}
      BY <2>1 DEF Running
    <2>3. pc'[c] \notin {"idle", "done", "failed"} => Running' = {c}
      BY <2>1 DEF Running
    <2> USE <2>0, <2>1, <2>2, <2>3 DEF SerialInv, Labels, TypeOK, Goto
    <2>4. CASE Refuse(c)
      BY <2>4 DEF Refuse, Return, wiring, loops
    <2>5. CASE OpenPool(c)
      BY <2>5 DEF OpenPool, wiring, loops
    <2>6. CASE Migrate(c)
      BY <2>6 DEF Migrate, wiring, loops
    <2>7. CASE MigrateFails(c)
      BY <2>7 DEF MigrateFails, Return, wiring, loops
    <2>8. CASE StoreStore(c)
      BY <2>8 DEF StoreStore, loops
    <2>9. CASE StoreRegistry(c)
      BY <2>9 DEF StoreRegistry, loops
    <2>10. CASE SetHandler(c)
      BY <2>10 DEF SetHandler, loops
    <2>11. CASE CancelLoop(c)
      BY <2>11 DEF CancelLoop, wiring
    <2>12. CASE StartLoop(c)
      BY <2>12 DEF StartLoop
    <2>13. CASE SwapPool(c)
      BY <2>13 DEF SwapPool, wiring, loops
    <2>14. CASE CloseOld(c)
      BY <2>14 DEF CloseOld, Return, wiring, loops
    <2> QED
      BY <1>3, <2>4, <2>5, <2>6, <2>7, <2>8, <2>9, <2>10, <2>11, <2>12, <2>13,
         <2>14 DEF OnConfig
  <1>4. ASSUME NEW c \in Calls, RunLoop(c) PROVE SerialInv'
    BY <1>1, <1>4 DEF RunLoop, LoadDeps, Tick, EndLoop
  <1>5. ASSUME NEW e \in Events, HandleEvent(e) PROVE SerialInv'
    BY <1>1, <1>5 DEF HandleEvent, TakeEvent, TakeRequest, Arrive, ListRules,
                      GetTarget, Enqueue, loops
  <1> QED
    BY <1>1, <1>2, <1>3, <1>4, <1>5 DEF Next, vars, loops

-----------------------------------------------------------------------------
(* What follows.                                                           *)

\* The inductive invariant of the wiring.
WiringInv == TypeOK /\ PoolInv /\ SerialInv

LEMMA WiringInvariant == Spec => []WiringInv
  <1>1. Init => WiringInv
    BY TypedInit, PoolInit, SerialInit DEF WiringInv
  <1>2. WiringInv /\ [Next]_vars => WiringInv'
    BY TypedStep, PoolStep, SerialStep DEF WiringInv
  <1> QED
    BY <1>1, <1>2, PTL DEF Spec

\* However many calls of Configure there are, poolPtr never leads to a closed
\* pool, and neither do the store and the handler if no two of them overlap.
THEOREM PublishedIsOpen == Spec => []PublishedPoolIsOpen
  <1>1. WiringInv => PublishedPoolIsOpen
    <2> SUFFICES ASSUME WiringInv, NEW c \in {storePtr, handler, poolPtr},
                        c # None, c # poolPtr, ~overlapped
                 PROVE  Open(c)
      BY DEF PublishedPoolIsOpen, WiringInv, PoolInv
    <2>1. Running # {}
      BY DEF WiringInv, SerialInv
    <2>2. PICK d \in Running : pc[d] \in Labels \ {"idle", "done", "failed"}
      BY <2>1 DEF WiringInv, TypeOK, Running, Labels
    <2>3. CASE c = d
      <3>1. pc[d] \in Preparing
        BY <2>2, <2>3 DEF WiringInv, TypeOK, SerialInv, Labels, Preparing,
                          CallOrNone, Running
      <3> QED
        BY <2>2, <2>3, <3>1 DEF WiringInv, PoolInv, Running
    <2>4. CASE c # d
      <3>1. c = last
        BY <2>2, <2>4 DEF WiringInv, SerialInv
      <3>2. pc[d] = "close"
        BY <2>2, <2>4, <3>1 DEF WiringInv, SerialInv, Labels
      <3> QED
        BY <2>2, <2>4, <3>2 DEF WiringInv, SerialInv
    <2> QED
      BY <2>3, <2>4
  <1> QED
    BY <1>1, WiringInvariant, PTL

\* Once no call runs there is one open pool, the one of poolPtr, whatever
\* overlapped and failed before; and everything belongs to the last call that
\* succeeded if nothing overlapped.
THEOREM AtRestThereIsOne == Spec => []OneConfigurationAtRest
  <1>1. WiringInv => OneConfigurationAtRest
    <2> SUFFICES ASSUME WiringInv, Running = {} PROVE OneConfigurationAtRest
      BY DEF OneConfigurationAtRest
    <2>1. \A c \in Calls : pc[c] \in {"idle", "done", "failed"}
      BY DEF Running
    <2>2. {c \in Calls : Open(c)} = {poolPtr} \ {None}
      BY <2>1, NoneAssumption DEF WiringInv, PoolInv, TypeOK, CallOrNone, Preparing
    <2> QED
      BY <2>2 DEF WiringInv, SerialInv, OneConfigurationAtRest
  <1> QED
    BY <1>1, WiringInvariant, PTL

-----------------------------------------------------------------------------
(* Events and requests.                                                    *)

\* What is in hand while a call runs is disturbed, and so is what comes before
\* there is a store; the store of what is not disturbed stays open.
ArrivalsInv ==
    /\ last # None \/ (\E c \in Calls : pc[c] \in Publishing) =>
          storePtr # None
    /\ \A e \in Events : eventPc[e] = "new" /\ storePtr = None => e \in disturbed
    /\ \A e \in Events : InHand(e) => eventStore[e] # None
    /\ \A e \in Events : InHand(e) /\ Running # {} => e \in disturbed
    /\ \A e \in Events : eventPc[e] \in {"target", "insert"} /\ via[e] = "event" =>
          e \in disturbed \/ Open(eventStore[e])
    /\ OnlyReconfigurationLosesEvents

LEMMA ArrivalsInit == Init => ArrivalsInv
  BY DEF Init, ArrivalsInv, InHand, OnlyReconfigurationLosesEvents, Publishing

\* A step of a call or of a loop.
LEMMA ArrivalsConfigure ==
    ASSUME TypeOK, ArrivalsInv, NEW c \in Calls, Configure(c) \/ OnConfig(c)
    PROVE  ArrivalsInv'
  <1> USE NoneAssumption
          DEF TypeOK, CallOrNone, ArrivalsInv, OnlyReconfigurationLosesEvents,
              InHand, Open, Goto, arrivals, events, Preparing, Publishing
  <1>1. CASE Configure(c)
    <2>1. pc' = [pc EXCEPT ![c] = "pool"]
      BY <1>1 DEF Configure
    <2> QED
      BY <1>1, <2>1 DEF Configure, wiring
  <1>2. ASSUME UNCHANGED <<arrivals, disturbed, last>>,
               storePtr' \in {storePtr, c},
               \A p \in Calls : Open(p) => Open(p)',
               pc[c] \in {"pool", "migrate", "store", "registry", "handler",
                          "cancel", "start", "swap"},
               \E label \in Preparing \cup {"close"} :
                  /\ Goto(c, label)
                  /\ \/ label \in {"migrate", "store"}
                     \/ pc[c] \notin {"pool", "migrate", "store"}
                     \/ storePtr' = c
        PROVE  ArrivalsInv'
    <2>1. Running # {}
      BY <1>2 DEF Running
    <2>2. UNCHANGED <<via, eventPc, eventStore, queued, disturbed, last>>
      BY <1>2
    <2>3. \A e \in Events : InHand(e) => e \in disturbed
      BY <2>1
    <2>4. storePtr # None => storePtr' # None
      BY <1>2
    <2>5. (\E d \in Calls : pc'[d] \in Publishing) => storePtr' # None
      BY <1>2, <2>4
    <2>6. OnlyReconfigurationLosesEvents'
      BY <2>2
    <2> HIDE DEF OnlyReconfigurationLosesEvents
    <2> QED
      BY <2>2, <2>3, <2>4, <2>5, <2>6
  <1>3. ASSUME OpenPool(c) \/ Migrate(c) \/ StoreStore(c) \/ StoreRegistry(c)
                 \/ SetHandler(c) \/ CancelLoop(c) \/ StartLoop(c) \/ SwapPool(c)
        PROVE  ArrivalsInv'
    BY <1>2, <1>3 DEF OpenPool, Migrate, StoreStore, StoreRegistry, SetHandler,
                      CancelLoop, StartLoop, SwapPool, wiring
  <1>4. ASSUME NEW label \in {"done", "failed"}, Return(c, label),
               UNCHANGED <<arrivals, storePtr>>,
               label = "done" => pc[c] = "close",
               pc[c] \in {"pool", "migrate", "close"}
        PROVE  ArrivalsInv'
    <2>1. \A e \in Events : InHand(e) => e \in disturbed
      BY <1>4 DEF Running
    <2>2. \A e \in Events : InHand(e) => e \in disturbed'
      BY <1>4, <2>1 DEF Return
    <2>3. last' # None => storePtr # None
      BY <1>4 DEF Return
    <2>4. UNCHANGED <<via, eventPc, eventStore, queued, storePtr>>
      BY <1>4
    <2>5. \A e \in disturbed : eventPc[e] # "new" => e \in disturbed'
      BY <1>4 DEF Return
    <2>6. disturbed' = disturbed \/ last' # None
      BY <1>4 DEF Return
    <2>7. storePtr = None => \A e \in Events : eventPc[e] = "new" => e \in disturbed'
      BY <2>3, <2>6
    <2>8. \A d \in Calls : d # c => pc'[d] = pc[d]
      BY <1>4 DEF Return
    <2>9. pc'[c] \in {"done", "failed"}
      BY <1>4 DEF Return
    <2>10. (\E d \in Calls : pc'[d] \in Publishing) => storePtr # None
      BY <2>8, <2>9
    <2>11. OnlyReconfigurationLosesEvents'
      BY <2>4, <2>5
    <2> HIDE DEF OnlyReconfigurationLosesEvents
    <2> QED
      BY <2>2, <2>3, <2>4, <2>7, <2>10, <2>11
  <1>5. ASSUME Refuse(c) \/ MigrateFails(c) \/ CloseOld(c) PROVE ArrivalsInv'
    BY <1>4, <1>5 DEF Refuse, MigrateFails, CloseOld, wiring
  <1> QED
    BY <1>1, <1>3, <1>5 DEF OnConfig

\* A step of an arrival.
LEMMA ArrivalsHandle ==
    ASSUME TypeOK, ArrivalsInv, NEW e \in Events, HandleEvent(e)
    PROVE  ArrivalsInv'
  <1> USE NoneAssumption
          DEF TypeOK, CallOrNone, ArrivalsInv, OnlyReconfigurationLosesEvents,
              InHand, Open, EventGoto, configure, wiring
  <1>1. CASE TakeEvent(e)
    BY <1>1 DEF TakeEvent, Arrive, Running
  <1>2. CASE TakeRequest(e)
    BY <1>2 DEF TakeRequest, Arrive, Running
  <1>3. CASE ListRules(e)
    BY <1>3 DEF ListRules, Running
  <1>4. CASE GetTarget(e)
    BY <1>4 DEF GetTarget, Running
  <1>5. CASE Enqueue(e)
    BY <1>5 DEF Enqueue, Running
  <1> QED
    BY <1>1, <1>2, <1>3, <1>4, <1>5 DEF HandleEvent

\* A request is never answered with success without its row, nor an event
\* acknowledged that met no call of Configure, even when calls overlap.
THEOREM NothingElseIsLost == Spec => []OnlyReconfigurationLosesEvents
  <1>1. Init => TypeOK /\ ArrivalsInv
    BY TypedInit, ArrivalsInit
  <1>2. TypeOK /\ ArrivalsInv /\ [Next]_vars => (TypeOK /\ ArrivalsInv)'
    <2>1. ASSUME ArrivalsInv, UNCHANGED <<configure, wiring, events>>
          PROVE  ArrivalsInv'
      BY <2>1 DEF ArrivalsInv, OnlyReconfigurationLosesEvents, InHand, Open,
                  Running, configure, wiring, events, arrivals
    <2>2. ASSUME ArrivalsInv, NEW c \in Calls, RunLoop(c) PROVE ArrivalsInv'
      BY <2>1, <2>2 DEF RunLoop, LoadDeps, Tick, EndLoop
    <2> QED
      BY <2>1, <2>2, TypedStep, ArrivalsConfigure, ArrivalsHandle DEF Next, vars
  <1>3. ArrivalsInv => OnlyReconfigurationLosesEvents
    BY DEF ArrivalsInv
  <1> QED
    BY <1>1, <1>2, <1>3, PTL DEF Spec
=============================================================================
