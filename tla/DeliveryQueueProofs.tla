------------------------ MODULE DeliveryQueueProofs ------------------------
(***************************************************************************)
(* Theorems about DeliveryQueue, for every number of rows, targets and     *)
(* overlapping ticks and every configuration.                              *)
(***************************************************************************)
EXTENDS DeliveryQueue, FiniteSetTheorems, WellFoundedInduction, TLAPS

\* What TypeOK says of a single tick, and of a limit read from app_config.
LEMMA EffectiveIsPositive ==
    ASSUME NEW m \in MaxAttemptsValues
    PROVE  Effective(m) \in Nat \ {0}
  BY AttemptsAssumption DEF Effective

LEMMA TypeInit == Init => TypeOK
  <1> SUFFICES ASSUME Init PROVE TypeOK
    OBVIOUS
  <1> USE AttemptsAssumption, BoundsAssumption DEF Init
  <1> QED
    BY DEF TypeOK

\* A fault keeps the budget.
LEMMA FaultType ==
    ASSUME NEW w, Fault(w), faults \in 0 .. MaxFaults
    PROVE  faults' \in 0 .. MaxFaults
  BY BoundsAssumption DEF Fault

\* DueDeliveries returns queued rows only.
LEMMA DueAreQueued ==
    \A d \in DueDeliveries : d \in Deliveries /\ status[d] = "queued"
  <1>1. \A d \in DueDeliveries : d \in DueRows
    BY DEF DueDeliveries
  <1> QED
    BY <1>1 DEF DueRows

\* What Mark does, row by row and with the two outcomes of Retry apart.
MarkOf(w, r) ==
    /\ Current(w, r)
    /\ NextRow(w, r)
    /\ attempts' = [attempts EXCEPT ![r.id] = @ + 1]
    /\ \/ /\ outcome[w] = "ok"
          /\ status' = [status EXCEPT ![r.id] = "delivered"]
          /\ lastError' = [lastError EXCEPT ![r.id] = "none"]
          /\ due' = due
       \/ /\ outcome[w] = "error" /\ r.attempts + 1 < limit[w]
          /\ status' = [status EXCEPT ![r.id] = "queued"]
          /\ lastError' = [lastError EXCEPT ![r.id] = "error"]
          /\ due' = [due EXCEPT ![r.id] = FALSE]
       \/ /\ outcome[w] = "error" /\ ~(r.attempts + 1 < limit[w])
          /\ status' = [status EXCEPT ![r.id] = "failed"]
          /\ lastError' = [lastError EXCEPT ![r.id] = "error"]
          /\ due' = [due EXCEPT ![r.id] = TRUE]
       \/ /\ outcome[w] = "disabled"
          /\ status' = [status EXCEPT ![r.id] = "failed"]
          /\ lastError' = [lastError EXCEPT ![r.id] = "disabled"]
          /\ due' = [due EXCEPT ![r.id] = TRUE]

LEMMA MarkEffect ==
    ASSUME NEW w \in Tickers, Mark(w)
    PROVE  \E r \in batch[w] : MarkOf(w, r)
  <1>1. PICK r \in batch[w] :
            /\ Current(w, r)
            /\ NextRow(w, r)
            /\ \/ outcome[w] = "ok" /\ MarkDelivered(r.id)
               \/ outcome[w] = "error" /\ MarkFailed(r.id, "error", Retry(w, r))
               \/ outcome[w] = "disabled" /\ MarkFailed(r.id, "disabled", FALSE)
    BY DEF Mark
  <1>2. CASE outcome[w] = "ok"
    BY <1>1, <1>2 DEF MarkOf, MarkDelivered
  <1>3. CASE outcome[w] = "error"
    <2>1. CASE Retry(w, r)
      BY <1>1, <1>3, <2>1 DEF MarkOf, MarkFailed, Retry
    <2>2. CASE ~Retry(w, r)
      BY <1>1, <1>3, <2>2 DEF MarkOf, MarkFailed, Retry
    <2> QED
      BY <2>1, <2>2
  <1>4. CASE outcome[w] = "disabled"
    BY <1>1, <1>4 DEF MarkOf, MarkFailed
  <1> QED
    BY <1>1, <1>2, <1>3, <1>4

LEMMA TypeStep == TypeOK /\ [Next]_vars => TypeOK'
  <1> SUFFICES ASSUME TypeOK, [Next]_vars
               PROVE  TypeOK'
    OBVIOUS
  <1> USE DEF TypeOK, Row, tableVars, configVars, tickVars
  <1>1. ASSUME NEW d \in Deliveries, Enqueue(d)
        PROVE  TypeOK'
    BY <1>1 DEF Enqueue
  <1>2. ASSUME NEW d \in Deliveries, BecomeDue(d)
        PROVE  TypeOK'
    BY <1>2 DEF BecomeDue
  <1>3. ASSUME NEW t \in Targets, UpsertTarget(t)
        PROVE  TypeOK'
    BY <1>3 DEF UpsertTarget
  <1>4. ASSUME NEW t \in Targets, DeleteTarget(t)
        PROVE  TypeOK'
    BY <1>4 DEF DeleteTarget
  <1>5. ASSUME NEW m \in MaxAttemptsValues, PutAppConfig(m)
        PROVE  TypeOK'
    BY <1>5 DEF PutAppConfig
  <1>6. ASSUME NEW w \in Tickers, Tick(w)
        PROVE  TypeOK'
    <2>1. CASE ReadConfig(w)
      BY <2>1, EffectiveIsPositive, AttemptsAssumption DEF ReadConfig, Goto
    <2>2. CASE ReadDue(w)
      <3>1. {[id |-> d, attempts |-> attempts[d]] : d \in DueDeliveries}
              \in SUBSET Row
        BY DueAreQueued
      <3> QED
        BY <2>2, <3>1 DEF ReadDue, Goto
    <2>3. CASE ReadDueFails(w)
      BY <2>3, FaultType, AttemptsAssumption DEF ReadDueFails, Return, Goto
    <2>4. CASE FetchTarget(w)
      BY <2>4 DEF FetchTarget, Decide, Goto
    <2>5. CASE FetchTargetFails(w)
      BY <2>5, FaultType DEF FetchTargetFails, Decide, Goto
    <2>6. CASE HandOver(w)
      BY <2>6 DEF HandOver, Goto
    <2>7. CASE SendFails(w)
      BY <2>7 DEF SendFails, Decide, Goto
    <2>8. CASE SendSucceeds(w)
      BY <2>8 DEF SendSucceeds, Decide, Goto
    <2>9. CASE AnswerLost(w)
      BY <2>9, FaultType DEF AnswerLost, Decide, Goto
    <2>10. CASE Mark(w)
      <3>1. PICK r \in batch[w] : MarkOf(w, r)
        BY <2>10, MarkEffect
      <3>2. /\ status' \in [Deliveries ->
                              {"absent", "queued", "delivered", "failed"}]
            /\ lastError' \in [Deliveries -> {"none", "error", "disabled"}]
        BY <3>1 DEF MarkOf
      <3>3. due' \in [Deliveries -> BOOLEAN]
        BY <3>1 DEF MarkOf
      <3>5. attempts' \in [Deliveries -> Nat]
        <4>1. r.id \in Deliveries /\ attempts[r.id] + 1 \in Nat
          OBVIOUS
        <4>2. attempts' = [attempts EXCEPT ![r.id] = attempts[r.id] + 1]
          BY <3>1 DEF MarkOf
        <4> QED
          BY <4>1, <4>2
      <3>4. /\ pc' \in [Tickers ->
                          {"idle", "due", "fetch", "send", "handed", "mark"}]
            /\ batch' \in [Tickers -> SUBSET Row]
            /\ outcome' \in [Tickers -> {"none", "ok", "error", "disabled"}]
        BY <3>1 DEF MarkOf, NextRow, Goto
      <3> QED
        BY <2>10, <3>2, <3>3, <3>4, <3>5 DEF Mark
    <2>11. CASE MarkIsLost(w)
      BY <2>11, FaultType DEF MarkIsLost, NextRow, Goto
    <2>12. CASE EndTick(w)
      BY <2>12, AttemptsAssumption DEF EndTick, Return, Goto
    <2> QED
      BY <1>6, <2>1, <2>2, <2>3, <2>4, <2>5, <2>6, <2>7, <2>8, <2>9, <2>10,
         <2>11, <2>12 DEF Tick
  <1>7. ASSUME NEW w \in Tickers, Detach(w)
        PROVE  TypeOK'
    BY <1>7, FaultType DEF Detach
  <1>8. CASE Crash
    BY <1>8, BoundsAssumption, AttemptsAssumption DEF Crash
  <1>9. CASE UNCHANGED vars
    BY <1>9 DEF vars
  <1> QED
    BY <1>1, <1>2, <1>3, <1>4, <1>5, <1>6, <1>7, <1>8, <1>9 DEF Next

\* Every reachable state of the queue is well typed.
THEOREM TypeCorrect == Spec => []TypeOK
  BY TypeInit, TypeStep, PTL DEF Spec

-----------------------------------------------------------------------------
(* What one action may touch.  Only Enqueue and Mark write the columns     *)
(* status and attempts, and only Mark and ReadDue change a batch so that   *)
(* something new can be said about the rows in it.                         *)

\* The steps of a tick other than Mark and ReadDue take rows from a batch
\* at most, and leave the table alone.
LEMMA OtherTickSteps ==
    ASSUME NEW w \in Tickers, TypeOK, Tick(w), ~Mark(w), ~ReadDue(w)
    PROVE  /\ UNCHANGED tableVars
           /\ \A v \in Tickers : batch'[v] \subseteq batch[v]
  <1> USE DEF tableVars, TypeOK
  <1>1. CASE MarkIsLost(w)
    BY <1>1 DEF MarkIsLost, NextRow
  <1>2. CASE ~MarkIsLost(w)
    BY <1>2 DEF Tick, ReadConfig, ReadDueFails, FetchTarget, FetchTargetFails,
                HandOver, SendFails, SendSucceeds, AnswerLost, EndTick
  <1> QED
    BY <1>1, <1>2

\* A mark counts the row's attempts up, moves only that row and takes it
\* from the batch of the tick that marked it.
LEMMA MarkMovesOneRow ==
    ASSUME TypeOK, NEW w \in Tickers, NEW r \in batch[w], MarkOf(w, r)
    PROVE  /\ r.id \in Deliveries /\ r.attempts \in Nat
           /\ attempts'[r.id] = attempts[r.id] + 1
           /\ \A d \in Deliveries : d # r.id =>
                 attempts'[d] = attempts[d] /\ status'[d] = status[d]
           /\ r \notin batch'[w]
           /\ \A v \in Tickers : batch'[v] \subseteq batch[v]
  <1>1. r.id \in Deliveries /\ r.attempts \in Nat
    BY DEF TypeOK, Row
  <1>2. /\ attempts'[r.id] = attempts[r.id] + 1
        /\ \A d \in Deliveries : d # r.id => attempts'[d] = attempts[d]
    BY <1>1 DEF MarkOf, TypeOK
  <1>3. \A d \in Deliveries : d # r.id => status'[d] = status[d]
    BY <1>1 DEF MarkOf, TypeOK
  <1>4. /\ r \notin batch'[w]
        /\ \A v \in Tickers : batch'[v] \subseteq batch[v]
    BY DEF MarkOf, NextRow, TypeOK
  <1> QED
    BY <1>1, <1>2, <1>3, <1>4

\* The step of Next that is neither of a tick nor an Enqueue.
LEMMA OutsideSteps ==
    ASSUME TypeOK, [Next]_vars,
           ~ \E w \in Tickers : Tick(w), ~ \E d \in Deliveries : Enqueue(d)
    PROVE  /\ UNCHANGED <<status, attempts, lastError>>
           /\ \A v \in Tickers : batch'[v] \subseteq batch[v]
  <1>1. CASE Crash
    BY <1>1 DEF Crash, tableVars
  <1>2. CASE ~Crash
    BY <1>2 DEF Next, vars, BecomeDue, UpsertTarget, DeleteTarget, PutAppConfig,
                Detach, tableVars, tickVars
  <1> QED
    BY <1>1, <1>2

-----------------------------------------------------------------------------
(* attempts is the version of a row.                                       *)

LEMMA VersionInit == Init => AttemptsVersionTheRow
  BY DEF Init, AttemptsVersionTheRow

LEMMA VersionStep ==
    TypeOK /\ AttemptsVersionTheRow /\ [Next]_vars => AttemptsVersionTheRow'
  <1> SUFFICES ASSUME TypeOK, AttemptsVersionTheRow, [Next]_vars,
                      NEW v \in Tickers, NEW s \in batch'[v]
               PROVE  /\ s.attempts <= attempts'[s.id]
                      /\ s.attempts = attempts'[s.id] => status'[s.id] = "queued"
    BY DEF AttemptsVersionTheRow
  <1>1. s \in batch[v] => /\ s.id \in Deliveries /\ s.attempts \in Nat
                          /\ attempts[s.id] \in Nat
                          /\ s.attempts <= attempts[s.id]
                          /\ s.attempts = attempts[s.id] => status[s.id] = "queued"
    BY DEF AttemptsVersionTheRow, TypeOK, Row
  <1>2. ASSUME NEW w \in Tickers, Mark(w)
        PROVE  /\ s.attempts <= attempts'[s.id]
               /\ s.attempts = attempts'[s.id] => status'[s.id] = "queued"
    <2>1. PICK r \in batch[w] : MarkOf(w, r)
      BY <1>2, MarkEffect
    <2>2. s \in batch[v]
      BY <2>1, MarkMovesOneRow
    <2>3. CASE s.id = r.id
      BY <1>1, <2>1, <2>2, <2>3, MarkMovesOneRow
    <2>4. CASE s.id # r.id
      BY <1>1, <2>1, <2>2, <2>4, MarkMovesOneRow
    <2> QED
      BY <2>3, <2>4
  <1>3. ASSUME NEW w \in Tickers, ReadDue(w)
        PROVE  /\ s.attempts <= attempts'[s.id]
               /\ s.attempts = attempts'[s.id] => status'[s.id] = "queued"
    <2>1. status' = status /\ attempts' = attempts
      BY <1>3 DEF ReadDue, tableVars
    <2>2. CASE s \in batch[v]
      BY <1>1, <2>1, <2>2
    <2>3. CASE s \notin batch[v]
      <3>1. s \in {[id |-> d, attempts |-> attempts[d]] : d \in DueDeliveries}
        BY <1>3, <2>3 DEF ReadDue, TypeOK
      <3>2. PICK d \in DueDeliveries : s = [id |-> d, attempts |-> attempts[d]]
        BY <3>1
      <3> QED
        BY <2>1, <3>2, DueAreQueued DEF TypeOK
    <2> QED
      BY <2>2, <2>3
  <1>4. ASSUME NEW w \in Tickers, Tick(w), ~Mark(w), ~ReadDue(w)
        PROVE  /\ s.attempts <= attempts'[s.id]
               /\ s.attempts = attempts'[s.id] => status'[s.id] = "queued"
    BY <1>1, <1>4, OtherTickSteps DEF tableVars
  <1>5. ASSUME NEW d \in Deliveries, Enqueue(d)
        PROVE  /\ s.attempts <= attempts'[s.id]
               /\ s.attempts = attempts'[s.id] => status'[s.id] = "queued"
    BY <1>1, <1>5 DEF Enqueue, tickVars, TypeOK
  <1>6. CASE /\ ~ \E w \in Tickers : Tick(w)
             /\ ~ \E d \in Deliveries : Enqueue(d)
    BY <1>1, <1>6, OutsideSteps
  <1> QED
    BY <1>2, <1>3, <1>4, <1>5, <1>6

\* What a tick read of a row is never ahead of the table, and if the row was
\* not marked since, it is still queued.
THEOREM AttemptsAreVersions == Spec => []AttemptsVersionTheRow
  BY TypeInit, TypeStep, VersionInit, VersionStep, PTL DEF Spec

\* A delivery leaves a terminal state only by the mark of a tick that read
\* it before it got there.
THEOREM OnlyOutdatedTicksReopen == Spec => ReopenedOnlyByOutdatedTick
  <1>1. TypeOK /\ AttemptsVersionTheRow /\ [Next]_vars =>
          [\A d \in Deliveries :
              Settled(d) /\ status'[d] # status[d] =>
                 \E w \in Tickers : \E r \in batch[w] :
                    /\ r.id = d
                    /\ r.attempts < attempts[d]
                    /\ r \notin batch'[w]]_vars
    <2> SUFFICES ASSUME TypeOK, AttemptsVersionTheRow, [Next]_vars,
                        NEW d \in Deliveries, Settled(d), status'[d] # status[d]
                 PROVE  \E w \in Tickers : \E r \in batch[w] :
                          /\ r.id = d /\ r.attempts < attempts[d]
                          /\ r \notin batch'[w]
      OBVIOUS
    <2>1. ~ \E e \in Deliveries : Enqueue(e)
      BY DEF Enqueue, Settled, TypeOK
    <2>2. PICK w \in Tickers : Tick(w)
      BY <2>1, OutsideSteps
    <2>3. Mark(w)
      BY <2>2, OtherTickSteps DEF ReadDue, tableVars
    <2>4. PICK r \in batch[w] : MarkOf(w, r)
      BY <2>3, MarkEffect
    <2>5. r.id = d /\ r \notin batch'[w]
      BY <2>4, MarkMovesOneRow
    <2>6. r.attempts < attempts[d]
      BY <2>4, <2>5, MarkMovesOneRow DEF AttemptsVersionTheRow, Settled, TypeOK
    <2> QED
      BY <2>5, <2>6
  <1> QED
    BY <1>1, TypeInit, TypeStep, VersionInit, VersionStep, PTL
    DEF Spec, ReopenedOnlyByOutdatedTick

-----------------------------------------------------------------------------
(* Delivered means taken over, failed means exhausted.                     *)

\* A hand-over is never forgotten.
LEMMA HandedGrows ==
    ASSUME TypeOK, [Next]_vars, NEW d \in Deliveries
    PROVE  handed'[d] >= handed[d] /\ handed[d] \in Nat /\ handed'[d] \in Nat
  <1>1. ASSUME NEW w \in Tickers, HandOver(w)
        PROVE  handed'[d] >= handed[d] /\ handed'[d] \in Nat
    BY <1>1 DEF HandOver, TypeOK, Row
  <1>2. CASE ~ \E w \in Tickers : HandOver(w)
    <2>1. handed' = handed
      BY <1>2 DEF Next, vars, Enqueue, BecomeDue, UpsertTarget, DeleteTarget,
           PutAppConfig, Tick, ReadConfig, ReadDue, ReadDueFails, FetchTarget,
           FetchTargetFails, SendFails, SendSucceeds, AnswerLost, Mark,
           MarkIsLost, EndTick, Detach, Crash
    <2> QED
      BY <2>1 DEF TypeOK
  <1> QED
    BY <1>1, <1>2 DEF TypeOK

LEMMA SoundInit == Init => TicksAreSound
  BY DEF Init, TicksAreSound, TakenOver, AttemptLimits

\* A step of a tick leaves the local state of the others alone.
LEMMA TicksAreLocal ==
    ASSUME TypeOK, NEW w \in Tickers, Tick(w), NEW v \in Tickers, v # w
    PROVE  /\ pc'[v] = pc[v] /\ limit'[v] = limit[v]
           /\ batch'[v] = batch[v] /\ outcome'[v] = outcome[v]
  BY ZenonT(30) DEF TypeOK, Tick, ReadConfig, ReadDue, ReadDueFails, FetchTarget,
         FetchTargetFails, HandOver, SendFails, SendSucceeds, AnswerLost, Mark,
         MarkIsLost, EndTick, NextRow, Decide, Return, Goto

LEMMA LimitStep ==
    TypeOK /\ TicksAreSound /\ [Next]_vars =>
        \A v \in Tickers : limit'[v] \in AttemptLimits
  <1> SUFFICES ASSUME TypeOK, TicksAreSound, [Next]_vars, NEW v \in Tickers
               PROVE  limit'[v] \in AttemptLimits
    OBVIOUS
  <1> DefaultMaxAttempts \in AttemptLimits
    BY DEF AttemptLimits
  <1>1. CASE ReadConfig(v)
    BY <1>1 DEF ReadConfig, AttemptLimits, TypeOK
  <1>2. CASE ReadDueFails(v) \/ EndTick(v)
    BY <1>2 DEF ReadDueFails, EndTick, Return, TypeOK
  <1>3. ASSUME NEW w \in Tickers, Tick(w), w # v
        PROVE  limit'[v] \in AttemptLimits
    BY <1>3, TicksAreLocal DEF TicksAreSound
  <1>4. CASE Tick(v) /\ ~ReadConfig(v) /\ ~ReadDueFails(v) /\ ~EndTick(v)
    BY <1>4 DEF TicksAreSound, Tick, ReadDue, FetchTarget, FetchTargetFails,
                HandOver, SendFails, SendSucceeds, AnswerLost, Mark, MarkIsLost
  <1>5. CASE Crash
    BY <1>5 DEF Crash
  <1>6. CASE ~Crash /\ ~ \E w \in Tickers : Tick(w)
    BY <1>6 DEF TicksAreSound, Next, vars, tickVars, Enqueue, BecomeDue,
                UpsertTarget, DeleteTarget, PutAppConfig, Detach
  <1> QED
    BY <1>1, <1>2, <1>3, <1>4, <1>5, <1>6

LEMMA TakenOverStep ==
    TypeOK /\ TicksAreSound /\ [Next]_vars =>
        \A v \in Tickers : TakenOver(v)' =>
            \A s \in batch'[v] : Current(v, s)' => handed'[s.id] > 0
  <1> SUFFICES ASSUME TypeOK, TicksAreSound, [Next]_vars, NEW v \in Tickers,
                      TakenOver(v)', NEW s \in batch'[v], Current(v, s)'
               PROVE  handed'[s.id] > 0
    OBVIOUS
  <1>1. ASSUME TakenOver(v), batch'[v] = batch[v]
        PROVE  handed'[s.id] > 0
    <2>1. Current(v, s) /\ s.id \in Deliveries
      BY <1>1 DEF Current, TypeOK, Row
    <2> QED
      BY <1>1, <2>1, HandedGrows DEF TicksAreSound
  <1>2. ASSUME NEW w \in Tickers, Tick(w), w # v
        PROVE  handed'[s.id] > 0
    BY <1>1, <1>2, TicksAreLocal DEF TakenOver
  <1>3. CASE HandOver(v)
    <2>1. PICK r \in batch[v] :
              Current(v, r) /\ handed' = [handed EXCEPT ![r.id] = @ + 1]
      BY <1>3 DEF HandOver
    <2>2. r.id \in Deliveries /\ s \in batch[v] /\ s.id \in Deliveries
      BY <1>3 DEF HandOver, TypeOK, Row
    <2>3. r.id = s.id
      <3>1. batch' = batch
        BY <1>3 DEF HandOver
      <3>2. r.id <= s.id /\ s.id <= r.id
        BY <2>1, <2>2, <3>1 DEF Current
      <3>3. r.id \in Nat /\ s.id \in Nat
        BY <2>2, DeliveriesAssumption
      <3> QED
        BY <3>2, <3>3
    <2> QED
      BY <2>1, <2>2, <2>3 DEF TypeOK
  <1>4. CASE SendSucceeds(v)
    BY <1>1, <1>4 DEF SendSucceeds, TakenOver
  <1>5. CASE Tick(v) /\ ~HandOver(v) /\ ~SendSucceeds(v)
    BY <1>5, ZenonT(30) DEF TypeOK, TakenOver, Tick, ReadConfig, ReadDue, ReadDueFails,
        FetchTarget, FetchTargetFails, SendFails, AnswerLost, Mark, MarkIsLost,
        EndTick, NextRow, Decide, Return, Goto
  <1>6. CASE Crash
    BY <1>6 DEF Crash, TakenOver
  <1>7. CASE ~Crash /\ ~ \E w \in Tickers : Tick(w)
    BY <1>1, <1>7 DEF TakenOver, Next, vars, tickVars, Enqueue, BecomeDue,
        UpsertTarget, DeleteTarget, PutAppConfig, Detach
  <1> QED
    BY <1>2, <1>3, <1>4, <1>5, <1>6, <1>7

LEMMA SoundStep == TypeOK /\ TicksAreSound /\ [Next]_vars => TicksAreSound'
  BY LimitStep, TakenOverStep DEF TicksAreSound, AttemptLimits, Effective

LEMMA DeliveredInit == Init => DeliveredWasHandedOver
  BY DEF Init, DeliveredWasHandedOver

LEMMA DeliveredStep ==
    TypeOK /\ TicksAreSound /\ DeliveredWasHandedOver /\ [Next]_vars
      => DeliveredWasHandedOver'
  <1> SUFFICES ASSUME TypeOK, TicksAreSound, DeliveredWasHandedOver,
                      [Next]_vars, NEW d \in Deliveries,
                      status'[d] = "delivered"
               PROVE  handed'[d] > 0
    BY DEF DeliveredWasHandedOver
  <1>1. CASE status[d] = "delivered"
    BY <1>1, HandedGrows DEF DeliveredWasHandedOver
  <1>2. CASE status[d] # "delivered"
    <2>1. ~ \E e \in Deliveries : Enqueue(e)
      BY <1>2 DEF Enqueue, TypeOK
    <2>2. PICK w \in Tickers : Tick(w)
      BY <1>2, <2>1, OutsideSteps
    <2>3. Mark(w)
      BY <1>2, <2>2, OtherTickSteps DEF ReadDue, tableVars
    <2>4. PICK r \in batch[w] : MarkOf(w, r)
      BY <2>3, MarkEffect
    <2>5. r.id = d
      BY <1>2, <2>4, MarkMovesOneRow
    <2>6. outcome[w] = "ok" /\ Current(w, r)
      BY <2>4, <2>5 DEF MarkOf, TypeOK
    <2>7. handed[d] > 0
      BY <2>3, <2>5, <2>6 DEF Mark, TicksAreSound, TakenOver
    <2> QED
      BY <2>7, HandedGrows
  <1> QED
    BY <1>1, <1>2

\* A delivery is marked delivered only after a provider took it over.
THEOREM DeliveredIsDelivered == Spec => []DeliveredWasHandedOver
  BY TypeInit, TypeStep, SoundInit, SoundStep, DeliveredInit, DeliveredStep, PTL
  DEF Spec

LEMMA GivenUpInit == Init => GivenUpOnlyWhenExhausted
  BY DEF Init, GivenUpOnlyWhenExhausted

LEMMA LimitsAreNatural == AttemptLimits \subseteq Nat \ {0}
  BY EffectiveIsPositive, AttemptsAssumption DEF AttemptLimits

LEMMA GivenUpStep ==
    TypeOK /\ AttemptsVersionTheRow /\ TicksAreSound /\ GivenUpOnlyWhenExhausted
      /\ [Next]_vars => GivenUpOnlyWhenExhausted'
  <1> SUFFICES ASSUME TypeOK, AttemptsVersionTheRow, TicksAreSound,
                      GivenUpOnlyWhenExhausted, [Next]_vars,
                      NEW d \in Deliveries,
                      status'[d] = "failed", lastError'[d] = "error"
               PROVE  \E m \in AttemptLimits : attempts'[d] >= m
    BY DEF GivenUpOnlyWhenExhausted, AttemptLimits, Effective
  <1>1. ASSUME NEW w \in Tickers, Mark(w)
        PROVE  \E m \in AttemptLimits : attempts'[d] >= m
    <2>1. PICK r \in batch[w] : MarkOf(w, r)
      BY <1>1, MarkEffect
    <2>2. CASE r.id = d
      <3>1. ~(r.attempts + 1 < limit[w])
        BY <2>1, <2>2 DEF MarkOf, TypeOK
      <3>2. r.attempts <= attempts[d] /\ attempts'[d] = attempts[d] + 1
        BY <2>1, <2>2, MarkMovesOneRow DEF AttemptsVersionTheRow
      <3>3. limit[w] \in AttemptLimits /\ limit[w] \in Nat
        BY DEF TicksAreSound, TypeOK
      <3>4. r.attempts \in Nat /\ attempts[d] \in Nat
        BY DEF TypeOK, Row
      <3> QED
        BY <3>1, <3>2, <3>3, <3>4
    <2>3. CASE r.id # d
      <3>1. lastError'[d] = lastError[d]
        BY <2>1, <2>3 DEF MarkOf, TypeOK
      <3> QED
        BY <2>1, <2>3, <3>1, MarkMovesOneRow DEF GivenUpOnlyWhenExhausted
    <2> QED
      BY <2>2, <2>3
  <1>2. ASSUME NEW w \in Tickers, Tick(w), ~Mark(w)
        PROVE  \E m \in AttemptLimits : attempts'[d] >= m
    <2>1. UNCHANGED tableVars
      BY <1>2, OtherTickSteps DEF ReadDue
    <2> QED
      BY <2>1 DEF tableVars, GivenUpOnlyWhenExhausted
  <1>3. ASSUME NEW e \in Deliveries, Enqueue(e)
        PROVE  \E m \in AttemptLimits : attempts'[d] >= m
    BY <1>3 DEF Enqueue, GivenUpOnlyWhenExhausted, TypeOK
  <1>4. CASE /\ ~ \E w \in Tickers : Tick(w)
             /\ ~ \E e \in Deliveries : Enqueue(e)
    BY <1>4, OutsideSteps DEF GivenUpOnlyWhenExhausted
  <1> QED
    BY <1>1, <1>2, <1>3, <1>4

\* A row that failed for an error used up the attempts some limit in force
\* allows: no delivery is given up early.
THEOREM NothingGivenUpEarly == Spec => []GivenUpOnlyWhenExhausted
  BY TypeInit, TypeStep, VersionInit, VersionStep, SoundInit, SoundStep,
     GivenUpInit, GivenUpStep, PTL DEF Spec

\* The inductive invariant that TLC checks holds in every instance.
THEOREM QueueInvariant == Spec => []QueueInv
  <1>1. Init => QueueInv
    BY TypeInit, VersionInit, SoundInit, DeliveredInit, GivenUpInit DEF QueueInv
  <1>2. QueueInv /\ [Next]_vars => QueueInv'
    BY TypeStep, VersionStep, SoundStep, DeliveredStep, GivenUpStep
    DEF QueueInv
  <1> QED
    BY <1>1, <1>2, PTL DEF Spec

-----------------------------------------------------------------------------
(* The account of hand-overs.                                              *)

\* The ticks that are cut off and may yet hand row d over.
CutOff(d) ==
    {w \in Tickers :
        /\ detached[w] /\ pc[w] = "send"
        /\ \E r \in batch[w] : Current(w, r) /\ r.id = d}

\* HandOversAreAccounted, with the hand-over of a tick that is cut off charged
\* to the fault that cut it off.
AccountInv ==
    \A d \in Deliveries :
        handed[d] + Cardinality(CutOff(d)) <=
            attempts[d] + Cardinality(InFlight(d)) + faults * Cardinality(Tickers)

One(holds) == IF holds THEN 1 ELSE 0

\* The loop is at one row of the batch only.
LEMMA OneCurrentRow ==
    ASSUME TypeOK, NEW w \in Tickers, NEW r \in batch[w], NEW s \in batch[w],
           Current(w, r), Current(w, s)
    PROVE  r.id = s.id
  <1>1. r \in Row /\ s \in Row
    BY DEF TypeOK
  <1>2. r.id \in Nat /\ s.id \in Nat
    BY <1>1, DeliveriesAssumption DEF Row
  <1>3. r.id <= s.id /\ s.id <= r.id
    BY DEF Current
  <1> QED
    BY <1>2, <1>3

\* A step of tick w pays for what it does to row d: a hand-over makes it a row in
\* flight, a row in flight is counted or costs a fault.
LEMMA TickPays ==
    ASSUME TypeOK, NEW w \in Tickers, NEW d \in Deliveries, Tick(w) \/ Detach(w)
    PROVE  /\ faults' \in {faults, faults + 1}
           /\ handed'[d] + One(w \in CutOff(d)') + One(w \in InFlight(d))
                + attempts[d] + faults
                <= handed[d] + One(w \in CutOff(d)) + One(w \in InFlight(d)')
                     + attempts'[d] + faults'
  <1> DEFINE cur == \E r \in batch[w] : Current(w, r) /\ r.id = d
             in  == ~detached[w] /\ TakenOver(w) /\ cur
             out == detached[w] /\ pc[w] = "send" /\ cur
  <1>1. (w \in InFlight(d)) = in /\ (w \in CutOff(d)) = out
    BY DEF InFlight, CutOff
  <1>2. (w \in InFlight(d)') = in' /\ (w \in CutOff(d)') = out'
    BY DEF InFlight, CutOff
  <1>3. /\ handed \in [Deliveries -> Nat] /\ attempts \in [Deliveries -> Nat]
        /\ faults \in Nat /\ faults + 1 # faults
        /\ detached \in [Tickers -> BOOLEAN]
        /\ pc \in [Tickers -> {"idle", "due", "fetch", "send", "handed", "mark"}]
        /\ outcome \in [Tickers -> {"none", "ok", "error", "disabled"}]
        /\ \A r \in batch[w] : r.id \in Deliveries
    BY BoundsAssumption DEF TypeOK, Row
  <1>4. \A r \in batch[w] : Current(w, r) => (cur <=> r.id = d)
    BY OneCurrentRow
  <1> SUFFICES /\ faults' \in {faults, faults + 1}
               /\ handed'[d] + One(out') + One(in) + attempts[d] + faults
                    <= handed[d] + One(out) + One(in') + attempts'[d] + faults'
    BY <1>1, <1>2
  <1>5. CASE ReadConfig(w) \/ ReadDue(w) \/ ReadDueFails(w) \/ EndTick(w)
    <2>1. ~in /\ ~in' /\ ~out /\ ~out'
      BY <1>3, <1>5 DEF ReadConfig, ReadDue, ReadDueFails, EndTick, Goto, Return, TakenOver
    <2>2. /\ handed' = handed /\ attempts' = attempts /\ faults' \in {faults, faults + 1}
      BY <1>5 DEF ReadConfig, ReadDue, ReadDueFails, EndTick, Fault, tableVars
    <2> HIDE DEF in, out
    <2> QED
      BY <1>3, <2>1, <2>2 DEF One
  <1>6. CASE FetchTarget(w) \/ FetchTargetFails(w) \/ SendFails(w)
    <2>1. ~in /\ ~in' /\ ~out'
      BY <1>3, <1>6
         DEF FetchTarget, FetchTargetFails, SendFails, Goto, Decide, TakenOver
    <2>2. /\ handed' = handed /\ attempts' = attempts /\ faults' \in {faults, faults + 1}
      BY <1>6 DEF FetchTarget, FetchTargetFails, SendFails, Fault, tableVars
    <2> HIDE DEF in, out
    <2> QED
      BY <1>3, <2>1, <2>2 DEF One
  <1>7. CASE HandOver(w)
    <2>1. PICK r \in batch[w] : Current(w, r) /\ handed' = [handed EXCEPT ![r.id] = @ + 1]
      BY <1>7 DEF HandOver
    <2>2. /\ UNCHANGED <<batch, detached, faults>> /\ attempts' = attempts
          /\ pc[w] = "send" /\ pc'[w] = "handed"
      BY <1>3, <1>7 DEF HandOver, Goto, tableVars
    <2>3. cur' = cur
      BY <2>2 DEF Current
    <2>4. /\ ~in /\ ~out'
          /\ in' <=> ~detached[w] /\ cur
          /\ out <=> detached[w] /\ cur
      BY <2>2, <2>3 DEF TakenOver
    <2>5. handed'[d] = IF cur THEN handed[d] + 1 ELSE handed[d]
      BY <1>3, <1>4, <2>1
    <2> HIDE DEF cur, in, out
    <2> QED
      BY <1>3, <2>2, <2>4, <2>5 DEF One
  <1>8. CASE SendSucceeds(w) \/ AnswerLost(w)
    <2>1. /\ UNCHANGED <<batch, detached, handed>> /\ attempts' = attempts
          /\ pc[w] = "handed" /\ pc'[w] = "mark"
      BY <1>3, <1>8 DEF SendSucceeds, AnswerLost, Decide, Goto, tableVars
    <2>2. ~out /\ ~out'
      BY <2>1
    <2>3. CASE SendSucceeds(w)
      <3>1. in' = in /\ faults' = faults
        BY <1>3, <2>1, <2>3 DEF SendSucceeds, Decide, Current, TakenOver
      <3> HIDE DEF in, out
      <3> QED
        BY <1>3, <2>1, <2>2, <3>1 DEF One
    <2>4. CASE AnswerLost(w)
      <3>1. /\ ~in' /\ faults' \in {faults, faults + 1}
            /\ in => faults' = faults + 1
        BY <1>3, <2>1, <2>4 DEF AnswerLost, Decide, Fault, TakenOver
      <3> HIDE DEF in, out
      <3> QED
        BY <1>3, <2>1, <2>2, <3>1 DEF One
    <2> QED
      BY <1>8, <2>3, <2>4
  <1>9. CASE Mark(w)
    <2>1. PICK r \in batch[w] : MarkOf(w, r)
      BY <1>9, MarkEffect
    <2>2. /\ handed' = handed /\ faults' = faults
          /\ pc[w] = "mark" /\ pc'[w] = "fetch"
      BY <1>3, <1>9, <2>1 DEF Mark, MarkOf, NextRow, Goto
    <2>3. ~out /\ ~out' /\ ~in' /\ (in => r.id = d)
      BY <1>4, <2>1, <2>2 DEF TakenOver, MarkOf
    <2>4. attempts'[d] = IF r.id = d THEN attempts[d] + 1 ELSE attempts[d]
      BY <2>1, MarkMovesOneRow
    <2> HIDE DEF in, out
    <2> QED
      BY <1>3, <2>2, <2>3, <2>4 DEF One
  <1>10. CASE MarkIsLost(w)
    <2>1. /\ handed' = handed /\ attempts' = attempts
          /\ pc[w] = "mark" /\ pc'[w] = "fetch"
      BY <1>3, <1>10 DEF MarkIsLost, NextRow, Goto, tableVars
    <2>2. /\ ~out /\ ~out' /\ ~in' /\ faults' \in {faults, faults + 1}
          /\ in => faults' = faults + 1
      BY <1>10, <2>1 DEF MarkIsLost, Fault, TakenOver
    <2> HIDE DEF in, out
    <2> QED
      BY <1>3, <2>1, <2>2 DEF One
  <1>11. CASE Detach(w)
    <2>1. /\ handed' = handed /\ attempts' = attempts /\ faults' = faults + 1
          /\ ~detached[w] /\ detached'[w] = TRUE /\ UNCHANGED <<pc, batch>>
      BY <1>3, <1>11 DEF Detach, Fault, tableVars
    <2>2. ~out /\ ~in' /\ ~(out' /\ in)
      BY <2>1 DEF TakenOver
    <2> HIDE DEF in, out
    <2> QED
      BY <1>3, <2>1, <2>2 DEF One
  <1> QED
    BY <1>5, <1>6, <1>7, <1>8, <1>9, <1>10, <1>11 DEF Tick

\* A set that changes in one element changes in size accordingly.
LEMMA OneElement ==
    ASSUME NEW S, NEW T, NEW w, IsFiniteSet(S), S \ {w} = T \ {w}
    PROVE  /\ IsFiniteSet(T) /\ Cardinality(S) \in Nat /\ Cardinality(T) \in Nat
           /\ Cardinality(T) + One(w \in S) = Cardinality(S) + One(w \in T)
  <1> DEFINE U == S \ {w}
  <1>1. IsFiniteSet(U) /\ w \notin U
    BY FS_RemoveElement
  <1>2. S = IF w \in S THEN U \cup {w} ELSE U
    OBVIOUS
  <1>3. T = IF w \in T THEN U \cup {w} ELSE U
    OBVIOUS
  <1> HIDE DEF U
  <1>4. /\ IsFiniteSet(U \cup {w}) /\ Cardinality(U \cup {w}) = Cardinality(U) + 1
        /\ Cardinality(U) \in Nat
    BY <1>1, FS_AddElement, FS_CardinalityType
  <1>5. Cardinality(S) = Cardinality(U) + One(w \in S)
    <2>1. CASE w \in S
      BY <1>2, <1>4, <2>1 DEF One
    <2>2. CASE w \notin S
      BY <1>2, <1>4, <2>2 DEF One
    <2> QED
      BY <2>1, <2>2
  <1>6. Cardinality(T) = Cardinality(U) + One(w \in T)
    <2>1. CASE w \in T
      BY <1>3, <1>4, <2>1 DEF One
    <2>2. CASE w \notin T
      BY <1>3, <1>4, <2>2 DEF One
    <2> QED
      BY <2>1, <2>2
  <1>7. One(w \in S) \in Nat /\ One(w \in T) \in Nat
    BY DEF One
  <1>8. IsFiniteSet(T)
    BY <1>1, <1>3, <1>4
  <1> QED
    BY <1>4, <1>5, <1>6, <1>7, <1>8

\* The rows of other ticks in flight stay what they are.
LEMMA OthersStay ==
    ASSUME TypeOK, NEW w \in Tickers, NEW d \in Deliveries, Tick(w) \/ Detach(w)
    PROVE  /\ InFlight(d) \ {w} = InFlight(d)' \ {w}
           /\ CutOff(d) \ {w} = CutOff(d)' \ {w}
  <1>1. \A v \in Tickers \ {w} :
            /\ pc'[v] = pc[v] /\ batch'[v] = batch[v]
            /\ outcome'[v] = outcome[v] /\ detached'[v] = detached[v]
    <2>1. CASE Mark(w) \/ MarkIsLost(w)
      BY <2>1 DEF Mark, MarkIsLost, NextRow, Goto, TypeOK
    <2>2. CASE HandOver(w) \/ FetchTarget(w)
      BY <2>2 DEF HandOver, FetchTarget, Decide, Goto, TypeOK
    <2> QED
      BY <2>1, <2>2 DEF Tick, Detach, ReadConfig, ReadDue, ReadDueFails,
           FetchTargetFails, SendFails, SendSucceeds, AnswerLost, EndTick,
           Return, Decide, Goto, TypeOK
  <1>2. \A v \in Tickers \ {w} : TakenOver(v)' = TakenOver(v)
    BY <1>1 DEF TakenOver
  <1>3. \A v \in Tickers \ {w} : \A r \in batch[v] : Current(v, r)' = Current(v, r)
    BY <1>1 DEF Current
  <1> QED
    BY <1>1, <1>2, <1>3 DEF InFlight, CutOff

\* Every step keeps the account.
LEMMA AccountStep ==
    ASSUME IsFiniteSet(Tickers), TypeOK, AccountInv, [Next]_vars
    PROVE  AccountInv'
  <1> SUFFICES ASSUME NEW d \in Deliveries
               PROVE  handed'[d] + Cardinality(CutOff(d)') <=
                        attempts'[d] + Cardinality(InFlight(d)')
                          + faults' * Cardinality(Tickers)
    BY DEF AccountInv
  <1> DEFINE n == Cardinality(Tickers)
             in == Cardinality(InFlight(d))
             out == Cardinality(CutOff(d))
  <1>1. n \in Nat /\ 1 <= n
    BY LoopAssumption, FS_CardinalityType, FS_EmptySet
  <1>2. /\ IsFiniteSet(InFlight(d)) /\ IsFiniteSet(CutOff(d))
        /\ in \in Nat /\ out \in Nat /\ in <= n
    BY FS_Subset, FS_CardinalityType DEF InFlight, CutOff
  <1>3. /\ handed[d] \in Nat /\ attempts[d] \in Nat /\ faults \in Nat
        /\ handed[d] + out <= attempts[d] + in + faults * n
    BY BoundsAssumption DEF TypeOK, AccountInv
  <1>4. /\ handed'[d] \in Nat /\ attempts'[d] \in Nat /\ faults' \in Nat
    BY TypeStep, BoundsAssumption DEF TypeOK
  <1>5. (faults + 1) * n = faults * n + n /\ faults * n \in Nat
    BY <1>1, <1>3
  <1>6. ASSUME NEW w \in Tickers, Tick(w) \/ Detach(w)
        PROVE  handed'[d] + out' <= attempts'[d] + in' + faults' * n
    <2>1. /\ faults' \in {faults, faults + 1}
          /\ handed'[d] + One(w \in CutOff(d)') + One(w \in InFlight(d))
                + attempts[d] + faults
                <= handed[d] + One(w \in CutOff(d)) + One(w \in InFlight(d)')
                     + attempts'[d] + faults'
      BY <1>6, TickPays
    <2>2. /\ in' \in Nat
          /\ in' + One(w \in InFlight(d)) = in + One(w \in InFlight(d)')
      BY <1>2, <1>6, OthersStay, OneElement
    <2>3. /\ out' \in Nat
          /\ out' + One(w \in CutOff(d)) = out + One(w \in CutOff(d)')
      BY <1>2, <1>6, OthersStay, OneElement
    <2>4. /\ One(w \in InFlight(d)) \in Nat /\ One(w \in InFlight(d)') \in Nat
          /\ One(w \in CutOff(d)) \in Nat /\ One(w \in CutOff(d)') \in Nat
      BY DEF One
    <2>5. faults' * n >= faults * n + (faults' - faults)
      BY <1>1, <1>3, <1>5, <2>1
    <2>6. faults' * n \in Nat
      BY <1>1, <1>3, <1>5, <2>1
    <2> HIDE DEF n, in, out
    <2> QED
      BY <1>1, <1>2, <1>3, <1>4, <1>5, <2>1, <2>2, <2>3, <2>4, <2>5, <2>6
  <1>7. CASE Crash
    <2>1. /\ InFlight(d)' = {} /\ CutOff(d)' = {}
          /\ handed' = handed /\ attempts' = attempts /\ faults' = faults + 1
      BY <1>7 DEF Crash, InFlight, CutOff, TakenOver, tableVars
    <2>2. in' = 0 /\ out' = 0
      BY <2>1, FS_EmptySet
    <2> HIDE DEF n, in, out
    <2> QED
      BY <1>1, <1>2, <1>3, <1>5, <2>1, <2>2 DEF n, in, out
  <1>8. CASE /\ ~ \E w \in Tickers : Tick(w) \/ Detach(w)
             /\ ~Crash
    <2>1. UNCHANGED <<attempts, tickVars, handed, faults>>
      BY <1>8 DEF Next, vars, Enqueue, BecomeDue, UpsertTarget, DeleteTarget,
                  PutAppConfig, tableVars, configVars, tickVars
    <2>2. InFlight(d)' = InFlight(d) /\ CutOff(d)' = CutOff(d)
      BY <2>1 DEF InFlight, CutOff, TakenOver, Current, tickVars
    <2> QED
      BY <1>3, <2>1, <2>2
  <1> QED
    BY <1>6, <1>7, <1>8

\* Each hand-over of a row is counted in its attempts, is in flight, or was lost
\* to a fault, however many ticks overlap (poll.go:54-63).
THEOREM HandOversAreCounted ==
    ASSUME IsFiniteSet(Tickers)
    PROVE  Spec => []HandOversAreAccounted
  <1>1. Init => AccountInv
    <2> SUFFICES ASSUME Init, NEW d \in Deliveries
                 PROVE  handed[d] + Cardinality(CutOff(d)) <=
                          attempts[d] + Cardinality(InFlight(d))
                            + faults * Cardinality(Tickers)
      BY DEF AccountInv
    <2>1. CutOff(d) = {} /\ InFlight(d) = {} /\ handed[d] = 0 /\ attempts[d] = 0
            /\ faults = 0
      BY DEF Init, CutOff, InFlight
    <2>2. Cardinality(Tickers) \in Nat
      BY FS_CardinalityType
    <2>3. faults * Cardinality(Tickers) = 0
      BY <2>1, <2>2
    <2> QED
      BY <2>1, <2>3, FS_EmptySet
  <1>2. ASSUME TypeOK, AccountInv PROVE HandOversAreAccounted
    <2> SUFFICES ASSUME NEW d \in Deliveries
                 PROVE  handed[d] <= attempts[d] + Cardinality(InFlight(d))
                          + faults * Cardinality(Tickers)
      BY DEF HandOversAreAccounted
    <2>1. /\ Cardinality(CutOff(d)) \in Nat /\ Cardinality(InFlight(d)) \in Nat
          /\ Cardinality(Tickers) \in Nat
      BY FS_Subset, FS_CardinalityType DEF CutOff, InFlight
    <2>2. handed[d] \in Nat /\ attempts[d] \in Nat /\ faults \in Nat
      BY <1>2, BoundsAssumption DEF TypeOK
    <2>3. handed[d] + Cardinality(CutOff(d)) <=
            attempts[d] + Cardinality(InFlight(d)) + faults * Cardinality(Tickers)
      BY <1>2 DEF AccountInv
    <2>4. faults * Cardinality(Tickers) \in Nat
      BY <2>1, <2>2
    <2> QED
      BY <2>1, <2>2, <2>3, <2>4
  <1> QED
    BY <1>1, <1>2, TypeInit, TypeStep, AccountStep, PTL DEF Spec

-----------------------------------------------------------------------------
(* How far overlapping ticks can overspend.                                *)

\* The highest limit that can be configured, if there is one.
HighestLimit == CHOOSE m \in AttemptLimits : \A k \in AttemptLimits : k <= m

\* The ticks whose snapshot of row d lets them queue it again, if their limit
\* is the highest, and those whose snapshot makes them settle it.
Requeuers(d) ==
    {w \in Tickers : \E r \in batch[w] :
        r.id = d /\ r.attempts + 1 < HighestLimit}

Settlers(d) ==
    {w \in Tickers : \E r \in batch[w] :
        r.id = d /\ r.attempts + 1 >= HighestLimit}

\* How many marks of row d may still come once no new snapshot lets a tick
\* queue it again.  With k requeuers, each of them queues it once, so that the
\* T - k + 1 others can read it and mark it too, then T - k + 2, ..., then T.
\* Until then mark it only those who have read it, or may read it now.
MarksLeft(d) ==
    LET T == Cardinality(Tickers)
        k == Cardinality(Requeuers(d))
    IN  k + (Triangle(T) - Triangle(T - k))
          + IF Settled(d) THEN Cardinality(Settlers(d)) ELSE T - k

\* What makes AttemptsBounded inductive: a tick has one snapshot of a row, and
\* near the limit the attempts made and those that may come add up to the bound.
OverspendInv ==
    \A d \in Deliveries :
        /\ \A w \in Tickers : \A r, s \in batch[w] : r.id = s.id => r = s
        /\ attempts[d] + 1 >= HighestLimit =>
              attempts[d] + MarksLeft(d) <= HighestLimit + OverlapSlack

LEMMA TriangleStep ==
    ASSUME NEW n \in Nat
    PROVE  /\ Triangle(n) \in Nat /\ Triangle(n) >= n
           /\ Triangle(n + 1) = Triangle(n) + n + 1
  <1> DEFINE x == n * (n + 1)
  <1>1. x \in Nat /\ x >= 2 * n
    <2>1. CASE n = 0
      BY <2>1
    <2>2. CASE n >= 1
      <3>1. n * n >= n /\ x = n * n + n
        BY <2>2
      <3> QED
        BY <3>1
    <2> QED
      BY <2>1, <2>2
  <1>2. (n + 1) * ((n + 1) + 1) = x + 2 * (n + 1)
    OBVIOUS
  <1> HIDE DEF x
  <1>3. (x + 2 * (n + 1)) \div 2 = (x \div 2) + n + 1
    BY <1>1
  <1> QED
    BY <1>1, <1>2, <1>3 DEF Triangle, x

LEMMA TriangleGrows ==
    ASSUME NEW m \in Nat, NEW n \in Nat, m <= n
    PROVE  Triangle(m) <= Triangle(n)
  <1> DEFINE x == m * (m + 1)
             y == n * (n + 1)
  <1>1. x \in Nat /\ y \in Nat /\ x <= y
    <2>1. m * m <= n * n
      OBVIOUS
    <2>2. x = m * m + m /\ y = n * n + n
      OBVIOUS
    <2>3. m * m \in Nat /\ n * n \in Nat
      OBVIOUS
    <2> QED
      BY <2>1, <2>2, <2>3
  <1> HIDE DEF x, y
  <1>2. x \div 2 <= y \div 2
    BY <1>1
  <1> QED
    BY <1>2 DEF Triangle, x, y

\* A set of numbers that does not grow for ever has a highest one.
LEMMA BoundedHasHighest ==
    ASSUME NEW S \in SUBSET Nat, S # {}, NEW b \in Nat, \A m \in S : m <= b
    PROVE  \E m \in S : \A k \in S : k <= m
  <1> DEFINE Bounds == {n \in Nat : \A m \in S : m <= n}
  <1>1. Bounds \subseteq Nat /\ b \in Bounds
    OBVIOUS
  <1>2. PICK n \in Bounds : \A k \in Bounds : ~(<<k, n>> \in OpToRel(<, Nat))
    BY <1>1, WFMin, NatLessThanWellFounded
  <1>3. \A k \in Bounds : ~(k < n)
    BY <1>2 DEF OpToRel
  <1>4. n \in S
    <2> SUFFICES ASSUME n \notin S PROVE FALSE
      OBVIOUS
    <2>1. \A m \in S : m <= n /\ m # n
      BY <1>2
    <2>2. PICK m \in S : TRUE
      OBVIOUS
    <2>3. n \in Nat /\ n - 1 \in Nat
      BY <2>1, <2>2
    <2>4. \A k \in S : k <= n - 1
      BY <2>1, <2>3
    <2>5. n - 1 \in Bounds /\ n - 1 < n
      BY <2>3, <2>4
    <2> QED
      BY <1>3, <2>5
  <1> QED
    BY <1>2, <1>4

\* What the theorem is about: the limits have a highest one.
LEMMA HighestLimitIsOne ==
    ASSUME \E m \in AttemptLimits : \A k \in AttemptLimits : k <= m
    PROVE  /\ HighestLimit \in AttemptLimits /\ HighestLimit \in Nat \ {0}
           /\ \A k \in AttemptLimits : k <= HighestLimit
  BY LimitsAreNatural DEF HighestLimit

\* Two disjoint sets of ticks have no more ticks than there are.
LEMMA DividedTicks ==
    ASSUME IsFiniteSet(Tickers), NEW R \in SUBSET Tickers,
           NEW S \in SUBSET Tickers, R \cap S = {}
    PROVE  /\ IsFiniteSet(R) /\ IsFiniteSet(S)
           /\ Cardinality(R) \in Nat /\ Cardinality(S) \in Nat
           /\ Cardinality(Tickers) \in Nat \ {0}
           /\ Cardinality(R) + Cardinality(S) <= Cardinality(Tickers)
  <1>1. IsFiniteSet(R) /\ IsFiniteSet(S)
    BY FS_Subset
  <1>2. Cardinality(R \cup S) = Cardinality(R) + Cardinality(S) - 0
    BY <1>1, FS_Union, FS_EmptySet
  <1>3. Cardinality(Tickers) \in Nat \ {0}
    BY LoopAssumption, FS_CardinalityType, FS_EmptySet
  <1>4. R \cup S \subseteq Tickers
    OBVIOUS
  <1>5. Cardinality(R \cup S) <= Cardinality(Tickers)
    BY <1>4, FS_Subset
  <1> QED
    BY <1>1, <1>2, <1>3, <1>5, FS_CardinalityType

\* A tick reads a row once, so it never has two snapshots of it.
OneSnapshot == \A w \in Tickers : \A r, s \in batch[w] : r.id = s.id => r = s

\* No tick is both a requeuer and a settler of a row.
DividedSnapshots(d) ==
    /\ Requeuers(d) \in SUBSET Tickers /\ Settlers(d) \in SUBSET Tickers
    /\ Requeuers(d) \cap Settlers(d) = {}

LEMMA SnapshotsAreDivided ==
    ASSUME TypeOK, OneSnapshot, NEW d \in Deliveries, HighestLimit \in Nat
    PROVE  DividedSnapshots(d)
  <1>1. \A w \in Tickers : \A r \in batch[w] : r.attempts \in Nat
    BY DEF TypeOK, Row
  <1> QED
    BY <1>1 DEF OneSnapshot, DividedSnapshots, Requeuers, Settlers

LEMMA SnapshotsStayDivided ==
    ASSUME TypeOK', OneSnapshot', NEW d \in Deliveries, HighestLimit \in Nat
    PROVE  DividedSnapshots(d)'
  <1>1. \A w \in Tickers : \A r \in batch'[w] : r.attempts \in Nat
    BY DEF TypeOK, Row
  <1> QED
    BY <1>1 DEF OneSnapshot, DividedSnapshots, Requeuers, Settlers

\* A step that leaves the count of a row alone brings no requeuer near the
\* limit, and no settler to a row that is settled.
Quiet(d) ==
    /\ attempts'[d] = attempts[d]
    /\ Settled(d)' = Settled(d)
    /\ attempts[d] + 1 >= HighestLimit => Requeuers(d)' \subseteq Requeuers(d)
    /\ Settled(d) => Settlers(d)' \subseteq Settlers(d)

\* The mark of a tick takes the row of one snapshot one attempt further.
Counted(d) ==
    \E w \in Tickers : \E r \in batch[w] :
        /\ r.id = d
        /\ attempts'[d] = attempts[d] + 1
        /\ Requeuers(d)' = Requeuers(d) \ {w}
        /\ Settlers(d)' = Settlers(d) \ {w}
        /\ r.attempts + 1 >= HighestLimit => Settled(d)'

\* A step that only takes snapshots away is a quiet one.
LEMMA NarrowedIsQuiet ==
    ASSUME NEW d \in Deliveries, attempts'[d] = attempts[d],
           status'[d] = status[d] \/ (~Settled(d) /\ ~Settled(d)'),
           \A v \in Tickers : batch'[v] \subseteq batch[v]
    PROVE  Quiet(d)
  BY DEF Quiet, Settled, Requeuers, Settlers

LEMMA ReadDueIsQuiet ==
    ASSUME TypeOK, NEW w \in Tickers, ReadDue(w), NEW d \in Deliveries,
           HighestLimit \in Nat
    PROVE  Quiet(d)
  <1>1. /\ attempts' = attempts /\ status' = status
        /\ \A v \in Tickers : v # w => batch'[v] = batch[v]
        /\ batch'[w] = {[id |-> e, attempts |-> attempts[e]] : e \in DueDeliveries}
    BY DEF ReadDue, tableVars, TypeOK
  <1>2. \A r \in batch'[w] : r.id = d =>
            r.attempts = attempts[d] /\ status[d] = "queued"
    BY <1>1, DueAreQueued
  <1>3. Settled(d)' = Settled(d) /\ attempts[d] \in Nat
    BY <1>1 DEF Settled, TypeOK
  <1>4. ASSUME attempts[d] + 1 >= HighestLimit
        PROVE  Requeuers(d)' \subseteq Requeuers(d)
    <2> SUFFICES ASSUME NEW v \in Tickers, NEW r \in batch'[v], r.id = d,
                        r.attempts + 1 < HighestLimit
                 PROVE  r \in batch[v]
      BY DEF Requeuers
    <2>1. v # w
      BY <1>2, <1>3, <1>4
    <2> QED
      BY <1>1, <2>1
  <1>5. ASSUME Settled(d)
        PROVE  Settlers(d)' \subseteq Settlers(d)
    <2> SUFFICES ASSUME NEW v \in Tickers, NEW r \in batch'[v], r.id = d
                 PROVE  r \in batch[v]
      BY DEF Settlers
    <2>1. v # w
      BY <1>2, <1>5 DEF Settled
    <2> QED
      BY <1>1, <2>1
  <1> QED
    BY <1>1, <1>3, <1>4, <1>5 DEF Quiet

LEMMA MarkIsCounted ==
    ASSUME TypeOK, TicksAreSound, OneSnapshot, NEW d \in Deliveries,
           HighestLimit \in Nat, \A k \in AttemptLimits : k <= HighestLimit,
           NEW w \in Tickers, NEW r \in batch[w], r.id = d, MarkOf(w, r)
    PROVE  Counted(d)
  <1>1. /\ r.attempts \in Nat /\ attempts'[d] = attempts[d] + 1
        /\ r \notin batch'[w]
        /\ \A v \in Tickers : batch'[v] \subseteq batch[v]
    BY MarkMovesOneRow
  <1>2. \A v \in Tickers : v # w => batch'[v] = batch[v]
    BY DEF MarkOf, NextRow, TypeOK
  <1>3. \A s \in batch[w] : s.id = d => s = r
    BY DEF OneSnapshot
  <1>4. \A s \in batch'[w] : s.id # d
    BY <1>1, <1>3
  <1>5. Requeuers(d)' = Requeuers(d) \ {w}
    BY <1>2, <1>4 DEF Requeuers
  <1>6. Settlers(d)' = Settlers(d) \ {w}
    BY <1>2, <1>4 DEF Settlers
  <1>7. ASSUME r.attempts + 1 >= HighestLimit
        PROVE  Settled(d)'
    <2>1. limit[w] <= HighestLimit /\ limit[w] \in Nat
      BY DEF TicksAreSound, TypeOK
    <2>2. ~(r.attempts + 1 < limit[w])
      BY <1>1, <1>7, <2>1
    <2>3. status'[d] \in {"delivered", "failed"}
      BY <2>2 DEF MarkOf, TypeOK
    <2> QED
      BY <2>3 DEF Settled
  <1> QED
    BY <1>1, <1>5, <1>6, <1>7 DEF Counted

LEMMA StepsAreQuietOrCounted ==
    ASSUME TypeOK, TicksAreSound, OneSnapshot, [Next]_vars,
           HighestLimit \in Nat, \A k \in AttemptLimits : k <= HighestLimit,
           NEW d \in Deliveries
    PROVE  Quiet(d) \/ Counted(d)
  <1>1. CASE \E w \in Tickers : Mark(w)
    <2>1. PICK w \in Tickers : Mark(w)
      BY <1>1
    <2>2. PICK r \in batch[w] : MarkOf(w, r)
      BY <2>1, MarkEffect
    <2>3. CASE r.id = d
      BY <2>2, <2>3, MarkIsCounted
    <2>4. CASE r.id # d
      <3>1. /\ attempts'[d] = attempts[d] /\ status'[d] = status[d]
            /\ \A v \in Tickers : batch'[v] \subseteq batch[v]
        BY <2>2, <2>4, MarkMovesOneRow
      <3> QED
        BY <3>1, NarrowedIsQuiet
    <2> QED
      BY <2>3, <2>4
  <1>2. CASE \E w \in Tickers : ReadDue(w)
    BY <1>2, ReadDueIsQuiet
  <1>3. CASE \E w \in Tickers : Tick(w) /\ ~Mark(w) /\ ~ReadDue(w)
    <2>1. /\ attempts'[d] = attempts[d] /\ status'[d] = status[d]
          /\ \A v \in Tickers : batch'[v] \subseteq batch[v]
      BY <1>3, OtherTickSteps DEF tableVars
    <2> QED
      BY <2>1, NarrowedIsQuiet
  <1>4. CASE \E e \in Deliveries : Enqueue(e)
    <2>1. PICK e \in Deliveries : Enqueue(e)
      BY <1>4
    <2>2. /\ attempts'[d] = attempts[d]
          /\ status'[d] = status[d] \/ (~Settled(d) /\ ~Settled(d)')
          /\ \A v \in Tickers : batch'[v] \subseteq batch[v]
      BY <2>1 DEF Enqueue, TypeOK, tickVars, Settled
    <2> QED
      BY <2>2, NarrowedIsQuiet
  <1>5. CASE /\ ~ \E w \in Tickers : Tick(w)
             /\ ~ \E e \in Deliveries : Enqueue(e)
    <2>1. /\ attempts'[d] = attempts[d] /\ status'[d] = status[d]
          /\ \A v \in Tickers : batch'[v] \subseteq batch[v]
      BY <1>5, OutsideSteps
    <2> QED
      BY <2>1, NarrowedIsQuiet
  <1> QED
    BY <1>1, <1>2, <1>3, <1>4, <1>5

\* The next read has one snapshot of each row, too.
LEMMA OneSnapshotStep ==
    ASSUME TypeOK, OneSnapshot, [Next]_vars
    PROVE  OneSnapshot'
  <1>1. CASE \A v \in Tickers : batch'[v] \subseteq batch[v]
    BY <1>1 DEF OneSnapshot
  <1>2. CASE \E w \in Tickers : ReadDue(w)
    <2>1. PICK w \in Tickers : ReadDue(w)
      BY <1>2
    <2>2. /\ \A v \in Tickers : v # w => batch'[v] = batch[v]
          /\ batch'[w] = {[id |-> e, attempts |-> attempts[e]] : e \in DueDeliveries}
      BY <2>1 DEF ReadDue, TypeOK
    <2> QED
      BY <2>2 DEF OneSnapshot
  <1>3. CASE \E w \in Tickers : Mark(w)
    BY <1>1, <1>3, MarkEffect, MarkMovesOneRow
  <1>4. CASE \E w \in Tickers : Tick(w) /\ ~Mark(w) /\ ~ReadDue(w)
    BY <1>1, <1>4, OtherTickSteps
  <1>5. CASE \E e \in Deliveries : Enqueue(e)
    BY <1>1, <1>5 DEF Enqueue, tickVars
  <1>6. CASE /\ ~ \E w \in Tickers : Tick(w)
             /\ ~ \E e \in Deliveries : Enqueue(e)
    BY <1>1, <1>6, OutsideSteps
  <1> QED
    BY <1>2, <1>3, <1>4, <1>5, <1>6

\* One step of the sum that OverspendInv bounds: T ticks, of which k may queue
\* the row again and j settle it.
Sum(a, k, j, settled) ==
    LET T == Cardinality(Tickers)
    IN  a + (k + (Triangle(T) - Triangle(T - k)) + IF settled THEN j ELSE T - k)

LEMMA SumFalls ==
    ASSUME Cardinality(Tickers) \in Nat \ {0}, NEW a \in Nat,
           NEW k \in Nat, NEW j \in Nat, k + j <= Cardinality(Tickers),
           NEW l \in Nat, NEW i \in Nat, l + i <= Cardinality(Tickers),
           NEW before \in BOOLEAN, NEW after \in BOOLEAN,
           NEW b \in Nat, NEW bound \in Int, Sum(a, k, j, before) <= bound,
           \/ /\ b = a /\ l <= k /\ after = before
              /\ before => i <= j
           \/ /\ b = a + 1 /\ k = l + 1 /\ i <= Cardinality(Tickers) - l
           \/ b = a + 1 /\ k = l /\ j = i + 1 /\ after = TRUE
    PROVE  Sum(b, l, i, after) <= bound
  <1> DEFINE T == Cardinality(Tickers)
  <1>1. /\ T - k \in Nat /\ T - l \in Nat /\ T \in Nat
        /\ Triangle(T) \in Nat /\ Triangle(T - k) \in Nat
        /\ Triangle(T - l) \in Nat
        /\ Triangle((T - k) + 1) = Triangle(T - k) + (T - k) + 1
    BY TriangleStep
  <1> DEFINE tT == Triangle(T)
             tk == Triangle(T - k)
             tl == Triangle(T - l)
  <1>2. l <= k => tk <= tl
    BY <1>1, TriangleGrows
  <1>3. k = l + 1 => tl = tk + (T - k) + 1
    BY <1>1
  <1>4. /\ Sum(b, l, i, after) = b + (l + (tT - tl) + IF after THEN i ELSE T - l)
        /\ Sum(a, k, j, before) = a + (k + (tT - tk) + IF before THEN j ELSE T - k)
    BY DEF Sum
  <1>5. tT \in Nat /\ tk \in Nat /\ tl \in Nat /\ T \in Nat
    BY <1>1
  <1> HIDE DEF T, tT, tk, tl
  <1>6. k + j <= T /\ l + i <= T
    BY DEF T
  <1>7. CASE b = a /\ l <= k /\ after = before /\ (before => i <= j)
    BY <1>2, <1>4, <1>5, <1>6, <1>7
  <1>8. CASE b = a + 1 /\ k = l + 1
    BY <1>3, <1>4, <1>5, <1>6, <1>8
  <1>9. CASE b = a + 1 /\ k = l /\ j = i + 1 /\ after = TRUE
    <2>1. tk = tl
      BY <1>9 DEF tk, tl
    <2> QED
      BY <2>1, <1>4, <1>5, <1>6, <1>9
  <1> QED
    BY <1>7, <1>8, <1>9

LEMMA SlackIsNatural ==
    ASSUME Cardinality(Tickers) \in Nat \ {0}
    PROVE  OverlapSlack \in Nat
  BY TriangleStep DEF OverlapSlack

\* When the limit comes near, one tick fewer than all may still queue the row.
LEMMA SumBegins ==
    ASSUME Cardinality(Tickers) \in Nat \ {0}, NEW a \in Nat, NEW H \in Nat,
           NEW k \in Nat, NEW j \in Nat, k + j <= Cardinality(Tickers),
           NEW settled \in BOOLEAN,
           a + 1 <= H, k < Cardinality(Tickers)
    PROVE  Sum(a, k, j, settled) <= H + OverlapSlack
  <1> DEFINE T == Cardinality(Tickers)
  <1>1. /\ T - k \in Nat /\ T \in Nat /\ Triangle(T) \in Nat
        /\ Triangle(T - k) \in Nat /\ Triangle(T - k) >= T - k
    BY TriangleStep
  <1> DEFINE tT == Triangle(T)
             tk == Triangle(T - k)
  <1>2. Sum(a, k, j, settled) = a + (k + (tT - tk) + IF settled THEN j ELSE T - k)
    BY DEF Sum
  <1>3. OverlapSlack = (T - 1) + tT - 1
    BY DEF OverlapSlack
  <1>4. /\ T \in Nat /\ tT \in Nat /\ tk \in Nat /\ tk >= T - k /\ k < T
        /\ k + j <= T
    BY <1>1
  <1> HIDE DEF T, tT, tk
  <1> QED
    BY <1>2, <1>3, <1>4

LEMMA OverspendStep ==
    ASSUME IsFiniteSet(Tickers), TypeOK, TypeOK', TicksAreSound, OneSnapshot,
           OneSnapshot', [Next]_vars, HighestLimit \in Nat,
           \A m \in AttemptLimits : m <= HighestLimit, NEW d \in Deliveries,
           attempts[d] + 1 >= HighestLimit =>
              attempts[d] + MarksLeft(d) <= HighestLimit + OverlapSlack
    PROVE  (attempts[d] + 1 >= HighestLimit =>
              attempts[d] + MarksLeft(d) <= HighestLimit + OverlapSlack)'
  <1> DEFINE T == Cardinality(Tickers)
             H == HighestLimit
             a == attempts[d]
             b == attempts'[d]
             k == Cardinality(Requeuers(d))
             j == Cardinality(Settlers(d))
             l == Cardinality(Requeuers(d)')
             i == Cardinality(Settlers(d)')
             before == Settled(d)
             after == Settled(d)'
  <1> SUFFICES ASSUME b + 1 >= H
               PROVE  b + MarksLeft(d)' <= H + OverlapSlack
    OBVIOUS
  <1>1. /\ Requeuers(d) \in SUBSET Tickers /\ Settlers(d) \in SUBSET Tickers
        /\ Requeuers(d) \cap Settlers(d) = {}
        /\ Requeuers(d)' \in SUBSET Tickers /\ Settlers(d)' \in SUBSET Tickers
        /\ Requeuers(d)' \cap Settlers(d)' = {}
    BY SnapshotsAreDivided, SnapshotsStayDivided DEF DividedSnapshots
  <1>2. /\ k \in Nat /\ j \in Nat /\ k + j <= T /\ T \in Nat \ {0}
        /\ IsFiniteSet(Requeuers(d)) /\ IsFiniteSet(Settlers(d))
    BY <1>1, DividedTicks
  <1>3. l \in Nat /\ i \in Nat /\ l + i <= T
    BY <1>1, DividedTicks
  <1>4. /\ a \in Nat /\ b \in Nat /\ before \in BOOLEAN /\ after \in BOOLEAN
    BY DEF TypeOK, Settled
  <1>5. /\ a + MarksLeft(d) = Sum(a, k, j, before)
        /\ b + MarksLeft(d)' = Sum(b, l, i, after)
    BY DEF Sum, MarksLeft
  <1>6. H \in Nat /\ OverlapSlack \in Nat /\ H + OverlapSlack \in Int
    BY <1>2, SlackIsNatural
  <1>7. CASE Quiet(d)
    <2>1. b = a /\ after = before /\ Requeuers(d)' \subseteq Requeuers(d)
      BY <1>7 DEF Quiet
    <2>2. l <= k
      BY <1>2, <2>1, FS_Subset
    <2>3. before => i <= j
      BY <1>2, <1>7, FS_Subset DEF Quiet
    <2>4. Sum(a, k, j, before) <= H + OverlapSlack
      BY <1>5, <2>1
    <2> HIDE DEF T, a, b, k, j, l, i, before, after
    <2>5. Sum(b, l, i, after) <= H + OverlapSlack
      BY <1>2, <1>3, <1>4, <1>6, <2>1, <2>2, <2>3, <2>4, SumFalls, ZenonT(60) DEF T
    <2> QED
      BY <1>5, <2>5
  <1>8. ASSUME NEW w \in Tickers, NEW r \in batch[w], r.id = d,
               b = a + 1, Requeuers(d)' = Requeuers(d) \ {w},
               Settlers(d)' = Settlers(d) \ {w},
               r.attempts + 1 >= HighestLimit => after
        PROVE  b + MarksLeft(d)' <= H + OverlapSlack
    <2>1. r.attempts \in Nat /\ b = a + 1
      BY <1>8 DEF TypeOK, Row
    <2>2. CASE a + 1 < H
      <3>1. Requeuers(d)' \subseteq Tickers \ {w}
        BY <1>1, <1>8
      <3>2. IsFiniteSet(Tickers \ {w}) /\ Cardinality(Tickers \ {w}) = T - 1
        BY FS_RemoveElement
      <3>3. l <= T - 1
        BY <3>1, <3>2, FS_Subset
      <3>4. b + 1 <= H /\ l < T
        BY <1>2, <1>3, <1>4, <1>8, <2>2, <3>3
      <3> HIDE DEF T, a, b, k, j, l, i, before, after
      <3> QED
        BY <1>2, <1>3, <1>4, <1>5, <3>4, SumBegins DEF T
    <2>3. CASE a + 1 >= H /\ r.attempts + 1 < H
      <3>1. w \in Requeuers(d)
        BY <1>8, <2>3 DEF Requeuers
      <3>2. l = k - 1
        <4>1. Cardinality(Requeuers(d) \ {w}) = Cardinality(Requeuers(d)) - 1
          BY <1>2, <3>1, FS_RemoveElement, ZenonT(30)
        <4> QED
          BY <1>8, <4>1, ZenonT(30)
      <3>3. Sum(a, k, j, before) <= H + OverlapSlack
        BY <1>5, <2>3
      <3> HIDE DEF T, a, b, k, j, l, i, before, after
      <3>4. k = l + 1 /\ i <= T - l
        BY <1>2, <1>3, <3>2
      <3>5. Sum(b, l, i, after) <= H + OverlapSlack
        BY <1>2, <1>3, <1>4, <1>6, <2>1, <3>3, <3>4, SumFalls, ZenonT(60) DEF T
      <3> QED
        BY <1>5, <3>5
    <2>4. CASE a + 1 >= H /\ r.attempts + 1 >= H
      <3>1. w \in Settlers(d)
        BY <1>8, <2>4 DEF Settlers
      <3>2. i = j - 1
        <4>1. Cardinality(Settlers(d) \ {w}) = Cardinality(Settlers(d)) - 1
          BY <1>2, <3>1, FS_RemoveElement, ZenonT(30)
        <4> QED
          BY <1>8, <4>1, ZenonT(30)
      <3>3. Requeuers(d)' = Requeuers(d)
        BY <1>1, <1>8, <3>1
      <3>4. k = l
        BY <3>3
      <3>5. Sum(a, k, j, before) <= H + OverlapSlack
        BY <1>5, <2>4
      <3>6. after = TRUE
        BY <1>4, <1>8, <2>4
      <3> HIDE DEF T, a, b, k, j, l, i, before, after
      <3>7. j = i + 1
        BY <1>2, <1>3, <3>2
      <3>8. Sum(b, l, i, after) <= H + OverlapSlack
        BY <1>2, <1>3, <1>4, <1>6, <2>1, <3>4, <3>5, <3>6, <3>7, SumFalls,
           ZenonT(60) DEF T
      <3> QED
        BY <1>5, <3>8
    <2> QED
      BY <1>4, <2>1, <2>2, <2>3, <2>4
  <1>9. CASE Counted(d)
    BY <1>8, <1>9 DEF Counted
  <1> QED
    BY <1>7, <1>9, StepsAreQuietOrCounted

LEMMA OverspendInit ==
    ASSUME IsFiniteSet(Tickers), HighestLimit \in Nat \ {0}, Init,
           NEW d \in Deliveries
    PROVE  attempts[d] + 1 >= HighestLimit =>
              attempts[d] + MarksLeft(d) <= HighestLimit + OverlapSlack
  <1>1. /\ attempts[d] = 0 /\ Settled(d) \in BOOLEAN
        /\ Requeuers(d) = {} /\ Settlers(d) = {}
    BY DEF Init, Settled, Requeuers, Settlers
  <1>2. Cardinality(Tickers) \in Nat \ {0} /\ Cardinality({}) = 0
    BY LoopAssumption, FS_CardinalityType, FS_EmptySet
  <1>3. Sum(0, 0, 0, Settled(d)) <= HighestLimit + OverlapSlack
    BY <1>1, <1>2, SumBegins
  <1>4. attempts[d] + MarksLeft(d) = Sum(0, 0, 0, Settled(d))
    BY <1>1, <1>2 DEF Sum, MarksLeft
  <1> QED
    BY <1>3, <1>4

LEMMA OneSnapshotInit == Init => OneSnapshot
  BY DEF Init, OneSnapshot

\* Near the limit of a row, the attempts made on it and the marks that
\* overlapping ticks may still bring stay within the bound
\* (store.go:359-373 name the row by its id alone).
THEOREM OverspendIsAccounted ==
    ASSUME IsFiniteSet(Tickers),
           \E m \in AttemptLimits : \A k \in AttemptLimits : k <= m
    PROVE  Spec => []OverspendInv
  <1> DEFINE Near == \A d \in Deliveries :
                       attempts[d] + 1 >= HighestLimit =>
                          attempts[d] + MarksLeft(d) <= HighestLimit + OverlapSlack
             Inv == QueueInv /\ OneSnapshot /\ Near
  <1>1. /\ HighestLimit \in Nat \ {0}
        /\ \A k \in AttemptLimits : k <= HighestLimit
    BY HighestLimitIsOne
  <1>2. Init => OneSnapshot /\ Near
    BY <1>1, OneSnapshotInit, OverspendInit
  <1>3. QueueInv /\ QueueInv' /\ OneSnapshot /\ Near /\ [Next]_vars
            => OneSnapshot' /\ Near'
    <2> SUFFICES ASSUME QueueInv, QueueInv', OneSnapshot, Near, [Next]_vars
                 PROVE  OneSnapshot' /\ Near'
      OBVIOUS
    <2>1. TypeOK /\ TypeOK' /\ TicksAreSound
      BY DEF QueueInv
    <2>2. OneSnapshot'
      BY <2>1, OneSnapshotStep
    <2>3. Near'
      <3> SUFFICES ASSUME NEW d \in Deliveries
                   PROVE  (attempts[d] + 1 >= HighestLimit =>
                             attempts[d] + MarksLeft(d)
                                <= HighestLimit + OverlapSlack)'
        OBVIOUS
      <3> QED
        BY <1>1, <2>1, <2>2, OverspendStep
    <2> QED
      BY <2>2, <2>3
  <1>4. OneSnapshot /\ Near => OverspendInv
    BY DEF OneSnapshot, OverspendInv
  <1> QED
    BY <1>2, <1>3, <1>4, QueueInvariant, PTL DEF Spec

\* The marks that may still come are not negative, and one of them is to come
\* for a row that is not settled.
LEMMA MarksLeftIsNatural ==
    ASSUME IsFiniteSet(Tickers), TypeOK, OneSnapshot, NEW d \in Deliveries,
           HighestLimit \in Nat
    PROVE  MarksLeft(d) \in Nat /\ (~Settled(d) => MarksLeft(d) > 0)
  <1> DEFINE T == Cardinality(Tickers)
             k == Cardinality(Requeuers(d))
             j == Cardinality(Settlers(d))
  <1>1. T \in Nat \ {0} /\ k \in Nat /\ j \in Nat /\ k + j <= T
    BY SnapshotsAreDivided, DividedTicks DEF DividedSnapshots
  <1>2. MarksLeft(d) = k + (Triangle(T) - Triangle(T - k))
                         + IF Settled(d) THEN j ELSE T - k
    BY DEF MarksLeft
  <1> HIDE DEF T, k, j
  <1>3. T - k \in Nat /\ T - k <= T /\ T \in Nat
    BY <1>1
  <1>4. /\ Triangle(T) \in Nat /\ Triangle(T - k) \in Nat
        /\ Triangle(T - k) <= Triangle(T)
    BY <1>3, TriangleStep, TriangleGrows
  <1> QED
    BY <1>1, <1>2, <1>3, <1>4

\* What is left of the bound: nothing of a row that is settled, one attempt of
\* a row that is queued.
RoomLeft ==
    \A d \in Deliveries :
        \E m \in AttemptLimits :
            /\ attempts[d] <= m + OverlapSlack
            /\ status[d] = "queued" => attempts[d] < m + OverlapSlack

\* If no limit is the highest, some limit is high enough for any number of
\* attempts.
LEMMA RoomStaysLeft ==
    ASSUME IsFiniteSet(Tickers)
    PROVE  Spec => []RoomLeft
  <1>1. Cardinality(Tickers) \in Nat \ {0}
    BY LoopAssumption, FS_CardinalityType, FS_EmptySet
  <1>2. OverlapSlack \in Nat
    BY <1>1, SlackIsNatural
  <1>3. CASE \E m \in AttemptLimits : \A k \in AttemptLimits : k <= m
    <2>1. HighestLimit \in AttemptLimits /\ HighestLimit \in Nat \ {0}
      BY <1>3, HighestLimitIsOne
    <2>2. TypeOK /\ OverspendInv => RoomLeft
      <3> SUFFICES ASSUME TypeOK, OverspendInv, NEW d \in Deliveries
                   PROVE  /\ attempts[d] <= HighestLimit + OverlapSlack
                          /\ status[d] = "queued" =>
                                attempts[d] < HighestLimit + OverlapSlack
        BY <2>1 DEF RoomLeft
      <3>1. attempts[d] \in Nat
        BY DEF TypeOK
      <3>2. CASE attempts[d] + 1 < HighestLimit
        BY <1>2, <2>1, <3>1, <3>2
      <3>3. CASE attempts[d] + 1 >= HighestLimit
        <4>1. attempts[d] + MarksLeft(d) <= HighestLimit + OverlapSlack
          BY <3>3 DEF OverspendInv
        <4>2. OneSnapshot
          BY DEF OverspendInv, OneSnapshot
        <4>3. /\ MarksLeft(d) \in Nat
              /\ status[d] = "queued" => MarksLeft(d) > 0
          BY <2>1, <4>2, MarksLeftIsNatural DEF Settled
        <4> QED
          BY <1>2, <2>1, <3>1, <4>1, <4>3
      <3> QED
        BY <2>1, <3>1, <3>2, <3>3
    <2> QED
      BY <1>3, <2>2, OverspendIsAccounted, TypeCorrect, PTL
  <1>4. CASE ~ \E m \in AttemptLimits : \A k \in AttemptLimits : k <= m
    <2>1. AttemptLimits \in SUBSET Nat /\ AttemptLimits # {}
      BY LimitsAreNatural DEF AttemptLimits
    <2>2. TypeOK => RoomLeft
      <3> SUFFICES ASSUME TypeOK, NEW d \in Deliveries
                   PROVE  \E m \in AttemptLimits : attempts[d] < m + OverlapSlack
        BY <1>2, <2>1 DEF RoomLeft, TypeOK
      <3>1. attempts[d] \in Nat
        BY DEF TypeOK
      <3>2. PICK m \in AttemptLimits : ~(m <= attempts[d])
        BY <1>4, <2>1, <3>1, BoundedHasHighest
      <3> QED
        BY <1>2, <2>1, <3>1, <3>2
    <2> QED
      BY <2>2, TypeCorrect, PTL
  <1> QED
    BY <1>3, <1>4

\* The attempts on a row are bounded, however many ticks overlap and in
\* whatever order they read and mark the row (poll.go:57-62,
\* store.go:359-373).
THEOREM AttemptsStayBounded ==
    ASSUME IsFiniteSet(Tickers)
    PROVE  Spec => []AttemptsBounded
  <1>1. RoomLeft => AttemptsBounded
    BY DEF RoomLeft, AttemptsBounded
  <1> QED
    BY <1>1, RoomStaysLeft, PTL
=============================================================================
