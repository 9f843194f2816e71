---------------------- MODULE DeliveryQueueAloneProofs ----------------------
(***************************************************************************)
(* What the queue guarantees when ticks do not overlap, the situation      *)
(* docs/delivery-queue.md:74 takes for granted: the loop is the only       *)
(* ticker.  The theorems state that assumption; the rest of the instance   *)
(* is arbitrary.  The lifecycle, which lets overlapping ticks do more than *)
(* a lone one, is implemented by any finite set of tickers.                *)
(***************************************************************************)
EXTENDS DeliveryQueueProofs

Alone == Tickers = {Loop}

\* What a lone tick read of the rows it still has to mark is up to date, and
\* it read each row once.
UpToDate ==
    \A w \in Tickers : \A r \in batch[w] :
        /\ r.attempts = attempts[r.id]
        /\ \A s \in batch[w] : s.id = r.id => s = r

LEMMA UpToDateInit == Init => UpToDate
  BY DEF Init, UpToDate

LEMMA UpToDateStep ==
    ASSUME Alone
    PROVE  TypeOK /\ UpToDate /\ [Next]_vars => UpToDate'
  <1> SUFFICES ASSUME TypeOK, UpToDate, [Next]_vars,
                      NEW v \in Tickers, NEW r \in batch'[v]
               PROVE  /\ r.attempts = attempts'[r.id]
                      /\ \A s \in batch'[v] : s.id = r.id => s = r
    BY DEF UpToDate
  <1>1. ASSUME batch'[v] \subseteq batch[v], attempts' = attempts
        PROVE  /\ r.attempts = attempts'[r.id]
               /\ \A s \in batch'[v] : s.id = r.id => s = r
    BY <1>1 DEF UpToDate
  <1>2. CASE Mark(v)
    <2>1. PICK q \in batch[v] : MarkOf(v, q)
      BY <1>2, MarkEffect
    <2>2. r \in batch[v] /\ r # q /\ batch'[v] \subseteq batch[v]
      BY <2>1, MarkMovesOneRow
    <2>3. r.id # q.id /\ r.id \in Deliveries
      BY <2>2 DEF UpToDate, TypeOK, Row
    <2>4. attempts'[r.id] = attempts[r.id]
      BY <2>1, <2>3, MarkMovesOneRow
    <2> QED
      BY <2>2, <2>4 DEF UpToDate
  <1>3. CASE ReadDue(v)
    <2>1. /\ batch'[v] =
               {[id |-> d, attempts |-> attempts[d]] : d \in DueDeliveries}
          /\ attempts' = attempts
      BY <1>3 DEF ReadDue, TypeOK, tableVars
    <2> QED
      BY <2>1
  <1>4. CASE Tick(v) /\ ~Mark(v) /\ ~ReadDue(v)
    BY <1>1, <1>4, OtherTickSteps DEF tableVars
  <1>5. ASSUME NEW d \in Deliveries, Enqueue(d)
        PROVE  /\ r.attempts = attempts'[r.id]
               /\ \A s \in batch'[v] : s.id = r.id => s = r
    BY <1>1, <1>5 DEF Enqueue, tickVars
  <1>6. CASE /\ ~ \E w \in Tickers : Tick(w)
             /\ ~ \E d \in Deliveries : Enqueue(d)
    BY <1>1, <1>6, OutsideSteps
  <1> QED
    BY <1>2, <1>3, <1>4, <1>5, <1>6 DEF Alone

-----------------------------------------------------------------------------
(* The number of attempts.                                                 *)

\* A row that can be attempted once more is below some limit.
BelowLimit ==
    \A d \in Deliveries :
        status[d] \in {"absent", "queued"} =>
            \E m \in AttemptLimits : attempts[d] < m

LEMMA LimitInit == Init => BelowLimit /\ AttemptsWithinLimit
  <1> SUFFICES ASSUME Init PROVE BelowLimit /\ AttemptsWithinLimit
    OBVIOUS
  <1>1. DefaultMaxAttempts \in AttemptLimits /\ 0 < DefaultMaxAttempts
    BY AttemptsAssumption DEF AttemptLimits
  <1>2. \A d \in Deliveries : attempts[d] < DefaultMaxAttempts
    BY <1>1 DEF Init
  <1>3. \A d \in Deliveries : attempts[d] <= DefaultMaxAttempts
    BY <1>1, AttemptsAssumption DEF Init
  <1> QED
    BY <1>1, <1>2, <1>3 DEF BelowLimit, AttemptsWithinLimit

LEMMA AttemptsStep ==
    TypeOK /\ AttemptsVersionTheRow /\ TicksAreSound /\ UpToDate /\ BelowLimit
      /\ AttemptsWithinLimit /\ [Next]_vars
        => BelowLimit' /\ AttemptsWithinLimit'
  <1> SUFFICES ASSUME TypeOK, AttemptsVersionTheRow, TicksAreSound, UpToDate,
                      BelowLimit, AttemptsWithinLimit, [Next]_vars,
                      NEW d \in Deliveries
               PROVE  /\ status'[d] \in {"absent", "queued"} =>
                           \E m \in AttemptLimits : attempts'[d] < m
                      /\ \E m \in AttemptLimits : attempts'[d] <= m
    BY DEF BelowLimit, AttemptsWithinLimit, AttemptLimits, Effective
  <1>1. ASSUME status'[d] = status[d] \/ status[d] = "absent",
               attempts'[d] = attempts[d]
        PROVE  /\ status'[d] \in {"absent", "queued"} =>
                    \E m \in AttemptLimits : attempts'[d] < m
               /\ \E m \in AttemptLimits : attempts'[d] <= m
    BY <1>1 DEF BelowLimit, AttemptsWithinLimit
  <1>2. ASSUME NEW w \in Tickers, Mark(w)
        PROVE  /\ status'[d] \in {"absent", "queued"} =>
                    \E m \in AttemptLimits : attempts'[d] < m
               /\ \E m \in AttemptLimits : attempts'[d] <= m
    <2>1. PICK r \in batch[w] : MarkOf(w, r)
      BY <1>2, MarkEffect
    <2>2. CASE r.id # d
      BY <1>1, <2>1, <2>2, MarkMovesOneRow
    <2>3. CASE r.id = d
      <3>1. /\ status[d] = "queued"
            /\ attempts[d] \in Nat
            /\ r.attempts = attempts[d]
            /\ attempts'[d] = attempts[d] + 1
        BY <2>1, <2>3, MarkMovesOneRow
        DEF UpToDate, AttemptsVersionTheRow, TypeOK
      <3>2. PICK m \in AttemptLimits : attempts[d] < m
        BY <3>1 DEF BelowLimit
      <3>3. attempts'[d] <= m
        BY <3>1, <3>2, LimitsAreNatural
      <3>4. status'[d] \in {"absent", "queued"} => attempts'[d] < limit[w]
        BY <2>1, <2>3, <3>1 DEF MarkOf, TypeOK
      <3> QED
        BY <3>3, <3>4 DEF TicksAreSound
    <2> QED
      BY <2>2, <2>3
  <1>3. ASSUME NEW w \in Tickers, Tick(w), ~Mark(w)
        PROVE  /\ status'[d] \in {"absent", "queued"} =>
                    \E m \in AttemptLimits : attempts'[d] < m
               /\ \E m \in AttemptLimits : attempts'[d] <= m
    <2>1. UNCHANGED tableVars
      BY <1>3, OtherTickSteps DEF ReadDue
    <2> QED
      BY <1>1, <2>1 DEF tableVars
  <1>4. ASSUME NEW e \in Deliveries, Enqueue(e)
        PROVE  /\ status'[d] \in {"absent", "queued"} =>
                    \E m \in AttemptLimits : attempts'[d] < m
               /\ \E m \in AttemptLimits : attempts'[d] <= m
    BY <1>1, <1>4 DEF Enqueue, TypeOK
  <1>5. CASE /\ ~ \E w \in Tickers : Tick(w)
             /\ ~ \E e \in Deliveries : Enqueue(e)
    BY <1>1, <1>5, OutsideSteps
  <1> QED
    BY <1>2, <1>3, <1>4, <1>5

\* The invariant of a lone tick.
AloneInv == QueueInv /\ UpToDate /\ BelowLimit /\ AttemptsWithinLimit

LEMMA AloneInvariant ==
    ASSUME Alone
    PROVE  Spec => []AloneInv
  <1>1. Init => AloneInv
    BY TypeInit, VersionInit, SoundInit, DeliveredInit, GivenUpInit,
       UpToDateInit, LimitInit DEF AloneInv, QueueInv
  <1>2. AloneInv /\ [Next]_vars => AloneInv'
    BY TypeStep, VersionStep, SoundStep, DeliveredStep, GivenUpStep,
       UpToDateStep, AttemptsStep DEF AloneInv, QueueInv
  <1> QED
    BY <1>1, <1>2, PTL DEF Spec

\* When ticks do not overlap, max_attempts is the total number of attempts on
\* a delivery (docs/operations.md:65), read as the largest limit that the
\* configuration, as it was edited or as it failed to be read, allows.
THEOREM MaxAttemptsIsTheTotal ==
    ASSUME Alone
    PROVE  Spec => []AttemptsWithinLimit
  BY AloneInvariant, PTL DEF AloneInv

\* When ticks do not overlap, a queued row has attempts left
\* (docs/debugging.md:39).
THEOREM QueuedRowsCanBeAttempted ==
    ASSUME Alone
    PROVE  Spec => []QueuedHasAttemptsLeft
  <1>1. AloneInv => QueuedHasAttemptsLeft
    BY DEF AloneInv, BelowLimit, QueuedHasAttemptsLeft
  <1> QED
    BY <1>1, AloneInvariant, PTL

\* When ticks do not overlap, delivered and failed are terminal.
THEOREM TerminalMeansTerminal ==
    ASSUME Alone
    PROVE  Spec => SettledIsTerminal
  <1>1. AloneInv /\ [Next]_vars =>
          [\A d \in Deliveries : Settled(d) => status'[d] = status[d]]_vars
    <2> SUFFICES ASSUME AloneInv, [Next]_vars, NEW d \in Deliveries, Settled(d),
                        status'[d] # status[d]
                 PROVE  FALSE
      OBVIOUS
    <2> USE DEF AloneInv, QueueInv
    <2>1. ~ \E e \in Deliveries : Enqueue(e)
      BY DEF Enqueue, Settled, TypeOK
    <2>2. PICK w \in Tickers : Tick(w)
      BY <2>1, OutsideSteps
    <2>3. Mark(w)
      BY <2>2, OtherTickSteps DEF ReadDue, tableVars
    <2>4. PICK r \in batch[w] : MarkOf(w, r)
      BY <2>3, MarkEffect
    <2>5. r.id = d
      BY <2>4, MarkMovesOneRow
    <2>6. status[d] = "queued"
      BY <2>5 DEF UpToDate, AttemptsVersionTheRow
    <2> QED
      BY <2>6 DEF Settled
  <1> QED
    BY <1>1, AloneInvariant, PTL DEF Spec, SettledIsTerminal

-----------------------------------------------------------------------------
(* The queue implements its lifecycle.                                     *)

\* More than one ticker gives the attempts some slack, a lone one none.
LEMMA SlackMeansOverlap ==
    ASSUME IsFiniteSet(Tickers), ~Alone
    PROVE  OverlapSlack > 0
  <1> DEFINE T == Cardinality(Tickers)
  <1>1. PICK w \in Tickers : w # Loop
    BY LoopAssumption DEF Alone
  <1>2. /\ IsFiniteSet(Tickers \ {Loop}) /\ T \in Nat
        /\ Cardinality(Tickers \ {Loop}) = T - 1
    BY LoopAssumption, FS_RemoveElement, FS_CardinalityType
  <1>3. Cardinality(Tickers \ {Loop}) \in Nat \ {0}
    BY <1>1, <1>2, FS_CardinalityType, FS_EmptySet
  <1>4. T \in Nat /\ T >= 2
    BY <1>2, <1>3
  <1>5. Triangle(T) \in Nat /\ Triangle(T) >= T
    BY <1>4, TriangleStep
  <1>6. OverlapSlack = (T - 1) + Triangle(T) - 1
    BY DEF OverlapSlack
  <1> HIDE DEF T
  <1> QED
    BY <1>4, <1>5, <1>6

\* What the steps of the queue keep to.
LifecycleInv == QueueInv /\ RoomLeft /\ (Alone => UpToDate)

LEMMA LifecycleStep ==
    ASSUME IsFiniteSet(Tickers), LifecycleInv, RoomLeft', TypeOK', [Next]_vars
    PROVE  [Lifecycle!Next]_<<status, attempts>>
  <1> SUFFICES ASSUME ~ UNCHANGED <<status, attempts>>
               PROVE  Lifecycle!Next
    BY DEF Lifecycle!vars
  <1> USE DEF LifecycleInv, QueueInv
  <1>1. ASSUME NEW d \in Deliveries, Enqueue(d)
        PROVE  Lifecycle!Next
    BY <1>1 DEF Enqueue, Lifecycle!Enqueue, Lifecycle!Next
  <1>2. ASSUME NEW w \in Tickers, Mark(w)
        PROVE  Lifecycle!Next
    <2>1. PICK r \in batch[w] : MarkOf(w, r)
      BY <1>2, MarkEffect
    <2> DEFINE d == r.id
               n == r.attempts
    <2>2. /\ d \in Deliveries /\ n \in Nat /\ attempts[d] \in Nat
          /\ n <= attempts[d]
          /\ n = attempts[d] => status[d] = "queued"
      BY DEF TypeOK, Row, AttemptsVersionTheRow
    <2>3. attempts' = [attempts EXCEPT ![d] = @ + 1] /\ attempts'[d] = attempts[d] + 1
      BY <2>1, <2>2 DEF MarkOf, TypeOK
    <2>4. Lifecycle!Spend(d)
      <3>1. PICK m \in AttemptLimits : attempts'[d] <= m + OverlapSlack
        BY <2>2 DEF RoomLeft
      <3>2. m \in Nat /\ OverlapSlack \in Nat
        BY LimitsAreNatural, SlackIsNatural, LoopAssumption, FS_CardinalityType,
           FS_EmptySet
      <3>3. attempts[d] < m + OverlapSlack
        BY <2>2, <2>3, <3>1, <3>2
      <3> QED
        BY <2>3, <3>3 DEF Lifecycle!Spend, Lifecycle!Room
    <2>5. Lifecycle!Mark(d, n)
      <3>1. CASE status' = [status EXCEPT ![d] = "delivered"]
        BY <2>4, <3>1 DEF Lifecycle!Deliver, Lifecycle!Mark
      <3>2. CASE status' = [status EXCEPT ![d] = "failed"]
        BY <2>4, <3>2 DEF Lifecycle!GiveUp, Lifecycle!Mark
      <3>3. CASE status' = [status EXCEPT ![d] = "queued"] /\ n + 1 < limit[w]
        <4>1. \E m \in AttemptLimits : n + 1 < m
          BY <3>3 DEF TicksAreSound
        <4>2. status'[d] = "queued"
          BY <2>2, <3>3 DEF TypeOK
        <4>3. Lifecycle!Room(attempts'[d])
          BY <2>2, <4>2 DEF RoomLeft, Lifecycle!Room
        <4> QED
          BY <2>4, <3>3, <4>1, <4>3 DEF Lifecycle!TryLater, Lifecycle!Mark
      <3> QED
        BY <2>1, <3>1, <3>2, <3>3 DEF MarkOf
    <2>6. CASE n = attempts[d]
      BY <2>2, <2>5, <2>6 DEF Lifecycle!Attempt, Lifecycle!Next
    <2>7. CASE n # attempts[d]
      <3>1. ~Alone
        BY <2>7 DEF UpToDate
      <3>2. n \in 0 .. attempts[d] - 1
        BY <2>2, <2>7
      <3>3. OverlapSlack > 0
        BY <3>1, SlackMeansOverlap
      <3>4. Lifecycle!Overtaken(d)
        BY <2>5, <3>2, <3>3 DEF Lifecycle!Overtaken
      <3> QED
        BY <2>2, <3>4 DEF Lifecycle!Next
    <2> QED
      BY <2>6, <2>7
  <1>3. ASSUME NEW w \in Tickers, Tick(w), ~Mark(w)
        PROVE  FALSE
    BY <1>3, OtherTickSteps DEF ReadDue, tableVars
  <1>4. CASE /\ ~ \E w \in Tickers : Tick(w)
             /\ ~ \E e \in Deliveries : Enqueue(e)
    BY <1>4, OutsideSteps
  <1> QED
    BY <1>1, <1>2, <1>3, <1>4

\* However many ticks overlap, the columns status and attempts go through the
\* lifecycle of DeliveryLifecycle, step by step: a settled row is marked again
\* only by an attempt that another one has overtaken, and no attempt is made
\* past a limit and the slack of the tickers there are (poll.go:41-63,
\* store.go:359-373).
THEOREM QueueImplementsLifecycle ==
    ASSUME IsFiniteSet(Tickers)
    PROVE  Spec => Lifecycle!Spec
  <1>1. Init => Lifecycle!Init
    BY DEF Init, Lifecycle!Init
  <1>2. CASE Alone
    <2>1. AloneInv /\ RoomLeft => LifecycleInv
      BY DEF AloneInv, LifecycleInv
    <2> QED
      BY <1>1, <1>2, <2>1, AloneInvariant, RoomStaysLeft, TypeCorrect,
         LifecycleStep, PTL
      DEF Spec, Lifecycle!Spec, Lifecycle!vars
  <1>3. CASE ~Alone
    <2>1. QueueInv /\ RoomLeft => LifecycleInv
      BY <1>3 DEF LifecycleInv
    <2> QED
      BY <1>1, <2>1, QueueInvariant, RoomStaysLeft, TypeCorrect, LifecycleStep, PTL
      DEF Spec, Lifecycle!Spec, Lifecycle!vars
  <1> QED
    BY <1>2, <1>3

-----------------------------------------------------------------------------
(* How often a message goes out.                                           *)

\* The row that the loop is at.
At(d) == \E r \in batch[Loop] : Current(Loop, r) /\ r.id = d

\* The provider has taken d over, and its answer can still be recorded.
AnswerDue(d) == ~detached[Loop] /\ TakenOver(Loop) /\ At(d)

\* Every hand-over but one has cost a fault, and so has that one unless it is
\* recorded or can be.  A loop that was cut off before a hand-over has paid.
OnceInv ==
    \A d \in Deliveries :
        /\ handed[d] <= 1 + faults
        /\ status[d] = "delivered" \/ AnswerDue(d) \/ handed[d] <= faults
        /\ detached[Loop] /\ pc[Loop] = "send" /\ At(d) => handed[d] + 1 <= faults

\* Every step keeps to one hand-over for each fault, and one more.
LEMMA OnceStep ==
    ASSUME Alone, AloneInv, OnceInv, [Next]_vars
    PROVE  OnceInv'
  <1> USE DEF QueueInv
  <1>1. TypeOK /\ UpToDate /\ AttemptsVersionTheRow /\ TypeOK'
    BY TypeStep DEF AloneInv
  <1> SUFFICES ASSUME NEW d \in Deliveries
               PROVE  /\ handed'[d] <= 1 + faults'
                      /\ status'[d] = "delivered" \/ AnswerDue(d)'
                            \/ handed'[d] <= faults'
                      /\ detached'[Loop] /\ pc'[Loop] = "send" /\ At(d)' =>
                            handed'[d] + 1 <= faults'
    BY DEF OnceInv
  <1>2. /\ handed[d] <= 1 + faults
        /\ status[d] = "delivered" \/ AnswerDue(d) \/ handed[d] <= faults
        /\ detached[Loop] /\ pc[Loop] = "send" /\ At(d) => handed[d] + 1 <= faults
    BY DEF OnceInv
  <1>3. /\ handed \in [Deliveries -> Nat] /\ faults \in Nat
        /\ detached \in [Tickers -> BOOLEAN]
        /\ pc \in [Tickers -> {"idle", "due", "fetch", "send", "handed", "mark"}]
        /\ outcome \in [Tickers -> {"none", "ok", "error", "disabled"}]
        /\ Loop \in Tickers
    BY <1>1, BoundsAssumption, LoopAssumption DEF TypeOK
  <1>4. At(d) => status[d] = "queued"
    BY <1>1, <1>3 DEF At, UpToDate, AttemptsVersionTheRow
  <1>5. \A r \in batch[Loop] : Current(Loop, r) => (At(d) <=> r.id = d)
    BY <1>1, <1>3, OneCurrentRow DEF At
  <1>6. ASSUME UNCHANGED <<handed, status>>, faults' \in {faults, faults + 1},
               pc'[Loop] # "send" \/ ~detached'[Loop],
               AnswerDue(d) => faults' = faults + 1 \/ AnswerDue(d)'
        PROVE  /\ handed'[d] <= 1 + faults'
               /\ status'[d] = "delivered" \/ AnswerDue(d)' \/ handed'[d] <= faults'
               /\ detached'[Loop] /\ pc'[Loop] = "send" /\ At(d)' =>
                     handed'[d] + 1 <= faults'
    BY <1>2, <1>3, <1>6
  <1>7. CASE ReadConfig(Loop) \/ ReadDue(Loop) \/ ReadDueFails(Loop) \/ EndTick(Loop)
    <2>1. ~AnswerDue(d) /\ pc'[Loop] # "send"
      BY <1>3, <1>7 DEF ReadConfig, ReadDue, ReadDueFails, EndTick, Return, Goto,
                        AnswerDue, TakenOver
    <2>2. UNCHANGED <<handed, status>> /\ faults' \in {faults, faults + 1}
      BY <1>7 DEF ReadConfig, ReadDue, ReadDueFails, EndTick, Fault, tableVars
    <2> QED
      BY <1>6, <2>1, <2>2
  <1>8. CASE FetchTarget(Loop) \/ FetchTargetFails(Loop) \/ SendFails(Loop)
    <2>1. ~AnswerDue(d) /\ (pc'[Loop] # "send" \/ ~detached'[Loop])
      BY <1>3, <1>8 DEF FetchTarget, FetchTargetFails, SendFails, Decide, Goto,
                        AnswerDue, TakenOver
    <2>2. UNCHANGED <<handed, status>> /\ faults' \in {faults, faults + 1}
      BY <1>8 DEF FetchTarget, FetchTargetFails, SendFails, Fault, tableVars
    <2> QED
      BY <1>6, <2>1, <2>2
  <1>9. CASE HandOver(Loop)
    <2>1. PICK r \in batch[Loop] : /\ Current(Loop, r)
                                  /\ handed' = [handed EXCEPT ![r.id] = @ + 1]
      BY <1>9 DEF HandOver
    <2>2. /\ UNCHANGED <<batch, detached, faults, status>>
          /\ pc[Loop] = "send" /\ pc'[Loop] = "handed"
      BY <1>3, <1>9 DEF HandOver, Goto, tableVars
    <2>3. At(d)' = At(d)
      BY <2>2 DEF At, Current
    <2>4. ~AnswerDue(d) /\ (AnswerDue(d)' <=> ~detached[Loop] /\ At(d))
      BY <2>2, <2>3 DEF AnswerDue, TakenOver
    <2>5. handed'[d] = IF At(d) THEN handed[d] + 1 ELSE handed[d]
      BY <1>3, <1>5, <2>1
    <2> HIDE DEF At, AnswerDue
    <2> QED
      BY <1>2, <1>3, <1>4, <2>2, <2>4, <2>5
  <1>10. CASE SendSucceeds(Loop) \/ AnswerLost(Loop)
    <2>1. /\ UNCHANGED <<batch, detached, handed, status>>
          /\ pc[Loop] = "handed" /\ pc'[Loop] = "mark"
      BY <1>3, <1>10 DEF SendSucceeds, AnswerLost, Decide, Goto, tableVars
    <2>2. CASE SendSucceeds(Loop)
      <3>1. faults' = faults /\ AnswerDue(d)' = AnswerDue(d)
        BY <1>3, <2>1, <2>2
           DEF SendSucceeds, Decide, AnswerDue, At, Current, TakenOver
      <3> QED
        BY <1>6, <2>1, <3>1
    <2>3. CASE AnswerLost(Loop)
      <3>1. /\ faults' \in {faults, faults + 1}
            /\ AnswerDue(d) => faults' = faults + 1
        BY <2>3 DEF AnswerLost, Fault, AnswerDue
      <3> QED
        BY <1>6, <2>1, <3>1
    <2> QED
      BY <1>10, <2>2, <2>3
  <1>11. CASE Mark(Loop)
    <2>1. PICK r \in batch[Loop] : MarkOf(Loop, r)
      BY <1>3, <1>11, MarkEffect
    <2>2. /\ UNCHANGED <<handed, faults>>
          /\ pc[Loop] = "mark" /\ pc'[Loop] = "fetch"
      BY <1>3, <1>11, <2>1 DEF Mark, MarkOf, NextRow, Goto
    <2>3. At(d) <=> r.id = d
      BY <1>5, <2>1 DEF MarkOf
    <2>4. CASE r.id # d
      <3>1. status'[d] = status[d]
        BY <1>1, <1>3, <2>1, <2>4, MarkMovesOneRow
      <3>2. ~AnswerDue(d)
        BY <2>3, <2>4 DEF AnswerDue
      <3> QED
        BY <1>2, <1>3, <2>2, <3>1, <3>2
    <2>5. CASE r.id = d /\ outcome[Loop] = "ok"
      <3>1. status'[d] = "delivered"
        BY <1>1, <2>1, <2>5 DEF MarkOf, TypeOK
      <3> QED
        BY <1>2, <1>3, <2>2, <3>1
    <2>6. CASE r.id = d /\ outcome[Loop] # "ok"
      <3>1. ~AnswerDue(d) /\ status[d] = "queued"
        BY <1>4, <2>2, <2>3, <2>6 DEF AnswerDue, TakenOver
      <3> QED
        BY <1>2, <1>3, <2>2, <3>1
    <2> QED
      BY <2>4, <2>5, <2>6
  <1>12. CASE MarkIsLost(Loop)
    <2>1. /\ UNCHANGED <<handed, status>> /\ pc'[Loop] = "fetch"
          /\ faults' \in {faults, faults + 1}
          /\ AnswerDue(d) => faults' = faults + 1
      BY <1>3, <1>12 DEF MarkIsLost, NextRow, Goto, Fault, AnswerDue, tableVars
    <2> QED
      BY <1>6, <2>1
  <1>13. CASE Detach(Loop)
    <2>1. /\ UNCHANGED <<handed, status, pc, batch>> /\ faults' = faults + 1
          /\ At(d)' = At(d)
      BY <1>13 DEF Detach, Fault, tableVars, At, Current
    <2>2. pc[Loop] = "send" => ~AnswerDue(d)
      BY DEF AnswerDue, TakenOver
    <2> HIDE DEF At, AnswerDue
    <2> QED
      BY <1>2, <1>3, <1>4, <2>1, <2>2
  <1>14. CASE Crash
    <2>1. /\ UNCHANGED <<handed, status>> /\ faults' = faults + 1
          /\ pc'[Loop] = "idle"
      BY <1>3, <1>14 DEF Crash, tableVars
    <2> QED
      BY <1>6, <2>1
  <1>15. CASE /\ ~ \E w \in Tickers : Tick(w) \/ Detach(w)
              /\ ~Crash
    <2>1. UNCHANGED <<tickVars, handed, faults>>
      BY <1>15 DEF Next, vars, Enqueue, BecomeDue, UpsertTarget, DeleteTarget,
                   PutAppConfig, tableVars, configVars, tickVars
    <2>2. AnswerDue(d)' = AnswerDue(d) /\ At(d)' = At(d)
      BY <2>1 DEF AnswerDue, At, TakenOver, Current, tickVars
    <2>3. status[d] = "delivered" => status'[d] = "delivered"
      BY <1>1, <1>15 DEF Next, vars, Enqueue, BecomeDue, UpsertTarget, DeleteTarget,
                         PutAppConfig, tableVars, configVars, TypeOK
    <2> QED
      BY <1>2, <1>3, <2>1, <2>2, <2>3 DEF tickVars
  <1> QED
    BY <1>7, <1>8, <1>9, <1>10, <1>11, <1>12, <1>13, <1>14, <1>15 DEF Alone, Tick

\* When ticks do not overlap, a recipient gets a message once, plus once for each
\* crash, cut-off, lost answer and lost mark (poll.go:57-63).
THEOREM OncePlusFaults ==
    ASSUME Alone
    PROVE  Spec => []OneHandOverPerFault
  <1>1. Init => OnceInv
    BY LoopAssumption DEF Init, OnceInv, At
  <1>2. OnceInv => OneHandOverPerFault
    BY DEF OnceInv, OneHandOverPerFault
  <1> QED
    BY <1>1, <1>2, AloneInvariant, OnceStep, PTL DEF Spec
=============================================================================
