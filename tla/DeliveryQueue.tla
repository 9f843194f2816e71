--------------------------- MODULE DeliveryQueue ---------------------------
(***************************************************************************)
(* The delivery queue: the deliveries table of internal/store/store.go and *)
(* the poller of internal/poll/poll.go that drains it.                     *)
(*                                                                         *)
(* Several ticks run at once: the in-process loop that poll.Manager starts *)
(* (Loop), the host's scheduled task and the administrator's "Run due now" *)
(* request.  Each is a member of Tickers and runs Poller.Tick, one action  *)
(* per database call or provider call, because another tick can run        *)
(* between any two of them: no row is locked.                              *)
(*                                                                         *)
(* A tick is DETACHED when its store no longer answers: its context was    *)
(* cancelled (Manager.Start cancels the previous loop, the host cancels an *)
(* RPC) or its connection pool was closed by a reconfiguration.            *)
(*                                                                         *)
(* What a message says, its overrides and its attachments are abstracted:  *)
(* no decision of the queue depends on them.                               *)
(***************************************************************************)
EXTENDS Integers, FiniteSets

CONSTANTS
    Deliveries,         \* rows that may be enqueued; numbered by created_at
    Targets,            \* rows of the targets table
    Tickers,            \* concurrent callers of Poller.Tick
    Loop,               \* the ticker that poll.Manager runs in a loop
    MaxAttemptsValues,  \* values an administrator stores as max_attempts
    DefaultMaxAttempts, \* 3 in the code
    BatchLimit,         \* 25 in the code
    MaxFaults           \* bound on crashes, lost answers and database errors

ASSUME DeliveriesAssumption == Deliveries \subseteq Nat
ASSUME LoopAssumption == Loop \in Tickers
ASSUME AttemptsAssumption ==
    /\ DefaultMaxAttempts \in Nat \ {0}
    /\ MaxAttemptsValues \subseteq Int
ASSUME BoundsAssumption == BatchLimit \in Nat \ {0} /\ MaxFaults \in Nat

VARIABLES
    \* The deliveries table.
    status,       \* "absent" until the row is inserted
    attempts,
    lastError,    \* "none", "error" or "disabled", for what MarkFailed records
    due,          \* next_run_at <= now()
    rowTarget,    \* target_id
    \* The targets and app_config tables.
    target,       \* "enabled", "disabled" or "deleted"
    storedMax,    \* max_attempts as stored
    \* The local state of each running Tick.
    pc,
    limit,        \* cfg.MaxAttempts
    batch,        \* rows of DueDeliveries not marked yet, as they were read
    outcome,      \* what the current row is about to be marked with
    detached,
    \* Bookkeeping of the model.
    handed,       \* how often a provider took a row's message over
    faults

tableVars  == <<status, attempts, lastError, due, rowTarget>>
configVars == <<target, storedMax>>
tickVars   == <<pc, limit, batch, outcome, detached>>
vars == <<tableVars, configVars, tickVars, handed, faults>>

Row == [id : Deliveries, attempts : Nat]

TypeOK ==
    /\ status \in [Deliveries -> {"absent", "queued", "delivered", "failed"}]
    /\ attempts \in [Deliveries -> Nat]
    /\ lastError \in [Deliveries -> {"none", "error", "disabled"}]
    /\ due \in [Deliveries -> BOOLEAN]
    /\ rowTarget \in [Deliveries -> Targets]
    /\ target \in [Targets -> {"enabled", "disabled", "deleted"}]
    /\ storedMax \in MaxAttemptsValues
    /\ pc \in [Tickers -> {"idle", "due", "fetch", "send", "handed", "mark"}]
    /\ limit \in [Tickers -> Nat \ {0}]
    /\ batch \in [Tickers -> SUBSET Row]
    /\ outcome \in [Tickers -> {"none", "ok", "error", "disabled"}]
    /\ detached \in [Tickers -> BOOLEAN]
    /\ handed \in [Deliveries -> Nat]
    /\ faults \in 0 .. MaxFaults

Init ==
    /\ status = [d \in Deliveries |-> "absent"]
    /\ attempts = [d \in Deliveries |-> 0]
    /\ lastError = [d \in Deliveries |-> "none"]
    /\ due = [d \in Deliveries |-> FALSE]
    /\ rowTarget \in [Deliveries -> Targets]
    /\ target = [t \in Targets |-> "enabled"]
    /\ storedMax \in MaxAttemptsValues
    /\ pc = [w \in Tickers |-> "idle"]
    /\ limit = [w \in Tickers |-> DefaultMaxAttempts]
    /\ batch = [w \in Tickers |-> {}]
    /\ outcome = [w \in Tickers |-> "none"]
    /\ detached = [w \in Tickers |-> FALSE]
    /\ handed = [d \in Deliveries |-> 0]
    /\ faults = 0

-----------------------------------------------------------------------------
(* Faults.  A detached tick fails for free, the detachment was charged.    *)

Goto(w, label) == pc' = [pc EXCEPT ![w] = label]

Fault(w) ==
    IF detached[w] THEN faults' = faults
                   ELSE faults < MaxFaults /\ faults' = faults + 1

-----------------------------------------------------------------------------
(* The rows: Store.Enqueue, called by the event consumer and by /send, and *)
(* the passing of time.  A row may name a target that was disabled or      *)
(* deleted since its enqueuer looked, so nothing is asked of the target.   *)

Enqueue(d) ==
    /\ status[d] = "absent"
    /\ status' = [status EXCEPT ![d] = "queued"]
    /\ due' = [due EXCEPT ![d] = TRUE]
    /\ UNCHANGED <<attempts, lastError, rowTarget, configVars, tickVars,
                   handed, faults>>

BecomeDue(d) ==
    /\ status[d] = "queued"
    /\ ~due[d]
    /\ due' = [due EXCEPT ![d] = TRUE]
    /\ UNCHANGED <<status, attempts, lastError, rowTarget, configVars,
                   tickVars, handed, faults>>

-----------------------------------------------------------------------------
(* The administrator's edits, between any two steps of a tick.             *)

UpsertTarget(t) ==
    /\ target[t] # "deleted"
    /\ \E s \in {"enabled", "disabled"} : target' = [target EXCEPT ![t] = s]
    /\ UNCHANGED <<tableVars, storedMax, tickVars, handed, faults>>

DeleteTarget(t) ==
    /\ target' = [target EXCEPT ![t] = "deleted"]
    /\ UNCHANGED <<tableVars, storedMax, tickVars, handed, faults>>

PutAppConfig(m) ==
    /\ storedMax' = m
    /\ UNCHANGED <<tableVars, target, tickVars, handed, faults>>

-----------------------------------------------------------------------------
(* Poller.Tick.                                                            *)

\* GetAppConfig: a stored value that is not positive reads as the default.
Effective(m) == IF m <= 0 THEN DefaultMaxAttempts ELSE m

\* The tick loads the current store, then reads the configuration; an error
\* of that read is dropped and leaves the default in force.
ReadConfig(w) ==
    /\ pc[w] = "idle"
    /\ Goto(w, "due")
    /\ \E m \in {Effective(storedMax), DefaultMaxAttempts} :
          limit' = [limit EXCEPT ![w] = m]
    /\ UNCHANGED <<tableVars, configVars, batch, outcome, detached, handed,
                   faults>>

\* Mutation: rows are picked up whatever their status.
DueRowsOfAnyStatus == {d \in Deliveries : status[d] # "absent" /\ due[d]}

DueRows == {d \in Deliveries : status[d] = "queued" /\ due[d]}

\* Mutation: the limit is one too low.
DueDeliveriesLimitOffByOne ==
    {d \in DueRows : Cardinality({e \in DueRows : e < d}) + 1 < BatchLimit}

\* ORDER BY created_at LIMIT BatchLimit.
DueDeliveries ==
    {d \in DueRows : Cardinality({e \in DueRows : e < d}) < BatchLimit}

ReadDue(w) ==
    /\ pc[w] = "due"
    /\ ~detached[w]
    /\ Goto(w, "fetch")
    /\ batch' = [batch EXCEPT ![w] =
                   {[id |-> d, attempts |-> attempts[d]] : d \in DueDeliveries}]
    /\ UNCHANGED <<tableVars, configVars, limit, outcome, detached, handed,
                   faults>>

\* Tick returns: its local state is gone.
Return(w) ==
    /\ Goto(w, "idle")
    /\ limit' = [limit EXCEPT ![w] = DefaultMaxAttempts]
    /\ detached' = [detached EXCEPT ![w] = FALSE]

ReadDueFails(w) ==
    /\ pc[w] = "due"
    /\ Fault(w)
    /\ Return(w)
    /\ UNCHANGED <<tableVars, configVars, batch, outcome, handed>>

\* The row the loop over the batch is at.
Current(w, r) == r \in batch[w] /\ \A s \in batch[w] : r.id <= s.id

Decide(w, result) ==
    /\ outcome' = [outcome EXCEPT ![w] = result]
    /\ Goto(w, "mark")

FetchTarget(w) ==
    /\ pc[w] = "fetch"
    /\ ~detached[w]
    /\ \E r \in batch[w] :
          /\ Current(w, r)
          /\ \/ /\ target[rowTarget[r.id]] = "enabled"
                /\ Goto(w, "send")
                /\ UNCHANGED outcome
             \/ /\ target[rowTarget[r.id]] = "disabled"
                /\ Decide(w, "disabled")
             \/ /\ target[rowTarget[r.id]] = "deleted"
                /\ Decide(w, "error")
    /\ UNCHANGED <<tableVars, configVars, limit, batch, detached, handed,
                   faults>>

FetchTargetFails(w) ==
    /\ pc[w] = "fetch"
    /\ batch[w] # {}
    /\ Fault(w)
    /\ Decide(w, "error")
    /\ UNCHANGED <<tableVars, configVars, limit, batch, detached, handed>>

\* Mutation: the message goes out and nobody notes it.
HandOverUnnoticed(w) ==
    /\ pc[w] = "send"
    /\ Goto(w, "handed")
    /\ UNCHANGED <<tableVars, configVars, limit, batch, outcome, detached,
                   handed, faults>>

\* The provider takes the message over; its answer is still to come.
HandOver(w) ==
    /\ pc[w] = "send"
    /\ Goto(w, "handed")
    /\ \E r \in batch[w] :
          /\ Current(w, r)
          /\ handed' = [handed EXCEPT ![r.id] = @ + 1]
    /\ UNCHANGED <<tableVars, configVars, limit, batch, outcome, detached,
                   faults>>

\* Mutation: the error of Registry.Send is dropped.
SendFailsUnseen(w) ==
    /\ pc[w] = "send"
    /\ Decide(w, "ok")
    /\ UNCHANGED <<tableVars, configVars, limit, batch, detached, handed,
                   faults>>

\* Registry.Send returns an error before the message was taken over.
SendFails(w) ==
    /\ pc[w] = "send"
    /\ Decide(w, "error")
    /\ UNCHANGED <<tableVars, configVars, limit, batch, detached, handed,
                   faults>>

SendSucceeds(w) ==
    /\ pc[w] = "handed"
    /\ Decide(w, "ok")
    /\ UNCHANGED <<tableVars, configVars, limit, batch, detached, handed,
                   faults>>

\* The answer is lost, or late: an error for a message that was taken over.
AnswerLost(w) ==
    /\ pc[w] = "handed"
    /\ Fault(w)
    /\ Decide(w, "error")
    /\ UNCHANGED <<tableVars, configVars, limit, batch, detached, handed>>

\* The loop goes on to the next row of the batch.
NextRow(w, r) ==
    /\ batch' = [batch EXCEPT ![w] = @ \ {r}]
    /\ outcome' = [outcome EXCEPT ![w] = "none"]
    /\ Goto(w, "fetch")

\* Mutations: a mark that forgets a column.
MarkDeliveredUncounted(d) ==
    /\ status' = [status EXCEPT ![d] = "delivered"]
    /\ lastError' = [lastError EXCEPT ![d] = "none"]
    /\ UNCHANGED <<attempts, due>>

MarkDeliveredStaysQueued(d) ==
    /\ attempts' = [attempts EXCEPT ![d] = @ + 1]
    /\ lastError' = [lastError EXCEPT ![d] = "none"]
    /\ UNCHANGED <<status, due>>

MarkFailedUncounted(d, msg, retry) ==
    /\ status' = [status EXCEPT ![d] = IF retry THEN "queued" ELSE "failed"]
    /\ lastError' = [lastError EXCEPT ![d] = msg]
    /\ due' = [due EXCEPT ![d] = ~retry]
    /\ UNCHANGED attempts

\* Both UPDATEs name the row by its id alone, whatever its status is now.
MarkDelivered(d) ==
    /\ status' = [status EXCEPT ![d] = "delivered"]
    /\ attempts' = [attempts EXCEPT ![d] = @ + 1]
    /\ lastError' = [lastError EXCEPT ![d] = "none"]
    /\ UNCHANGED due

MarkFailed(d, msg, retry) ==
    /\ status' = [status EXCEPT ![d] = IF retry THEN "queued" ELSE "failed"]
    /\ attempts' = [attempts EXCEPT ![d] = @ + 1]
    /\ lastError' = [lastError EXCEPT ![d] = msg]
    /\ due' = [due EXCEPT ![d] = ~retry]

\* Mutations: one attempt too few, one too many.
RetryOneLess(w, r) == r.attempts + 2 < limit[w]
RetryOneMore(w, r) == r.attempts + 1 <= limit[w]

\* Whether another attempt is left, by the attempts the row was read with.
Retry(w, r) == r.attempts + 1 < limit[w]

Mark(w) ==
    /\ pc[w] = "mark"
    /\ ~detached[w]
    /\ \E r \in batch[w] :
          /\ Current(w, r)
          /\ NextRow(w, r)
          /\ \/ outcome[w] = "ok" /\ MarkDelivered(r.id)
             \/ outcome[w] = "error" /\ MarkFailed(r.id, "error", Retry(w, r))
             \/ outcome[w] = "disabled" /\ MarkFailed(r.id, "disabled", FALSE)
    /\ UNCHANGED <<rowTarget, configVars, limit, detached, handed, faults>>

\* The error of a mark is dropped: the row stays as it was.
MarkIsLost(w) ==
    /\ pc[w] = "mark"
    /\ Fault(w)
    /\ \E r \in batch[w] : Current(w, r) /\ NextRow(w, r)
    /\ UNCHANGED <<tableVars, configVars, limit, detached, handed>>

EndTick(w) ==
    /\ pc[w] = "fetch"
    /\ batch[w] = {}
    /\ Return(w)
    /\ UNCHANGED <<tableVars, configVars, batch, outcome, handed, faults>>

-----------------------------------------------------------------------------
(* What can happen to a tick from outside.                                 *)

Detach(w) ==
    /\ pc[w] # "idle"
    /\ ~detached[w]
    /\ Fault(w)
    /\ detached' = [detached EXCEPT ![w] = TRUE]
    /\ UNCHANGED <<tableVars, configVars, pc, limit, batch, outcome, handed>>

\* The process dies and is started again: only the database survives.
Crash ==
    /\ faults < MaxFaults
    /\ faults' = faults + 1
    /\ pc' = [w \in Tickers |-> "idle"]
    /\ limit' = [w \in Tickers |-> DefaultMaxAttempts]
    /\ batch' = [w \in Tickers |-> {}]
    /\ outcome' = [w \in Tickers |-> "none"]
    /\ detached' = [w \in Tickers |-> FALSE]
    /\ UNCHANGED <<tableVars, configVars, handed>>

-----------------------------------------------------------------------------
Tick(w) ==
    \/ ReadConfig(w)   \/ ReadDue(w)      \/ ReadDueFails(w)
    \/ FetchTarget(w)  \/ FetchTargetFails(w)
    \/ HandOver(w)     \/ SendFails(w)
    \/ SendSucceeds(w) \/ AnswerLost(w)
    \/ Mark(w)         \/ MarkIsLost(w)   \/ EndTick(w)

Next ==
    \/ \E d \in Deliveries : Enqueue(d) \/ BecomeDue(d)
    \/ \E t \in Targets : UpsertTarget(t) \/ DeleteTarget(t)
    \/ \E m \in MaxAttemptsValues : PutAppConfig(m)
    \/ \E w \in Tickers : Tick(w) \/ Detach(w)
    \/ Crash

Spec == Init /\ [][Next]_vars

(* Manager.Start runs Tick again on every beat of a time.Ticker, and       *)
(* Registry.Send puts a deadline on every provider call that heeds its     *)
(* context (SMTP and MQTT do not heed it once connected: for those the     *)
(* fairness of the loop is an assumption on the remote server).  Time      *)
(* passes.  Nothing is assumed of the other ticks, which may stop for ever *)
(* between any two steps, nor of the administrator.                        *)
Fairness ==
    /\ WF_vars(Tick(Loop))
    /\ \A d \in Deliveries : WF_vars(BecomeDue(d))

FairSpec == Spec /\ Fairness

-----------------------------------------------------------------------------
(* Properties.                                                             *)

Settled(d) == status[d] \in {"delivered", "failed"}

\* The lowest and the highest number of attempts the configuration can allow.
AttemptLimits ==
    {Effective(m) : m \in MaxAttemptsValues} \cup {DefaultMaxAttempts}

\* A row marked delivered was taken over by a provider: MarkDelivered is
\* reached only past a Registry.Send that returned nil (poll.go:57-62).
DeliveredWasHandedOver ==
    \A d \in Deliveries : status[d] = "delivered" => handed[d] > 0

\* attempts serves as the version of a row: every UPDATE of the row counts
\* it up, so what a tick read is never ahead of the table, and a tick whose
\* snapshot is not outdated is about to mark a row that is still queued.
AttemptsVersionTheRow ==
    \A w \in Tickers : \A r \in batch[w] :
        /\ r.attempts <= attempts[r.id]
        /\ r.attempts = attempts[r.id] => status[r.id] = "queued"

\* Nothing but the mark of a tick with an outdated snapshot of the row takes
\* a row out of a terminal state (store.go:359-373 do not check the status).
ReopenedOnlyByOutdatedTick ==
    [][\A d \in Deliveries :
          Settled(d) /\ status'[d] # status[d] =>
             \E w \in Tickers : \E r \in batch[w] :
                /\ r.id = d
                /\ r.attempts < attempts[d]
                /\ r \notin batch'[w]]_vars

\* No delivery is given up early: a row that failed for an error has used
\* up the attempts of the smallest limit in force (poll.go:44,59).
GivenUpOnlyWhenExhausted ==
    \A d \in Deliveries :
        status[d] = "failed" /\ lastError[d] = "error" =>
            \E m \in AttemptLimits : attempts[d] >= m

\* The provider has the current row of tick w, and has not refused it.
TakenOver(w) == pc[w] = "handed" \/ (pc[w] = "mark" /\ outcome[w] = "ok")

\* What each tick knows is true: the row it is about to mark delivered was
\* taken over, and its limit is one the configuration can give.
TicksAreSound ==
    \A w \in Tickers :
        /\ limit[w] \in AttemptLimits
        /\ TakenOver(w) =>
              \A r \in batch[w] : Current(w, r) => handed[r.id] > 0

\* The inductive invariant behind the safety properties that hold however
\* the ticks overlap.
QueueInv ==
    /\ TypeOK
    /\ AttemptsVersionTheRow
    /\ TicksAreSound
    /\ DeliveredWasHandedOver
    /\ GivenUpOnlyWhenExhausted

\* The ticks that had row d taken over and have not marked it yet.
InFlight(d) ==
    {w \in Tickers :
        /\ ~detached[w] /\ TakenOver(w)
        /\ \E r \in batch[w] : Current(w, r) /\ r.id = d}

\* Each hand-over of a row is counted in its attempts, is still to be
\* counted by the tick that made it, or was lost to a fault: a crash loses
\* at most one for each tick.
HandOversAreAccounted ==
    \A d \in Deliveries :
        handed[d] <= attempts[d] + Cardinality(InFlight(d))
                       + faults * Cardinality(Tickers)

\* 1 + 2 + ... + n
Triangle(n) == (n * (n + 1)) \div 2

\* How far attempts can exceed its limit when ticks overlap.  Of T ticks
\* all but one may hold a snapshot that still allows a retry when the limit
\* is reached; each of those requeues the row once, for the ticks that are
\* free by then to read it and count it up once more.
OverlapSlack ==
    LET T == Cardinality(Tickers) IN (T - 1) + Triangle(T) - 1

\* The attempts on a row are bounded, however the ticks overlap: outdated
\* snapshots cannot requeue it for ever.
AttemptsBounded ==
    \A d \in Deliveries :
        \E m \in AttemptLimits : attempts[d] <= m + OverlapSlack

(* The following hold when ticks do not overlap (Tickers is {Loop}).  The  *)
(* documents state the first three without that condition; overlapping     *)
(* ticks violate each of them.                                             *)

\* delivered and failed are terminal (docs/delivery-queue.md:10-11).
SettledIsTerminal ==
    [][\A d \in Deliveries : Settled(d) => status'[d] = status[d]]_vars

\* max_attempts is the total of attempts (docs/operations.md:65).
AttemptsWithinLimit ==
    \A d \in Deliveries : \E m \in AttemptLimits : attempts[d] <= m

\* A queued row has attempts left (docs/debugging.md:39: anything else
\* "should not happen").
QueuedHasAttemptsLeft ==
    \A d \in Deliveries :
        status[d] = "queued" => \E m \in AttemptLimits : attempts[d] < m

\* A recipient gets a message once, plus once for each fault.
OneHandOverPerFault ==
    \A d \in Deliveries : handed[d] <= 1 + faults

(* These hold whether ticks overlap or not.                                *)

Lifecycle == INSTANCE DeliveryLifecycle
               WITH Limits <- AttemptLimits, Overrun <- OverlapSlack

\* The queue as its status and attempts columns show it goes through the
\* lifecycle, and no row stays queued without another attempt.  A settled row
\* is marked again only by an overtaken attempt, and never when ticks do not
\* overlap: OverlapSlack is 0 then (poll.go:41-63, store.go:359-373).
ImplementsLifecycle == Lifecycle!FairSpec

\* No row waits for ever: every row that is ever enqueued ends up in a
\* terminal state and stays in one, even next to ticks that stop for ever
\* and then mark a row they read long ago.
EveryRowSettles ==
    \A d \in Deliveries : <>[](status[d] = "absent" \/ Settled(d))
=============================================================================
