--------------------------- MODULE EventConsumer ---------------------------
(***************************************************************************)
(* The event consumer, internal/consumer/consumer.go: HandleEvent for an   *)
(* event that is no direct send.  It reads the rules, and for each target  *)
(* of each rule that is enabled and matches, reads the target and inserts  *)
(* a delivery.                                                             *)
(*                                                                         *)
(* Events are handled concurrently, one RPC each, while the administrator  *)
(* edits rules and targets; a handler takes one step for each database     *)
(* call.  The rules are a snapshot, each target is read anew.              *)
(*                                                                         *)
(* Which events a pattern matches is part of a rule's configuration here;  *)
(* Match itself is the subject of module Matching.  Titles and bodies are  *)
(* left out.                                                               *)
(***************************************************************************)
EXTENDS Integers, Sequences

CONSTANTS
    Events,       \* occurrences of events
    Targets,
    Rules,        \* numbered in the order of their names
    RuleConfigs,  \* what each rule may say: [enabled, matches, targets]
    MaxRuns,      \* bound on how often the host hands over one event
    MaxFaults     \* bound on database errors and broken RPCs

ASSUME RulesAssumption == Rules \subseteq Nat
ASSUME ConfigsAssumption ==
    \A r \in Rules :
        RuleConfigs[r] \subseteq [enabled : BOOLEAN, matches : SUBSET Events,
                                  targets : Seq(Targets)]
ASSUME RunsAssumption == MaxRuns \in Nat /\ MaxFaults \in Nat

\* A rule that was deleted, or not yet created, as a rule that matches nothing.
NoRule == [enabled |-> FALSE, matches |-> {}, targets |-> <<>>]

VARIABLES
    rule,      \* the rules table
    target,    \* the targets table: "enabled", "disabled" or "deleted"
    rows,      \* the rows inserted into deliveries, oldest first
    pc,        \* where the handler of an event is
    todo,      \* the matches it has not come to yet
    plan,      \* the matches it started with
    runs,      \* how often the event was handed over
    wasOff,    \* targets that were disabled or deleted at some time
    faults

tables   == <<rule, target, wasOff>>
handlers == <<pc, todo, plan, runs>>
vars == <<tables, rows, handlers, faults>>

\* The target at one position of one rule.
Match == [rule : Rules, pos : Nat, target : Targets]

TypeOK ==
    /\ DOMAIN rule = Rules
    /\ \A r \in Rules : rule[r] \in RuleConfigs[r] \cup {NoRule}
    /\ target \in [Targets -> {"enabled", "disabled", "deleted"}]
    /\ rows \in Seq([event : Events, run : Nat, match : Match])
    /\ pc \in [Events -> {"waiting", "rules", "target", "insert", "acked",
                          "failed"}]
    /\ todo \in [Events -> SUBSET Match]
    /\ plan \in [Events -> SUBSET Match]
    /\ runs \in [Events -> 0 .. MaxRuns]
    /\ wasOff \subseteq Targets
    /\ faults \in 0 .. MaxFaults

Init ==
    /\ rule \in {f \in [Rules -> UNION {RuleConfigs[r] : r \in Rules} \cup {NoRule}] :
                   \A r \in Rules : f[r] \in RuleConfigs[r] \cup {NoRule}}
    /\ target = [t \in Targets |-> "enabled"]
    /\ rows = <<>>
    /\ pc = [e \in Events |-> "waiting"]
    /\ todo = [e \in Events |-> {}]
    /\ plan = [e \in Events |-> {}]
    /\ runs = [e \in Events |-> 0]
    /\ wasOff = {}
    /\ faults = 0

Goto(e, label) == pc' = [pc EXCEPT ![e] = label]

Fault == faults < MaxFaults /\ faults' = faults + 1

-----------------------------------------------------------------------------
(* The administrator.                                                      *)

UpsertRule(r) ==
    /\ \E c \in RuleConfigs[r] : rule' = [rule EXCEPT ![r] = c]
    /\ UNCHANGED <<target, wasOff, rows, handlers, faults>>

DeleteRule(r) ==
    /\ rule' = [rule EXCEPT ![r] = NoRule]
    /\ UNCHANGED <<target, wasOff, rows, handlers, faults>>

SetTarget(t, s) ==
    /\ target[t] # "deleted"
    /\ target' = [target EXCEPT ![t] = s]
    /\ wasOff' = IF s = "enabled" THEN wasOff ELSE wasOff \cup {t}
    /\ UNCHANGED <<rule, rows, handlers, faults>>

-----------------------------------------------------------------------------
(* The host hands an event over, and may do so again when the RPC failed.  *)

HandOver(e) ==
    /\ pc[e] \in {"waiting", "failed"}
    /\ runs[e] < MaxRuns
    /\ runs' = [runs EXCEPT ![e] = @ + 1]
    /\ Goto(e, "rules")
    /\ UNCHANGED <<tables, rows, todo, plan, faults>>

-----------------------------------------------------------------------------
(* HandleEvent.                                                            *)

\* What the loops over the rules and their targets go through.
Matches(e) ==
    UNION {{[rule |-> r, pos |-> i, target |-> rule[r].targets[i]] :
              i \in 1 .. Len(rule[r].targets)} :
           r \in {q \in Rules : rule[q].enabled /\ e \in rule[q].matches}}

ListRules(e) ==
    /\ pc[e] = "rules"
    /\ Goto(e, "target")
    /\ todo' = [todo EXCEPT ![e] = Matches(e)]
    /\ plan' = [plan EXCEPT ![e] = Matches(e)]
    /\ UNCHANGED <<tables, rows, runs, faults>>

Before(m, n) == m.rule < n.rule \/ (m.rule = n.rule /\ m.pos < n.pos)

\* Mutation: the matches in no particular order.
CurrentAny(e, m) == m \in todo[e]

\* The match the loops are at.
Current(e, m) ==
    /\ m \in todo[e]
    /\ \A n \in todo[e] : n = m \/ Before(m, n)

Advance(e, m) ==
    /\ todo' = [todo EXCEPT ![e] = @ \ {m}]
    /\ Goto(e, "target")

\* Mutation: a target that is off is waited for.
LookUpWaits(e) ==
    /\ pc[e] = "target"
    /\ \E m \in todo[e] : Current(e, m) /\ target[m.target] = "enabled"
    /\ Goto(e, "insert")
    /\ UNCHANGED <<tables, rows, todo, plan, runs, faults>>

\* GetTarget; a target that is off or gone is skipped.
LookUp(e) ==
    /\ pc[e] = "target"
    /\ \E m \in todo[e] :
          /\ Current(e, m)
          /\ IF target[m.target] = "enabled"
             THEN Goto(e, "insert") /\ UNCHANGED todo
             ELSE Advance(e, m)
    /\ UNCHANGED <<tables, rows, plan, runs, faults>>

\* Any other error of GetTarget skips the target just the same.
LookUpFails(e) ==
    /\ pc[e] = "target"
    /\ Fault
    /\ \E m \in todo[e] : Current(e, m) /\ Advance(e, m)
    /\ UNCHANGED <<tables, rows, plan, runs>>

\* Mutation: the row does not say which match it is for.
NewRowOfTarget(e, m) ==
    rows' = Append(rows, [event |-> e, run |-> runs[e], match |-> m.target])

NewRow(e, m) ==
    rows' = Append(rows, [event |-> e, run |-> runs[e], match |-> m])

\* Mutation: the handler returns from within the loop.
InsertStops(e) ==
    /\ pc[e] = "insert"
    /\ \E m \in todo[e] : Current(e, m) /\ NewRow(e, m)
    /\ todo' = [todo EXCEPT ![e] = {}]
    /\ Goto(e, "target")
    /\ UNCHANGED <<tables, plan, runs, faults>>

Insert(e) ==
    /\ pc[e] = "insert"
    /\ \E m \in todo[e] : Current(e, m) /\ NewRow(e, m) /\ Advance(e, m)
    /\ UNCHANGED <<tables, plan, runs, faults>>

\* HandleEvent returns an error, and forgets the rest.
Abandon(e) ==
    /\ Goto(e, "failed")
    /\ todo' = [todo EXCEPT ![e] = {}]

ListRulesFails(e) ==
    /\ pc[e] = "rules"
    /\ Fault
    /\ Abandon(e)
    /\ UNCHANGED <<tables, rows, plan, runs>>

\* Enqueue fails; when only its answer was lost the row is there.
InsertFails(e) ==
    /\ pc[e] = "insert"
    /\ Fault
    /\ \/ UNCHANGED rows
       \/ \E m \in todo[e] : Current(e, m) /\ NewRow(e, m)
    /\ Abandon(e)
    /\ UNCHANGED <<tables, plan, runs>>

Acknowledge(e) ==
    /\ pc[e] = "target"
    /\ todo[e] = {}
    /\ Goto(e, "acked")
    /\ UNCHANGED <<tables, rows, todo, plan, runs, faults>>

\* The process dies: the RPCs it was serving break.
Running(e) == pc[e] \in {"rules", "target", "insert"}

Crash ==
    /\ Fault
    /\ pc' = [e \in Events |-> IF Running(e) THEN "failed" ELSE pc[e]]
    /\ todo' = [e \in Events |-> {}]
    /\ UNCHANGED <<tables, rows, plan, runs>>

-----------------------------------------------------------------------------
HandleEvent(e) ==
    \/ ListRules(e)   \/ ListRulesFails(e)
    \/ LookUp(e)      \/ LookUpFails(e)
    \/ Insert(e)      \/ InsertFails(e)
    \/ Acknowledge(e)

Admin ==
    \/ \E r \in Rules : UpsertRule(r) \/ DeleteRule(r)
    \/ \E t \in Targets, s \in {"enabled", "disabled", "deleted"} :
          SetTarget(t, s)

Next ==
    \/ Admin
    \/ \E e \in Events : HandOver(e) \/ HandleEvent(e)
    \/ Crash

Spec == Init /\ [][Next]_vars

\* A handler's database calls return; the host keeps no promise to call.
FairSpec == Spec /\ \A e \in Events : WF_vars(HandleEvent(e))

-----------------------------------------------------------------------------
(* Properties.                                                             *)

HasRow(e, m) ==
    \E i \in DOMAIN rows :
        rows[i] = [event |-> e, run |-> runs[e], match |-> m]

\* The rows of one handling of an event are in the order of the rules and of
\* the targets in a rule, and no match has two of them, whatever the other
\* handlers and the administrator do in between (consumer.go:54-77).
RowsFollowTheRules ==
    \A i, j \in DOMAIN rows :
        /\ i < j
        /\ rows[i].event = rows[j].event
        /\ rows[i].run = rows[j].run
        => Before(rows[i].match, rows[j].match)

\* An acknowledged event has a row for each of its matches, unless the target
\* was off at some time or the database failed (consumer.go:61-64).
AckedEventsAreQueued ==
    \A e \in Events :
        pc[e] = "acked" /\ faults = 0 =>
            \A m \in plan[e] : m.target \in wasOff \/ HasRow(e, m)

\* Every handling ends, with an acknowledgement or an error.
EveryRunEnds == \A e \in Events : Running(e) ~> ~Running(e)

\* README.md:40: "For each matched rule, the consumer enqueues one delivery
\* per enabled target".
OneDeliveryPerEnabledTarget ==
    \A e \in Events :
        pc[e] = "acked" =>
            \A m \in plan[e] : m.target \in wasOff \/ HasRow(e, m)
=============================================================================
