--------------------------- MODULE PipelineProofs ---------------------------
(***************************************************************************)
(* Proofs about EventConsumer, and about Pipeline: its consumer is         *)
(* EventConsumer, and with the queue next to it it keeps the promise of    *)
(* Notification, for any number of events, rules, targets, handlings,      *)
(* faults and rows.                                                        *)
(***************************************************************************)
EXTENDS Pipeline, SequenceTheorems, TLAPS

-----------------------------------------------------------------------------
(* The consumer.                                                           *)

\* Rows are for handlings that have begun to insert.
RowsAreOfHandlings ==
    \A i \in DOMAIN rows :
        LET e == rows[i].event IN
        /\ rows[i].run <= runs[e]
        /\ pc[e] = "rules" => rows[i].run < runs[e]

\* What a handling still has to do comes after what it has done.
TodoIsAhead ==
    \A i \in DOMAIN rows :
        rows[i].run = runs[rows[i].event] =>
            \A n \in todo[rows[i].event] : Before(rows[i].match, n)

\* Nothing is left to do where no loop is running.
TodoOnlyInTheLoops ==
    \A e \in Events : pc[e] \notin {"target", "insert"} => todo[e] = {}

\* The inductive invariant behind RowsFollowTheRules.
OrderInv ==
    /\ TypeOK
    /\ RowsAreOfHandlings
    /\ TodoOnlyInTheLoops
    /\ TodoIsAhead
    /\ RowsFollowTheRules

\* What a handling has come past is in a row, unless its target was off.
PassedIsQueued ==
    \A e \in Events :
        pc[e] \in {"target", "insert", "acked"} /\ faults = 0 =>
            \A m \in plan[e] \ todo[e] : m.target \in wasOff \/ HasRow(e, m)

OffWasOff == \A t \in Targets : target[t] # "enabled" => t \in wasOff

\* The inductive invariant behind AckedEventsAreQueued.
AckInv ==
    /\ OffWasOff
    /\ PassedIsQueued

-----------------------------------------------------------------------------
\* What NewRow does to the table.
LEMMA NewRowEffect ==
    ASSUME rows \in Seq([event : Events, run : Nat, match : Match]),
           NEW e \in Events, runs[e] \in Nat, NEW m \in Match, NewRow(e, m)
    PROVE  /\ rows' \in Seq([event : Events, run : Nat, match : Match])
           /\ DOMAIN rows = 1 .. Len(rows)
           /\ DOMAIN rows' = 1 .. Len(rows) + 1
           /\ Len(rows) \in Nat
           /\ \A i \in DOMAIN rows : rows'[i] = rows[i]
           /\ rows'[Len(rows) + 1] = [event |-> e, run |-> runs[e], match |-> m]
  <1> DEFINE new == [event |-> e, run |-> runs[e], match |-> m]
             T   == [event : Events, run : Nat, match : Match]
  <1>1. new \in T
    OBVIOUS
  <1>2. rows' = Append(rows, new)
    BY DEF NewRow
  <1> HIDE DEF new, T
  <1>3. rows \in Seq(T)
    BY DEF T
  <1>4. /\ rows' \in Seq(T)
        /\ Len(rows') = Len(rows) + 1
        /\ \A i \in 1 .. Len(rows) : rows'[i] = rows[i]
        /\ rows'[Len(rows) + 1] = new
    BY <1>1, <1>2, <1>3, AppendProperties
  <1>5. Len(rows) \in Nat /\ DOMAIN rows = 1 .. Len(rows)
          /\ DOMAIN rows' = 1 .. Len(rows')
    BY <1>3, <1>4, LenProperties
  <1> QED
    BY <1>4, <1>5 DEF new, T

\* What a row says.
LEMMA RowFields ==
    ASSUME TypeOK
    PROVE  /\ Len(rows) \in Nat /\ DOMAIN rows = 1 .. Len(rows)
           /\ \A i \in DOMAIN rows :
                 /\ rows[i].event \in Events /\ rows[i].run \in Nat
                 /\ rows[i].match \in Match
  <1> DEFINE T == [event : Events, run : Nat, match : Match]
  <1>1. \A row \in T : row.event \in Events /\ row.run \in Nat /\ row.match \in Match
    OBVIOUS
  <1>2. rows \in Seq(T)
    BY DEF TypeOK
  <1> HIDE DEF T
  <1>3. Len(rows) \in Nat /\ DOMAIN rows = 1 .. Len(rows)
    BY <1>2, LenProperties
  <1>4. \A i \in DOMAIN rows : rows[i] \in T
    BY <1>2, <1>3, ElementOfSeq
  <1> QED
    BY <1>1, <1>3, <1>4

\* The loops go through positions of targets.
LEMMA MatchesAreMatches ==
    ASSUME TypeOK, NEW e \in Events
    PROVE  Matches(e) \in SUBSET Match
  <1> SUFFICES ASSUME NEW r \in Rules, rule[r].enabled,
                      NEW i \in 1 .. Len(rule[r].targets)
               PROVE  [rule |-> r, pos |-> i, target |-> rule[r].targets[i]]
                        \in Match
    BY DEF Matches
  <1>1. rule[r] # NoRule
    BY DEF NoRule
  <1>2. rule[r].targets \in Seq(Targets)
    BY <1>1, ConfigsAssumption DEF TypeOK
  <1>3. rule[r].targets[i] \in Targets /\ i \in Nat
    BY <1>2, ElementOfSeq, LenProperties
  <1> QED
    BY <1>3 DEF Match

\* The administrator leaves handlers and rows alone.
LEMMA AdminEffect ==
    Admin => UNCHANGED <<rows, handlers, faults>>
  BY DEF Admin, UpsertRule, DeleteRule, SetTarget

\* The loops hold matches, and are at one only when they hold some.
LEMMA TypedInit == Init => TypeOK
  <1> SUFFICES ASSUME Init PROVE TypeOK
    OBVIOUS
  <1>1. rows \in Seq([event : Events, run : Nat, match : Match])
    BY DEF Init
  <1>2. DOMAIN rule = Rules /\ \A r \in Rules : rule[r] \in RuleConfigs[r] \cup {NoRule}
    BY DEF Init
  <1> QED
    BY <1>1, <1>2, RunsAssumption DEF Init, TypeOK

\* A step of the handler of one event, by what it may touch.
LEMMA HandlerEffect ==
    ASSUME TypeOK, NEW e \in Events, HandleEvent(e)
    PROVE  /\ UNCHANGED <<tables, runs>>
           /\ faults' \in 0 .. MaxFaults
           /\ rows' \in Seq([event : Events, run : Nat, match : Match])
           /\ todo'[e] \in SUBSET Match /\ plan'[e] \in SUBSET Match
           /\ todo' = [todo EXCEPT ![e] = todo'[e]]
           /\ plan' = [plan EXCEPT ![e] = plan'[e]]
           /\ pc' = [pc EXCEPT ![e] = pc'[e]]
           /\ pc'[e] \in {"target", "insert", "acked", "failed"}
  <1>1. CASE ListRules(e)
    BY <1>1, MatchesAreMatches DEF ListRules, TypeOK, Goto
  <1>2. CASE ListRulesFails(e)
    BY <1>2, RunsAssumption DEF ListRulesFails, TypeOK, Goto, Abandon, Fault
  <1>3. CASE LookUp(e)
    BY <1>3 DEF LookUp, TypeOK, Goto, Advance
  <1>4. CASE LookUpFails(e)
    BY <1>4, RunsAssumption DEF LookUpFails, TypeOK, Goto, Advance, Fault
  <1>5. CASE Insert(e)
    <2>1. PICK m \in todo[e] : NewRow(e, m) /\ Advance(e, m)
      BY <1>5 DEF Insert
    <2>2. m \in Match /\ runs[e] \in Nat
      BY <2>1, RunsAssumption DEF TypeOK
    <2>3. rows' \in Seq([event : Events, run : Nat, match : Match])
      BY <2>1, <2>2, NewRowEffect DEF TypeOK
    <2> QED
      BY <1>5, <2>1, <2>3 DEF Insert, TypeOK, Goto, Advance
  <1>6. CASE InsertFails(e)
    <2>1. rows' \in Seq([event : Events, run : Nat, match : Match])
      <3>1. CASE UNCHANGED rows
        BY <3>1 DEF TypeOK
      <3>2. CASE \E m \in todo[e] : NewRow(e, m)
        <4>1. PICK m \in todo[e] : NewRow(e, m)
          BY <3>2
        <4>2. m \in Match /\ runs[e] \in Nat
          BY RunsAssumption DEF TypeOK
        <4> QED
          BY <4>1, <4>2, NewRowEffect DEF TypeOK
      <3> QED
        BY <1>6, <3>1, <3>2 DEF InsertFails
    <2> QED
      BY <1>6, <2>1, RunsAssumption DEF InsertFails, TypeOK, Goto, Abandon, Fault
  <1>7. CASE Acknowledge(e)
    BY <1>7 DEF Acknowledge, TypeOK, Goto
  <1> QED
    BY <1>1, <1>2, <1>3, <1>4, <1>5, <1>6, <1>7 DEF HandleEvent

\* Every step keeps the types.
LEMMA TypedStep == TypeOK /\ [Next]_vars => TypeOK'
  <1> SUFFICES ASSUME TypeOK, [Next]_vars PROVE TypeOK'
    OBVIOUS
  <1> USE RunsAssumption
  <1>1. ASSUME NEW r \in Rules, UpsertRule(r) \/ DeleteRule(r) PROVE TypeOK'
    BY <1>1 DEF TypeOK, UpsertRule, DeleteRule, handlers
  <1>2. ASSUME NEW t \in Targets, NEW s \in {"enabled", "disabled", "deleted"},
               SetTarget(t, s)
        PROVE  TypeOK'
    BY <1>2 DEF TypeOK, SetTarget, handlers
  <1>3. ASSUME NEW e \in Events, HandOver(e) PROVE TypeOK'
    BY <1>3 DEF TypeOK, HandOver, tables, Goto
  <1>4. ASSUME NEW e \in Events, HandleEvent(e) PROVE TypeOK'
    BY <1>4, HandlerEffect, ZenonT(30) DEF TypeOK, tables
  <1>5. ASSUME Crash PROVE TypeOK'
    BY <1>5 DEF TypeOK, Crash, tables, Fault
  <1>6. ASSUME UNCHANGED vars PROVE TypeOK'
    BY <1>6 DEF TypeOK, vars, tables, handlers
  <1> QED
    BY <1>1, <1>2, <1>3, <1>4, <1>5, <1>6 DEF Next, Admin

\* The consumer is well typed, whatever rules, targets and events there are.
THEOREM ConsumerIsTyped == Spec => []TypeOK
  <1> QED
    BY TypedInit, TypedStep, PTL DEF Spec

-----------------------------------------------------------------------------
\* A row for the match the loops are at keeps the order.
LEMMA RowKeepsOrder ==
    ASSUME OrderInv, NEW e \in Events, NEW m \in todo[e], Current(e, m),
           NewRow(e, m), pc[e] = "insert", runs' = runs,
           pc' = [pc EXCEPT ![e] = pc'[e]], pc'[e] # "rules",
           todo' = [todo EXCEPT ![e] = todo'[e]],
           todo'[e] \in SUBSET (todo[e] \ {m})
    PROVE  RowsAreOfHandlings' /\ TodoIsAhead' /\ RowsFollowTheRules'
  <1> DEFINE new == Len(rows) + 1
  <1>1. m \in Match /\ runs[e] \in Nat
    BY RunsAssumption DEF OrderInv, TypeOK
  <1>2. /\ DOMAIN rows = 1 .. Len(rows) /\ DOMAIN rows' = 1 .. new
        /\ Len(rows) \in Nat
        /\ \A i \in DOMAIN rows : rows'[i] = rows[i]
        /\ rows'[new] = [event |-> e, run |-> runs[e], match |-> m]
    BY <1>1, NewRowEffect DEF OrderInv, TypeOK
  <1>3. \A i \in DOMAIN rows : rows[i].event \in Events /\ rows[i].run \in Nat
    BY RowFields DEF OrderInv
  <1>4. \A i \in DOMAIN rows' : i # new => i \in DOMAIN rows
    BY <1>2
  <1>5. /\ \A f \in Events : f # e => pc'[f] = pc[f] /\ todo'[f] = todo[f]
        /\ pc \in [Events -> {"waiting", "rules", "target", "insert", "acked",
                              "failed"}]
        /\ todo \in [Events -> SUBSET Match]
    BY DEF OrderInv, TypeOK
  <1> HIDE DEF new
  <1>6. RowsAreOfHandlings'
    <2>1. ASSUME NEW i \in DOMAIN rows', i # new
          PROVE  /\ rows'[i].run <= runs[rows'[i].event]
                 /\ pc'[rows'[i].event] = "rules" =>
                      rows'[i].run < runs[rows'[i].event]
      BY <1>2, <1>3, <1>4, <1>5, <2>1 DEF OrderInv, RowsAreOfHandlings
    <2>2. rows'[new].run <= runs[e] /\ rows'[new].event = e
      BY <1>1, <1>2
    <2> QED
      BY <2>1, <2>2 DEF RowsAreOfHandlings
  <1>7. TodoIsAhead'
    <2>1. ASSUME NEW i \in DOMAIN rows', i # new,
                 rows'[i].run = runs[rows'[i].event],
                 NEW n \in todo'[rows'[i].event]
          PROVE  Before(rows'[i].match, n)
      <3>1. i \in DOMAIN rows /\ rows'[i] = rows[i]
        BY <1>2, <1>4, <2>1
      <3>2. n \in todo[rows[i].event]
        BY <1>3, <1>5, <2>1, <3>1
      <3> QED
        BY <2>1, <3>1, <3>2 DEF OrderInv, TodoIsAhead
    <2>2. ASSUME NEW n \in todo'[e] PROVE Before(rows'[new].match, n)
      BY <1>2, <2>2 DEF Current
    <2>3. rows'[new].event = e
      BY <1>2
    <2> QED
      BY <2>1, <2>2, <2>3 DEF TodoIsAhead
  <1>8. RowsFollowTheRules'
    <2>1. ASSUME NEW i \in DOMAIN rows', NEW j \in DOMAIN rows', i < j, j # new,
                 rows'[i].event = rows'[j].event, rows'[i].run = rows'[j].run
          PROVE  Before(rows'[i].match, rows'[j].match)
      <3>1. i # new
        BY <1>2, <1>4, <2>1 DEF new
      <3> QED
        BY <1>2, <1>4, <2>1, <3>1 DEF OrderInv, RowsFollowTheRules
    <2>2. ASSUME NEW i \in DOMAIN rows', i < new,
                 rows'[i].event = e, rows'[i].run = runs[e]
          PROVE  Before(rows'[i].match, m)
      <3>1. i \in DOMAIN rows
        BY <1>2, <1>4, <2>2 DEF new
      <3>2. rows[i].event = e /\ rows[i].run = runs[e]
        BY <1>2, <2>2, <3>1
      <3>3. Before(rows[i].match, m)
        BY <3>1, <3>2 DEF OrderInv, TodoIsAhead
      <3> QED
        BY <1>2, <3>1, <3>3
    <2>3. rows'[new].event = e /\ rows'[new].run = runs[e] /\ rows'[new].match = m
      BY <1>2
    <2> QED
      BY <2>1, <2>2, <2>3 DEF RowsFollowTheRules
  <1> QED
    BY <1>6, <1>7, <1>8

\* A step of a handler that writes no row keeps the order.
LEMMA NoRowKeepsOrder ==
    ASSUME OrderInv, NEW e \in Events, UNCHANGED <<rows, runs>>,
           pc' = [pc EXCEPT ![e] = pc'[e]], pc'[e] # "rules",
           todo' = [todo EXCEPT ![e] = todo'[e]],
           pc[e] = "rules" \/ todo'[e] \in SUBSET todo[e]
    PROVE  RowsAreOfHandlings' /\ TodoIsAhead' /\ RowsFollowTheRules'
  <1>1. /\ \A f \in Events : f # e => pc'[f] = pc[f] /\ todo'[f] = todo[f]
        /\ runs \in [Events -> Nat]
    BY RunsAssumption DEF OrderInv, TypeOK
  <1>2. \A i \in DOMAIN rows : rows[i].event \in Events /\ rows[i].run \in Nat
    BY RowFields DEF OrderInv
  <1>3. RowsAreOfHandlings' /\ RowsFollowTheRules'
    BY <1>1, <1>2 DEF OrderInv, RowsAreOfHandlings, RowsFollowTheRules
  <1>4. TodoIsAhead'
    <2> SUFFICES ASSUME NEW i \in DOMAIN rows,
                        rows[i].run = runs[rows[i].event],
                        NEW n \in todo'[rows[i].event]
                 PROVE  Before(rows[i].match, n)
      BY DEF TodoIsAhead
    <2>1. pc[rows[i].event] # "rules"
      BY <1>1, <1>2 DEF OrderInv, RowsAreOfHandlings
    <2>2. n \in todo[rows[i].event]
      BY <1>1, <1>2, <2>1
    <2> QED
      BY <2>2 DEF OrderInv, TodoIsAhead
  <1> QED
    BY <1>3, <1>4

\* Every step keeps the order.
LEMMA OrderStep == OrderInv /\ [Next]_vars => OrderInv'
  <1> SUFFICES ASSUME OrderInv, [Next]_vars PROVE OrderInv'
    OBVIOUS
  <1>1. TypeOK'
    BY TypedStep DEF OrderInv
  <1>2. ASSUME UNCHANGED <<rows, handlers>> PROVE OrderInv'
    BY <1>1, <1>2
       DEF OrderInv, RowsAreOfHandlings, TodoOnlyInTheLoops, TodoIsAhead,
           RowsFollowTheRules, handlers
  <1>3. ASSUME NEW e \in Events, HandOver(e) PROVE OrderInv'
    <2>0. runs \in [Events -> Nat]
      BY RunsAssumption DEF OrderInv, TypeOK
    <2>1. /\ UNCHANGED <<rows, todo>> /\ todo[e] = {}
          /\ \A f \in Events : f # e => runs'[f] = runs[f] /\ pc'[f] = pc[f]
          /\ runs'[e] = runs[e] + 1 /\ pc'[e] = "rules"
      BY <1>3 DEF OrderInv, TypeOK, HandOver, Goto, TodoOnlyInTheLoops
    <2>2. RowsAreOfHandlings'
      BY <2>0, <2>1, RowFields DEF OrderInv, RowsAreOfHandlings
    <2>3. TodoIsAhead'
      BY <2>0, <2>1, RowFields DEF OrderInv, TodoIsAhead
    <2>4. TodoOnlyInTheLoops' /\ RowsFollowTheRules'
      BY <2>1 DEF OrderInv, TodoOnlyInTheLoops, RowsFollowTheRules
    <2> QED
      BY <1>1, <2>2, <2>3, <2>4 DEF OrderInv
  <1>4. ASSUME NEW e \in Events, HandleEvent(e) PROVE OrderInv'
    <2>1. /\ UNCHANGED runs
          /\ todo' = [todo EXCEPT ![e] = todo'[e]]
          /\ pc' = [pc EXCEPT ![e] = pc'[e]]
          /\ pc'[e] \in {"target", "insert", "acked", "failed"}
      BY <1>4, HandlerEffect DEF OrderInv
    <2>2. pc'[e] \notin {"target", "insert"} => todo'[e] = {}
      BY <1>4
         DEF OrderInv, TypeOK, HandleEvent, ListRules, ListRulesFails, LookUp,
             LookUpFails, Insert, InsertFails, Acknowledge, Goto, Advance, Abandon
    <2>3. TodoOnlyInTheLoops'
      BY <2>1, <2>2 DEF OrderInv, TypeOK, TodoOnlyInTheLoops
    <2>4. CASE UNCHANGED rows
      <3>1. pc[e] = "rules" \/ todo'[e] \in SUBSET todo[e]
        BY <1>4, <2>4
           DEF OrderInv, TypeOK, HandleEvent, ListRules, ListRulesFails, LookUp,
               LookUpFails, Insert, InsertFails, Acknowledge, Goto, Advance,
               Abandon
      <3> QED
        BY <1>1, <2>1, <2>3, <2>4, <3>1, NoRowKeepsOrder DEF OrderInv
    <2>5. CASE rows' # rows
      <3>1. PICK m \in todo[e] :
              /\ Current(e, m) /\ NewRow(e, m) /\ pc[e] = "insert"
              /\ todo'[e] \in SUBSET (todo[e] \ {m})
        BY <1>4, <2>5
           DEF OrderInv, TypeOK, HandleEvent, ListRules, ListRulesFails, LookUp,
               LookUpFails, Insert, InsertFails, Acknowledge, Advance, Abandon
      <3> QED
        BY <1>1, <2>1, <2>3, <3>1, RowKeepsOrder DEF OrderInv
    <2> QED
      BY <2>4, <2>5
  <1>5. ASSUME Crash PROVE OrderInv'
    <2>1. /\ UNCHANGED <<rows, runs>>
          /\ \A e \in Events : todo'[e] = {}
          /\ \A e \in Events : pc'[e] = "rules" => pc[e] = "rules"
      BY <1>5 DEF Crash, Running, handlers
    <2> QED
      BY <1>1, <2>1, RowFields
         DEF OrderInv, RowsAreOfHandlings, TodoOnlyInTheLoops, TodoIsAhead,
             RowsFollowTheRules
  <1> QED
    BY <1>2, <1>3, <1>4, <1>5, AdminEffect DEF Next, vars

\* At the start there is nothing to order.
LEMMA OrderInit == Init => OrderInv
  <1> SUFFICES ASSUME Init PROVE OrderInv
    OBVIOUS
  <1>1. TypeOK
    BY TypedInit
  <1>2. DOMAIN rows = {}
    BY DEF Init
  <1>3. \A e \in Events : todo[e] = {}
    BY DEF Init
  <1> QED
    BY <1>1, <1>2, <1>3
       DEF OrderInv, RowsAreOfHandlings, TodoOnlyInTheLoops, TodoIsAhead,
           RowsFollowTheRules

\* The rows of one handling are in the order of rules and targets, none twice,
\* for any number of rules, targets, concurrent events and edits.
THEOREM RowsAreInOrder == Spec => []RowsFollowTheRules
  <1>1. OrderInv => RowsFollowTheRules
    BY DEF OrderInv
  <1> QED
    BY <1>1, OrderInit, OrderStep, PTL DEF Spec

-----------------------------------------------------------------------------
\* After a fault nothing is claimed any more.
LEMMA FaultsExcuse ==
    ASSUME OrderInv, OffWasOff, Fault, UNCHANGED <<target, wasOff>>
    PROVE  AckInv'
  <1>1. faults' # 0
    BY RunsAssumption DEF OrderInv, TypeOK, Fault
  <1> QED
    BY <1>1 DEF AckInv, OffWasOff, PassedIsQueued

\* What another handling has passed is not disturbed, as long as rows stay.
LEMMA OthersArePassed ==
    ASSUME OrderInv, AckInv, NEW e \in Events,
           \A f \in Events : f # e => /\ pc'[f] = pc[f] /\ todo'[f] = todo[f]
                                      /\ plan'[f] = plan[f] /\ runs'[f] = runs[f],
           UNCHANGED <<target, wasOff, faults>>,
           \A i \in DOMAIN rows : i \in DOMAIN rows' /\ rows'[i] = rows[i],
           pc'[e] \in {"target", "insert", "acked"} =>
             \A m \in plan'[e] \ todo'[e] : m.target \in wasOff \/ HasRow(e, m)'
    PROVE  AckInv'
  <1>1. ASSUME NEW f \in Events, f # e,
               pc'[f] \in {"target", "insert", "acked"}, faults' = 0,
               NEW m \in plan'[f] \ todo'[f]
        PROVE  m.target \in wasOff' \/ HasRow(f, m)'
    <2>1. m.target \in wasOff \/ HasRow(f, m)
      BY <1>1 DEF AckInv, PassedIsQueued
    <2>2. HasRow(f, m) => HasRow(f, m)'
      BY <1>1 DEF HasRow
    <2> QED
      BY <2>1, <2>2
  <1>2. PassedIsQueued'
    BY <1>1 DEF PassedIsQueued
  <1> QED
    BY <1>2 DEF AckInv, OffWasOff

\* Every step keeps what acknowledgements rest on.
LEMMA AckStep == OrderInv /\ AckInv /\ [Next]_vars => AckInv'
  <1> SUFFICES ASSUME OrderInv, AckInv, [Next]_vars PROVE AckInv'
    OBVIOUS
  <1> USE DEF AckInv
  <1>1. ASSUME UNCHANGED <<rows, handlers, faults>>,
               UNCHANGED <<target, wasOff>>
        PROVE  AckInv'
    BY <1>1 DEF OffWasOff, PassedIsQueued, HasRow, handlers
  <1>2. ASSUME NEW r \in Rules, UpsertRule(r) \/ DeleteRule(r) PROVE AckInv'
    BY <1>1, <1>2 DEF UpsertRule, DeleteRule
  <1>3. ASSUME NEW t \in Targets, NEW s \in {"enabled", "disabled", "deleted"},
               SetTarget(t, s)
        PROVE  AckInv'
    <2>1. OffWasOff'
      BY <1>3 DEF OrderInv, TypeOK, SetTarget, OffWasOff
    <2>2. wasOff \subseteq wasOff' /\ UNCHANGED <<rows, handlers, faults>>
      BY <1>3 DEF SetTarget
    <2>3. PassedIsQueued'
      BY <2>2 DEF PassedIsQueued, HasRow, handlers
    <2> QED
      BY <2>1, <2>3
  <1>4. ASSUME NEW e \in Events, HandOver(e) PROVE AckInv'
    <2>1. /\ pc'[e] = "rules"
          /\ \A f \in Events : f # e =>
               /\ pc'[f] = pc[f] /\ todo'[f] = todo[f]
               /\ plan'[f] = plan[f] /\ runs'[f] = runs[f]
          /\ UNCHANGED <<target, wasOff, faults, rows>>
      BY <1>4 DEF OrderInv, TypeOK, HandOver, Goto, tables
    <2> QED
      BY <2>1, OthersArePassed
  <1>5. ASSUME NEW e \in Events, HandleEvent(e) PROVE AckInv'
    <2>1. /\ \A f \in Events : f # e =>
               /\ pc'[f] = pc[f] /\ todo'[f] = todo[f]
               /\ plan'[f] = plan[f] /\ runs'[f] = runs[f]
          /\ UNCHANGED <<target, wasOff, runs>>
          /\ pc'[e] \in {"target", "insert", "acked", "failed"}
      BY <1>5, HandlerEffect DEF OrderInv, TypeOK, tables
    <2>2. CASE ListRules(e)
      <3>1. plan'[e] \ todo'[e] = {} /\ UNCHANGED <<rows, faults>>
        BY <2>2 DEF OrderInv, TypeOK, ListRules
      <3> QED
        BY <2>1, <3>1, OthersArePassed
    <2>3. CASE LookUp(e)
      <3>1. UNCHANGED <<rows, plan, faults>> /\ pc[e] = "target"
        BY <2>3 DEF LookUp
      <3>2. \A m \in todo[e] \ todo'[e] : m.target \in wasOff
        <4>1. \A m \in todo[e] : m.target \in Targets
          BY DEF OrderInv, TypeOK, Match
        <4>2. \A m \in todo[e] \ todo'[e] : target[m.target] # "enabled"
          BY <2>3 DEF OrderInv, TypeOK, LookUp, Advance
        <4> QED
          BY <4>1, <4>2 DEF OffWasOff
      <3>3. faults = 0 => \A m \in plan[e] \ todo'[e] :
                              m.target \in wasOff \/ HasRow(e, m)
        BY <3>1, <3>2 DEF PassedIsQueued
      <3>4. \A m : HasRow(e, m) => HasRow(e, m)'
        BY <2>1, <3>1 DEF HasRow
      <3>5. CASE faults = 0
        BY <2>1, <3>1, <3>3, <3>4, <3>5, OthersArePassed
      <3>6. CASE faults # 0
        BY <2>1, <3>1, <3>6 DEF OffWasOff, PassedIsQueued
      <3> QED
        BY <3>5, <3>6
    <2>4. CASE Insert(e)
      <3>1. PICK m \in todo[e] : NewRow(e, m) /\ Advance(e, m)
        BY <2>4 DEF Insert
      <3>2. m \in Match /\ runs[e] \in Nat
        BY <3>1, RunsAssumption DEF OrderInv, TypeOK
      <3>3. /\ \A i \in DOMAIN rows : i \in DOMAIN rows' /\ rows'[i] = rows[i]
            /\ HasRow(e, m)'
        <4>1. /\ DOMAIN rows = 1 .. Len(rows) /\ DOMAIN rows' = 1 .. Len(rows) + 1
              /\ Len(rows) \in Nat
              /\ \A i \in DOMAIN rows : rows'[i] = rows[i]
              /\ rows'[Len(rows) + 1] =
                   [event |-> e, run |-> runs[e], match |-> m]
          BY <3>1, <3>2, NewRowEffect DEF OrderInv, TypeOK
        <4> QED
          BY <2>1, <4>1 DEF HasRow
      <3>4. UNCHANGED <<plan, faults>> /\ pc[e] = "insert"
        BY <2>4 DEF Insert
      <3>5. todo'[e] = todo[e] \ {m}
        BY <3>1 DEF OrderInv, TypeOK, Advance
      <3>6. \A n : HasRow(e, n) => HasRow(e, n)'
        BY <2>1, <3>3 DEF HasRow
      <3>7. CASE faults = 0
        <4>1. \A n \in plan[e] \ todo[e] : n.target \in wasOff \/ HasRow(e, n)
          BY <3>4, <3>7 DEF PassedIsQueued
        <4>2. \A n \in plan'[e] \ todo'[e] : n.target \in wasOff \/ HasRow(e, n)'
          BY <3>3, <3>4, <3>5, <3>6, <4>1
        <4> QED
          BY <2>1, <3>3, <3>4, <4>2, OthersArePassed
      <3>8. CASE faults # 0
        BY <2>1, <3>4, <3>8 DEF OffWasOff, PassedIsQueued
      <3> QED
        BY <3>7, <3>8
    <2>5. CASE Acknowledge(e)
      <3>1. UNCHANGED <<rows, todo, plan, faults>> /\ pc[e] = "target"
        BY <2>5 DEF Acknowledge
      <3>2. \A m : HasRow(e, m) => HasRow(e, m)'
        BY <2>1, <3>1 DEF HasRow
      <3>3. CASE faults = 0
        BY <2>1, <3>1, <3>2, <3>3, OthersArePassed DEF PassedIsQueued
      <3>4. CASE faults # 0
        BY <2>1, <3>1, <3>4 DEF OffWasOff, PassedIsQueued
      <3> QED
        BY <3>3, <3>4
    <2>6. CASE ListRulesFails(e) \/ LookUpFails(e) \/ InsertFails(e)
      <3>1. Fault
        BY <2>6 DEF ListRulesFails, LookUpFails, InsertFails
      <3> QED
        BY <2>1, <3>1, FaultsExcuse
    <2> QED
      BY <1>5, <2>2, <2>3, <2>4, <2>5, <2>6 DEF HandleEvent
  <1>6. ASSUME Crash PROVE AckInv'
    BY <1>6, FaultsExcuse DEF Crash, tables
  <1>7. ASSUME UNCHANGED vars PROVE AckInv'
    BY <1>1, <1>7 DEF vars, tables
  <1> QED
    BY <1>2, <1>3, <1>4, <1>5, <1>6, <1>7 DEF Next, Admin

\* No fault has happened, and no target was off: an acknowledged event has all
\* its rows, however many there are.
THEOREM AcknowledgedIsQueued == Spec => []AckedEventsAreQueued
  <1>1. Init => OrderInv /\ AckInv
    <2>1. Init => OffWasOff /\ PassedIsQueued
      BY DEF Init, OffWasOff, PassedIsQueued
    <2> QED
      BY <2>1, OrderInit DEF AckInv
  <1>2. OrderInv /\ AckInv /\ [Next]_vars => (OrderInv /\ AckInv)'
    BY OrderStep, AckStep
  <1>3. OrderInv /\ AckInv => AckedEventsAreQueued
    BY DEF OrderInv, AckInv, PassedIsQueued, TodoOnlyInTheLoops,
           AckedEventsAreQueued
  <1> QED
    BY <1>1, <1>2, <1>3, PTL DEF Spec

-----------------------------------------------------------------------------
(* The consumer with the queue.                                            *)


\* The consumer of Pipeline is the consumer: the queue next to it takes nothing
\* away from what is proved of it (consumer.go:33-79).
THEOREM PipelineRunsTheConsumer == PipeSpec => Spec
  <1>1. PipeInit => Init
    BY DEF PipeInit
  <1>2. [PipeNext]_pipeVars => [Next]_vars
    BY DEF PipeNext, pipeVars, Handle, Attempt, Overtaken, Around,
           Next, vars
  <1> QED
    BY <1>1, <1>2, PTL DEF PipeSpec, Spec

-----------------------------------------------------------------------------
(* The invariant behind the refinement.                                    *)

\* The rows of the consumer are those of the queue.
RowsAreInTheQueue ==
    /\ status \in [1 .. MaxRows -> {"absent", "queued", "delivered", "failed"}]
    /\ Len(rows) <= MaxRows
    /\ attempts \in [1 .. MaxRows -> Nat]
    /\ \A d \in 1 .. MaxRows :
          /\ status[d] = "absent" <=> Len(rows) < d
          /\ status[d] = "absent" => attempts[d] = 0

\* A handler runs for a handling that has a number.
HandlingsAreNumbered == \A e \in Events : Running(e) => 1 <= runs[e]

PipeInv ==
    /\ OrderInv
    /\ RowsAreInTheQueue
    /\ HandlingsAreNumbered

\* No match comes before itself.
LEMMA NotBeforeItself ==
    ASSUME NEW m \in Match PROVE ~Before(m, m)
  <1>1. m.rule \in Nat /\ m.pos \in Nat
    BY RulesAssumption DEF Match
  <1> QED
    BY <1>1 DEF Before

\* The rows of a handling are for different matches.
LEMMA RowsAreDistinct ==
    ASSUME OrderInv, NEW i \in DOMAIN rows, NEW j \in DOMAIN rows,
           rows[i].event = rows[j].event, rows[i].run = rows[j].run,
           rows[i].match = rows[j].match
    PROVE  i = j
  <1>1. i \in Nat /\ j \in Nat /\ rows[i].match \in Match
    BY RowFields DEF OrderInv
  <1>2. ~(i < j) /\ ~(j < i)
    BY NotBeforeItself, <1>1 DEF OrderInv, RowsFollowTheRules
  <1> QED
    BY <1>1, <1>2

\* What a step of a handler does to rows and queue.
RowStep(e) ==
    \/ UNCHANGED <<rows, queueVars>>
    \/ /\ pc[e] = "insert"
       /\ \E m \in todo[e] : Current(e, m) /\ NewRow(e, m)
       /\ rows' # rows
       /\ Len(rows') = Len(rows) + 1
       /\ Len(rows') <= MaxRows /\ Queue!Enqueue(Len(rows'))

LEMMA HandleRows ==
    ASSUME TypeOK, NEW e \in Events, Handle(e)
    PROVE  RowStep(e)
  <1>1. UNCHANGED rows \/
        (pc[e] = "insert" /\ \E m \in todo[e] : Current(e, m) /\ NewRow(e, m))
    BY DEF Handle, HandleEvent, ListRules, ListRulesFails, LookUp, LookUpFails,
           Insert, InsertFails, Acknowledge
  <1>2. CASE UNCHANGED rows
    BY <1>2 DEF Handle, Enqueue, RowStep
  <1>3. CASE pc[e] = "insert" /\ \E m \in todo[e] : Current(e, m) /\ NewRow(e, m)
    <2>1. PICK m \in todo[e] : NewRow(e, m)
      BY <1>3
    <2>2. m \in Match /\ runs[e] \in Nat
      BY RunsAssumption DEF TypeOK
    <2>3. /\ DOMAIN rows = 1 .. Len(rows) /\ DOMAIN rows' = 1 .. Len(rows) + 1
          /\ Len(rows) \in Nat
          /\ rows' \in Seq([event : Events, run : Nat, match : Match])
      BY <2>1, <2>2, NewRowEffect DEF TypeOK
    <2>4. Len(rows') \in Nat /\ DOMAIN rows' = 1 .. Len(rows')
      BY <2>3, LenProperties
    <2>5. Len(rows') = Len(rows) + 1
      BY <2>3, <2>4
    <2>6. rows' # rows
      BY <2>3, <2>5
    <2> QED
      BY <1>3, <2>5, <2>6 DEF Handle, Enqueue, RowStep
  <1> QED
    BY <1>1, <1>2, <1>3

\* What an attempt does to its row, whether it was overtaken or not: a row that
\* is not queued any more is marked only where ticks overlap.
LEMMA MarkStep ==
    ASSUME RowsAreInTheQueue, Len(rows) \in Nat,
           NEW d \in 1 .. MaxRows, Attempt(d) \/ Overtaken(d)
    PROVE  /\ UNCHANGED vars
           /\ d <= Len(rows)
           /\ attempts' = [attempts EXCEPT ![d] = @ + 1]
           /\ \E s \in {"queued", "delivered", "failed"} :
                 status' = [status EXCEPT ![d] = s]
           /\ status[d] = "queued" \/ Overrun > 0
  <1>1. UNCHANGED vars
    BY DEF Attempt, Overtaken
  <1>2. PICK n : Queue!Mark(d, n)
    BY DEF Attempt, Overtaken, Queue!Attempt, Queue!Overtaken
  <1>3. /\ attempts' = [attempts EXCEPT ![d] = @ + 1]
        /\ \E s \in {"queued", "delivered", "failed"} :
              status' = [status EXCEPT ![d] = s]
    BY <1>2 DEF Queue!Mark, Queue!Deliver, Queue!GiveUp, Queue!TryLater, Queue!Spend
  <1>4. CASE Attempt(d)
    <2>1. status[d] = "queued"
      BY <1>4 DEF Attempt, Queue!Attempt
    <2>2. d <= Len(rows)
      BY <2>1, RowsAssumption DEF RowsAreInTheQueue
    <2> QED
      BY <1>1, <1>3, <2>1, <2>2
  <1>5. CASE Overtaken(d)
    <2>1. Overrun > 0 /\ \E k \in 0 .. attempts[d] - 1 : TRUE
      BY <1>5 DEF Overtaken, Queue!Overtaken
    <2>2. attempts[d] # 0
      BY <2>1
    <2>3. d <= Len(rows)
      BY <2>2, RowsAssumption DEF RowsAreInTheQueue
    <2> QED
      BY <1>1, <1>3, <2>1, <2>3
  <1> QED
    BY <1>4, <1>5

LEMMA PipeInvInit == PipeInit => PipeInv
  <1> SUFFICES ASSUME PipeInit PROVE PipeInv
    OBVIOUS
  <1>1. OrderInv
    BY OrderInit DEF PipeInit
  <1>2. Len(rows) = 0
    BY DEF PipeInit, Init
  <1>3. RowsAreInTheQueue
    BY <1>2, RowsAssumption DEF PipeInit, Queue!Init, RowsAreInTheQueue
  <1>4. HandlingsAreNumbered
    BY DEF PipeInit, Init, HandlingsAreNumbered, Running
  <1> QED
    BY <1>1, <1>3, <1>4 DEF PipeInv

\* A step of a handler, for what the invariant says of its event.
LEMMA HandleRuns ==
    ASSUME TypeOK, NEW e \in Events, HandleEvent(e)
    PROVE  /\ UNCHANGED runs
           /\ pc' = [pc EXCEPT ![e] = pc'[e]]
           /\ Running(e)
  BY HandlerEffect
     DEF tables, HandleEvent, Running, ListRules, ListRulesFails, LookUp, LookUpFails,
         Insert, InsertFails, Acknowledge

LEMMA PipeInvStep == PipeInv /\ [PipeNext]_pipeVars => PipeInv'
  <1> SUFFICES ASSUME PipeInv, [PipeNext]_pipeVars PROVE PipeInv'
    OBVIOUS
  <1>1. TypeOK /\ [Next]_vars
    BY DEF PipeInv, OrderInv, PipeNext, pipeVars, Handle, Attempt, Overtaken, Around,
           Next, vars
  <1>2. OrderInv'
    BY <1>1, OrderStep DEF PipeInv
  <1>3. Len(rows) \in Nat
    BY <1>1, RowFields
  <1>4. HandlingsAreNumbered'
    <2> SUFFICES ASSUME NEW e \in Events, Running(e)' PROVE 1 <= runs'[e]
      BY DEF HandlingsAreNumbered
    <2>1. runs \in [Events -> Nat] /\ (Running(e) => 1 <= runs[e])
      BY <1>1, RunsAssumption DEF TypeOK, PipeInv, HandlingsAreNumbered
    <2>2. ASSUME NEW f \in Events, HandleEvent(f) PROVE 1 <= runs'[e]
      BY <1>1, <2>1, <2>2, HandleRuns DEF Running, TypeOK
    <2>3. ASSUME NEW f \in Events, HandOver(f) PROVE 1 <= runs'[e]
      BY <1>1, <2>1, <2>3 DEF HandOver, Goto, Running, TypeOK
    <2>4. CASE Crash
      BY <2>1, <2>4 DEF Crash, Running
    <2>5. CASE Admin \/ UNCHANGED vars
      BY <2>1, <2>5, AdminEffect DEF vars, handlers, Running
    <2> QED
      BY <1>1, <2>2, <2>3, <2>4, <2>5 DEF Next
  <1>5. RowsAreInTheQueue'
    <2> USE DEF PipeInv, RowsAreInTheQueue
    <2>1. ASSUME NEW e \in Events, Handle(e) PROVE RowsAreInTheQueue'
      <3>1. RowStep(e)
        BY <1>1, <2>1, HandleRows
      <3>2. CASE UNCHANGED <<rows, queueVars>>
        BY <3>2 DEF queueVars
      <3>3. CASE Len(rows') = Len(rows) + 1 /\ Len(rows') <= MaxRows
                   /\ Queue!Enqueue(Len(rows'))
        BY <1>3, <3>3, RowsAssumption DEF Queue!Enqueue
      <3> QED
        BY <3>1, <3>2, <3>3 DEF RowStep
    <2>2. ASSUME NEW d \in 1 .. MaxRows, Attempt(d) \/ Overtaken(d)
          PROVE  RowsAreInTheQueue'
      <3>1. PICK s \in {"queued", "delivered", "failed"} :
              status' = [status EXCEPT ![d] = s]
        BY <1>3, <2>2, MarkStep
      <3>2. /\ UNCHANGED rows /\ d <= Len(rows)
            /\ attempts' = [attempts EXCEPT ![d] = @ + 1]
        BY <1>3, <2>2, MarkStep DEF vars
      <3>3. attempts' \in [1 .. MaxRows -> Nat]
        BY <3>2
      <3> QED
        BY <1>3, <3>1, <3>2, <3>3
    <2>3. CASE Around
      BY <2>3, AdminEffect DEF Around, queueVars, Crash, HandOver
    <2>4. CASE UNCHANGED pipeVars
      BY <2>4 DEF pipeVars, vars, queueVars
    <2> QED
      BY <2>1, <2>2, <2>3, <2>4 DEF PipeNext
  <1> QED
    BY <1>2, <1>4, <1>5 DEF PipeInv

LEMMA PipeInvariant == PipeSpec => []PipeInv
  BY PipeInvInit, PipeInvStep, PTL DEF PipeSpec

-----------------------------------------------------------------------------
(* Every step of Pipeline is a step of Notification.                       *)

\* What a handler does to its matches is done to what its handling wants.
LEMMA LeftOfOne ==
    ASSUME PipeInv, NEW e \in Events, Running(e), UNCHANGED runs,
           todo' = [todo EXCEPT ![e] = todo'[e]]
    PROVE  /\ <<e, runs[e]>> \in Handlings
           /\ Left[<<e, runs[e]>>] = todo[e]
           /\ Left' = [Left EXCEPT ![<<e, runs[e]>>] = todo'[e]]
  <1> DEFINE h == <<e, runs[e]>>
  <1>1. runs[e] \in 1 .. MaxRuns
    BY RunsAssumption DEF PipeInv, OrderInv, TypeOK, HandlingsAreNumbered
  <1>2. h \in Handlings
    BY <1>1 DEF Handlings
  <1>3. ASSUME NEW g \in Handlings, g # h PROVE Left'[g] = Left[g]
    <2>1. g = <<g[1], g[2]>> /\ g[1] \in Events
      BY DEF Handlings
    <2>2. CASE g[1] = e
      BY <1>3, <2>1, <2>2 DEF Left
    <2>3. CASE g[1] # e
      BY <2>1, <2>3 DEF Left, PipeInv, OrderInv, TypeOK
    <2> QED
      BY <2>2, <2>3
  <1>4. Left[h] = todo[e] /\ Left'[h] = todo'[e]
    BY <1>2 DEF Left
  <1>5. Left' = [Left EXCEPT ![h] = todo'[e]]
    <2>1. DOMAIN Left = Handlings /\ DOMAIN Left' = Handlings
      BY DEF Left
    <2>2. Left' = [g \in Handlings |-> Left'[g]] /\ Left = [g \in Handlings |-> Left[g]]
      BY DEF Left
    <2> QED
      BY <1>2, <1>3, <1>4, <2>1, <2>2
  <1> QED
    BY <1>2, <1>4, <1>5

\* A new row is a delivery for a match that had none.
LEMMA RowIsOwed ==
    ASSUME PipeInv, NEW e \in Events, pc[e] = "insert", UNCHANGED runs,
           NEW m \in todo[e], NewRow(e, m), Len(rows') = Len(rows) + 1,
           Len(rows') <= MaxRows, Queue!Enqueue(Len(rows'))
    PROVE  Promise!Owe(<<e, runs[e]>>, m)
  <1>0. PICK new : new = Len(rows) + 1
    OBVIOUS
  <1>1. m \in Match /\ runs[e] \in Nat
    BY RunsAssumption DEF PipeInv, OrderInv, TypeOK
  <1>2. /\ DOMAIN rows = 1 .. Len(rows) /\ DOMAIN rows' = 1 .. new
        /\ Len(rows) \in Nat /\ Len(rows') = new
        /\ \A i \in DOMAIN rows : rows'[i] = rows[i]
        /\ rows'[new] = [event |-> e, run |-> runs[e], match |-> m]
    BY <1>0, <1>1, NewRowEffect DEF PipeInv, OrderInv, TypeOK
  <1>3. new \in 1 .. MaxRows /\ DOMAIN rows \subseteq 1 .. MaxRows
    BY <1>0, <1>2, RowsAssumption
  <1>4. status' = [status EXCEPT ![new] = "queued"]
    BY <1>2 DEF Queue!Enqueue
  <1>5. /\ status'[new] = "queued"
        /\ \A i \in DOMAIN rows : status'[i] = status[i]
    BY <1>2, <1>3, <1>4 DEF PipeInv, RowsAreInTheQueue
  <1>6. Delivery(new)' = [handling |-> <<e, runs[e]>>, message |-> m, fate |-> "owed"]
    <2>1. rows'[new].event = e /\ rows'[new].run = runs[e] /\ rows'[new].match = m
      BY <1>2
    <2> QED
      BY <1>5, <2>1 DEF Delivery
  <1>7. \A i \in DOMAIN rows : Delivery(i)' = Delivery(i)
    BY <1>2, <1>5 DEF Delivery
  <1>8. Made' = Made \cup {[handling |-> <<e, runs[e]>>, message |-> m, fate |-> "owed"]}
    <2>1. DOMAIN rows' = DOMAIN rows \cup {new}
      BY <1>0, <1>2
    <2>2. Made' = {Delivery(i)' : i \in DOMAIN rows'}
      BY DEF Made
    <2>3. Made = {Delivery(i) : i \in DOMAIN rows}
      BY DEF Made
    <2> QED
      BY <1>6, <1>7, <2>1, <2>2, <2>3
  <1>9. \A d \in Promise!DeliveriesOf(<<e, runs[e]>>) : d.message # m
    <2> SUFFICES ASSUME NEW i \in DOMAIN rows,
                        Delivery(i).handling = <<e, runs[e]>>,
                        Delivery(i).message = m
                 PROVE  FALSE
      BY DEF Promise!DeliveriesOf, Made
    <2>1. rows[i].event = e /\ rows[i].run = runs[e] /\ rows[i].match = m
      BY DEF Delivery
    <2>2. Before(m, m)
      BY <2>1 DEF PipeInv, OrderInv, TodoIsAhead
    <2> QED
      BY <1>1, <2>2, NotBeforeItself
  <1> QED
    BY <1>8, <1>9 DEF Promise!Owe

\* A handling that has not read the rules has no deliveries, and wants some of
\* the messages that rules can ask for.
LEMMA NothingBefore ==
    ASSUME PipeInv, NEW e \in Events, pc[e] = "rules"
    PROVE  /\ Promise!DeliveriesOf(<<e, runs[e]>>) = {}
           /\ todo[e] = {}
           /\ Matches(e) \subseteq Messages
  <1>1. todo[e] = {}
    BY DEF PipeInv, OrderInv, TodoOnlyInTheLoops
  <1>2. Promise!DeliveriesOf(<<e, runs[e]>>) = {}
    <2> SUFFICES ASSUME NEW i \in DOMAIN rows, Delivery(i).handling = <<e, runs[e]>>
                 PROVE  FALSE
      BY DEF Promise!DeliveriesOf, Made
    <2>1. rows[i].event = e /\ rows[i].run = runs[e]
      BY DEF Delivery
    <2>2. rows[i].run < runs[e] /\ runs[e] \in Nat
      BY <2>1, RunsAssumption DEF PipeInv, OrderInv, TypeOK, RowsAreOfHandlings
    <2> QED
      BY <2>1, <2>2
  <1>3. Matches(e) \subseteq Messages
    <2> SUFFICES ASSUME NEW r \in Rules, rule[r].enabled,
                        NEW i \in 1 .. Len(rule[r].targets)
                 PROVE  [rule |-> r, pos |-> i, target |-> rule[r].targets[i]]
                          \in Messages
      BY DEF Matches
    <2>1. rule[r] \in RuleConfigs[r]
      BY DEF PipeInv, OrderInv, TypeOK, NoRule
    <2> QED
      BY <2>1 DEF Messages
  <1> QED
    BY <1>1, <1>2, <1>3

\* A step of a handler.
LEMMA HandleStep ==
    ASSUME PipeInv, NEW e \in Events, Handle(e)
    PROVE  Promise!Next \/ UNCHANGED Promise!vars
  <1> DEFINE h == <<e, runs[e]>>
  <1>1. TypeOK /\ HandleEvent(e)
    BY DEF PipeInv, OrderInv, Handle
  <1>2. /\ UNCHANGED runs /\ Running(e)
        /\ todo' = [todo EXCEPT ![e] = todo'[e]]
    BY <1>1, HandleRuns, HandlerEffect
  <1>3. /\ h \in Handlings /\ Left[h] = todo[e]
        /\ Left' = [Left EXCEPT ![h] = todo'[e]]
    BY <1>2, LeftOfOne
  <1>4. RowStep(e)
    BY <1>1, HandleRows
  <1>5. ASSUME UNCHANGED rows PROVE UNCHANGED Made
    BY <1>4, <1>5 DEF RowStep, Made, Delivery, queueVars
  <1>6. ASSUME NEW m \in todo[e], NewRow(e, m), pc[e] = "insert", rows' # rows
        PROVE  Promise!Owe(h, m)
    BY <1>2, <1>4, <1>6, RowIsOwed DEF RowStep
  <1>7. Left \in [Handlings -> SUBSET Match]
    BY <1>1 DEF Left, Handlings, TypeOK
  <1> HIDE DEF h
  <1>8. CASE ListRules(e)
    <2>1. UNCHANGED Made /\ todo'[e] = Matches(e)
      BY <1>1, <1>5, <1>8 DEF ListRules, TypeOK
    <2>2. /\ Promise!DeliveriesOf(h) = {} /\ Left[h] = {}
          /\ Matches(e) \subseteq Messages
      BY <1>3, <1>8, NothingBefore DEF ListRules, h
    <2>3. CASE Matches(e) = {}
      BY <1>3, <1>7, <2>1, <2>2, <2>3 DEF Promise!vars
    <2>4. CASE Matches(e) # {}
      <3>1. Left'[h] = Matches(e) /\ \A g \in Handlings \ {h} : Left'[g] = Left[g]
        BY <1>3, <1>7, <2>1
      <3>2. Promise!Want(h)
        BY <2>1, <2>2, <2>4, <3>1 DEF Promise!Want
      <3> QED
        BY <1>3, <3>2 DEF Promise!Next
    <2> QED
      BY <2>3, <2>4
  <1>9. ASSUME UNCHANGED <<rows, todo>> PROVE UNCHANGED Promise!vars
    BY <1>2, <1>5, <1>9 DEF Promise!vars, Left
  <1>10. ASSUME NEW m \in todo[e], todo'[e] = todo[e] \ {m},
                UNCHANGED rows \/ Promise!Owe(h, m)
         PROVE  Promise!Next
    <2>1. Promise!Handle(h)
      BY <1>3, <1>5, <1>10 DEF Promise!Handle
    <2> QED
      BY <1>3, <2>1 DEF Promise!Next
  <1>11. ASSUME NEW m \in todo[e], Advance(e, m) PROVE todo'[e] = todo[e] \ {m}
    BY <1>1, <1>11 DEF Advance, TypeOK
  <1>12. CASE LookUp(e)
    BY <1>9, <1>10, <1>11, <1>12 DEF LookUp
  <1>13. CASE LookUpFails(e)
    BY <1>10, <1>11, <1>13 DEF LookUpFails
  <1>14. CASE Insert(e)
    BY <1>6, <1>10, <1>11, <1>14 DEF Insert
  <1>15. CASE ListRulesFails(e)
    <2>1. todo[e] = {} /\ todo'[e] = {} /\ UNCHANGED rows
      BY <1>1, <1>15, NothingBefore DEF ListRulesFails, Abandon, TypeOK
    <2>2. UNCHANGED todo
      BY <1>1, <1>2, <2>1 DEF TypeOK
    <2> QED
      BY <1>9, <2>1, <2>2
  <1>16. CASE InsertFails(e)
    <2>1. todo'[e] = {}
      BY <1>1, <1>16 DEF InsertFails, Abandon, TypeOK
    <2>2. CASE todo[e] = {}
      <3>1. UNCHANGED rows
        BY <1>16, <2>2 DEF InsertFails
      <3>2. UNCHANGED todo
        BY <1>1, <1>2, <2>1, <2>2 DEF TypeOK
      <3> QED
        BY <1>9, <3>1, <3>2
    <2>3. CASE todo[e] # {}
      <3>1. UNCHANGED rows \/ \E m \in todo[e] : Promise!Owe(h, m)
        BY <1>6, <1>16 DEF InsertFails
      <3>2. Promise!BreakOff(h)
        BY <1>3, <1>5, <2>1, <2>3, <3>1 DEF Promise!BreakOff
      <3> QED
        BY <1>3, <3>2 DEF Promise!Next
    <2> QED
      BY <2>2, <2>3
  <1>17. CASE Acknowledge(e)
    BY <1>9, <1>17 DEF Acknowledge
  <1> QED
    BY <1>1, <1>8, <1>12, <1>13, <1>14, <1>15, <1>16, <1>17 DEF HandleEvent

\* A step of the poller settles one delivery, leaves it owed, or, where ticks
\* overlap, reopens it.
LEMMA AttemptStep ==
    ASSUME PipeInv, NEW d \in 1 .. MaxRows, Attempt(d) \/ Overtaken(d)
    PROVE  Promise!Next \/ UNCHANGED Promise!vars
  <1>0. DOMAIN rows = 1 .. Len(rows) /\ Len(rows) \in Nat
    BY RowFields DEF PipeInv, OrderInv
  <1>1. PICK s \in {"queued", "delivered", "failed"} :
          status' = [status EXCEPT ![d] = s]
    BY <1>0, MarkStep DEF PipeInv
  <1>2. /\ UNCHANGED <<rows, Left>> /\ d \in DOMAIN rows
        /\ status[d] = "queued" \/ Overrun > 0
    BY <1>0, MarkStep DEF PipeInv, vars, handlers, Left
  <1>3. /\ status[d] \in {"queued", "delivered", "failed"} /\ status'[d] = s
        /\ \A i \in DOMAIN rows : i # d => status'[i] = status[i]
    BY <1>0, <1>1, <1>2 DEF PipeInv, RowsAreInTheQueue
  <1>4. CASE status[d] = s
    <2>1. \A i \in DOMAIN rows : Delivery(i)' = Delivery(i)
      BY <1>2, <1>3, <1>4 DEF Delivery
    <2>2. Made' = Made
      BY <1>2, <2>1 DEF Made
    <2> QED
      BY <1>2, <2>2 DEF Promise!vars
  <1>5. CASE status[d] # s
    <2> DEFINE end == IF s = "queued" THEN "owed" ELSE s
    <2>1. /\ end \in {"owed", "delivered", "failed"}
          /\ Delivery(d)' = [Delivery(d) EXCEPT !.fate = end]
          /\ Delivery(d).fate # end /\ Delivery(d)'.fate = end
          /\ Delivery(d).fate = "owed" <=> status[d] = "queued"
      BY <1>2, <1>3, <1>5 DEF Delivery
    <2> HIDE DEF end
    <2>2. ASSUME NEW i \in DOMAIN rows, i # d
          PROVE  Delivery(i)' = Delivery(i) /\ Delivery(i) # Delivery(d)
      <3>1. Delivery(i)' = Delivery(i)
        BY <1>2, <1>3, <2>2 DEF Delivery
      <3>2. ASSUME Delivery(i) = Delivery(d) PROVE FALSE
        <4>1. /\ rows[i].event = rows[d].event /\ rows[i].run = rows[d].run
              /\ rows[i].match = rows[d].match
          BY <3>2 DEF Delivery
        <4> QED
          BY <1>2, <2>2, <4>1, RowsAreDistinct DEF PipeInv
      <3> QED
        BY <3>1, <3>2
    <2>3. /\ Made = {Delivery(i) : i \in DOMAIN rows}
          /\ Made' = {Delivery(i)' : i \in DOMAIN rows}
      BY <1>2 DEF Made
    <2>4. /\ Made' = (Made \ {Delivery(d)}) \cup {[Delivery(d) EXCEPT !.fate = end]}
          /\ Delivery(d) \in Made /\ Delivery(d) \notin Made'
      <3> DEFINE settled == [Delivery(d) EXCEPT !.fate = end]
      <3>1. settled # Delivery(d)
        BY <2>1
      <3>2. Delivery(d) \in Made /\ Delivery(d) \notin Made'
        BY <1>2, <2>1, <2>2, <2>3, <3>1
      <3>3. settled \in Made'
        BY <1>2, <2>1, <2>3
      <3>4. ASSUME NEW x \in Made, x # Delivery(d) PROVE x \in Made'
        BY <2>2, <2>3, <3>4
      <3>5. ASSUME NEW x \in Made', x # settled PROVE x \in Made
        BY <2>1, <2>2, <2>3, <3>5
      <3> HIDE DEF settled
      <3>6. Made' = (Made \ {Delivery(d)}) \cup {settled}
        BY <3>2, <3>3, <3>4, <3>5
      <3> QED
        BY <3>2, <3>6 DEF settled
    <2>5. Delivery(d) \in Made /\ Promise!Become(Delivery(d), end)
      BY <2>1, <2>4 DEF Promise!Become
    <2>6. CASE status[d] = "queued"
      <3>1. end \in {"delivered", "failed"}
        BY <2>1, <2>6
      <3>2. Promise!Settle(Delivery(d))
        BY <2>1, <2>5, <2>6, <3>1 DEF Promise!Settle
      <3> QED
        BY <1>2, <2>5, <3>2 DEF Promise!SettleSome, Promise!Next
    <2>7. CASE status[d] # "queued"
      <3>1. Promise!Reopen(Delivery(d))
        BY <1>2, <2>1, <2>5, <2>7 DEF Promise!Reopen
      <3> QED
        BY <1>2, <2>5, <3>1 DEF Promise!ReopenSome, Promise!Next
    <2> QED
      BY <2>6, <2>7
  <1> QED
    BY <1>4, <1>5

\* The host and the administrator change nothing that is promised, a crash ends
\* every handling.
LEMMA AroundStep ==
    ASSUME PipeInv, Around
    PROVE  Promise!Next \/ UNCHANGED Promise!vars
  <1>1. UNCHANGED Made
    BY AdminEffect DEF Around, Crash, HandOver, Made, Delivery, queueVars
  <1>2. CASE Admin
    BY <1>1, <1>2, AdminEffect DEF handlers, Left, Promise!vars
  <1>3. CASE Crash
    <2>1. Left' = [h \in Handlings |-> {}]
      BY <1>3 DEF Crash, Left, handlers, Handlings
    <2>2. Promise!Crash
      BY <1>1, <2>1 DEF Promise!Crash
    <2> QED
      BY <2>2 DEF Promise!Next
  <1>4. ASSUME NEW e \in Events, HandOver(e) PROVE UNCHANGED Promise!vars
    <2>1. UNCHANGED todo /\ todo[e] = {}
      BY <1>4 DEF HandOver, PipeInv, OrderInv, TodoOnlyInTheLoops
    <2>2. \A f \in Events : f # e => runs'[f] = runs[f]
      BY <1>4 DEF HandOver, PipeInv, OrderInv, TypeOK
    <2>3. ASSUME NEW g \in Handlings PROVE Left'[g] = Left[g]
      <3>1. g[1] \in Events
        BY DEF Handlings
      <3>2. CASE g[1] = e
        <4>1. todo[g[1]] = {} /\ todo'[g[1]] = {}
          BY <2>1, <3>2
        <4> QED
          BY <4>1 DEF Left
      <3>3. CASE g[1] # e
        BY <2>1, <2>2, <3>1, <3>3 DEF Left
      <3> QED
        BY <3>2, <3>3
    <2>4. Left' = Left
      BY <2>3 DEF Left
    <2> QED
      BY <1>1, <2>4 DEF Promise!vars
  <1> QED
    BY <1>2, <1>3, <1>4 DEF Around

\* Consumer and queue together keep the promise: each handling turns each of its
\* matches into one delivery or waives it, whatever fails or interleaves.  A
\* delivery that was settled is touched again only where ticks overlap, that is
\* where the queue is given an Overrun: then the mark of a tick that was
\* overtaken may reopen it (consumer.go:33-79, poll.go:41-63, main.go:98,120).
THEOREM PipelineKeepsItsPromise == PipeSpec => Promise!Spec
  <1>1. PipeInit => Promise!Init
    <2> SUFFICES ASSUME PipeInit PROVE Promise!Init
      OBVIOUS
    <2>1. Made = {}
      BY DEF PipeInit, Init, Made
    <2>2. Left = [h \in Handlings |-> {}]
      BY DEF PipeInit, Init, Left, Handlings
    <2> QED
      BY <2>1, <2>2 DEF Promise!Init
  <1>2. PipeInv /\ [PipeNext]_pipeVars => [Promise!Next]_(Promise!vars)
    <2> SUFFICES ASSUME PipeInv, [PipeNext]_pipeVars
                 PROVE  Promise!Next \/ UNCHANGED Promise!vars
      OBVIOUS
    <2>1. CASE UNCHANGED pipeVars
      BY <2>1 DEF pipeVars, vars, handlers, queueVars, Promise!vars, Left, Made,
                  Delivery
    <2> QED
      BY <2>1, HandleStep, AttemptStep, AroundStep DEF PipeNext
  <1> QED
    BY <1>1, <1>2, PipeInvariant, PTL DEF PipeSpec, Promise!Spec
=============================================================================
