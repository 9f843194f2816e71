----------------------------- MODULE AdminPanel -----------------------------
(***************************************************************************)
(* The admin page (web/src/App.tsx) and the tables it shows: clicks start  *)
(* asynchronous functions that overlap, each of them one or more calls of  *)
(* api() and, after a change, a load of all lists at once (Promise.all).   *)
(* Every call first waits for a token; the page has it from its URL or     *)
(* fetches it once for all calls that wait.                                *)
(*                                                                         *)
(* The content of a list is the number of changes made to it so far.  What *)
(* is typed into forms, filters and layout are left out.                   *)
(***************************************************************************)
EXTENDS Integers, FiniteSets

CONSTANTS
    Lists,        \* what a load fetches: targets, rules, contacts, ...
    Contacts,     \* the list that "Sync emails" writes to
    Users,        \* for each of whom it makes one call
    Slots,        \* room for the functions under way; bounds their number
    MaxClicks,
    MaxElsewhere, \* bound on changes by others: administrators, the poller
    MaxFaults     \* bound on answers that are lost

ASSUME ContactsIsAList == Contacts \in Lists
ASSUME CallsAreDistinct == Lists \cap Users = {}
ASSUME PanelBounds == {MaxClicks, MaxElsewhere, MaxFaults} \subseteq Nat

VARIABLES
    table,     \* the lists at the server
    shown,     \* the lists on the page
    task,      \* the functions under way
    loads,     \* how many loads were started
    applied,   \* which of them is shown
    cached,    \* whether the page holds a token
    stored,    \* whether the browser stores a refresh token
    refreshes, \* refresh calls under way
    disturbed, \* what has changed a list since the last load began, unseen
    clicks, elsewhere, faults

page   == <<shown, task, loads, applied>>
token  == <<cached, stored, refreshes>>
bounds == <<clicks, elsewhere, faults>>
vars == <<table, page, token, disturbed, bounds>>

Calls == Lists \cup Users

Stages == {"none", "waiting", "sent", "done"}

\* kind "change": a save, or a run of the poller, of one list.
Kinds == {"none", "load", "change", "delete", "sync"}

Versions == 0 .. MaxElsewhere + MaxClicks * (1 + Cardinality(Users))

Task == [kind : Kinds, list : Lists, call : [Calls -> Stages],
         got : [Lists -> Versions], seq : 0 .. MaxClicks,
         failed : BOOLEAN, alone : BOOLEAN]

TypeOK ==
    /\ table \in [Lists -> Versions]
    /\ shown \in [Lists -> Versions]
    /\ task \in [Slots -> Task]
    /\ loads \in 0 .. MaxClicks
    /\ applied \in 0 .. loads
    /\ cached \in BOOLEAN /\ stored \in BOOLEAN
    /\ refreshes \in 0 .. Cardinality(Slots)
    /\ disturbed \subseteq {"elsewhere", "lost", "deleted"}
    /\ clicks \in 0 .. MaxClicks
    /\ elsewhere \in 0 .. MaxElsewhere
    /\ faults \in 0 .. MaxFaults

NoList == [l \in Lists |-> 0]

Idle == [kind |-> "none", list |-> Contacts, call |-> [c \in Calls |-> "none"],
         got |-> NoList, seq |-> 0, failed |-> FALSE, alone |-> FALSE]

\* captureTokenFromURL: the link to the page may bring a token along.
Init ==
    /\ table = NoList
    /\ shown = NoList
    /\ task = [s \in Slots |-> Idle]
    /\ loads = 0
    /\ applied = 0
    /\ cached \in BOOLEAN
    /\ stored \in BOOLEAN
    /\ refreshes = 0
    /\ disturbed = {}
    /\ clicks = 0
    /\ elsewhere = 0
    /\ faults = 0

-----------------------------------------------------------------------------
(* Tokens.                                                                 *)

\* authHeaders: with a token the call is sent, and without one and without a
\* refresh token too; otherwise it waits for the refresh.
Issued == IF cached \/ ~stored THEN "sent" ELSE "waiting"

\* Mutation: every function that needs a token starts a refresh of its own.
NeedTokenEach ==
    refreshes' = IF Issued = "waiting" THEN refreshes + 1 ELSE refreshes

\* refreshAccessToken: whoever comes during a refresh shares it.
NeedToken ==
    refreshes' = IF Issued = "waiting" /\ refreshes = 0 THEN 1 ELSE refreshes

Resume ==
    task' = [s \in Slots |->
               [task[s] EXCEPT !.call = [c \in Calls |->
                  IF @[c] = "waiting" THEN "sent" ELSE @[c]]]]

\* Mutation: every call that waited ends the refresh.
RefreshedByEach ==
    /\ refreshes > 0
    /\ refreshes' = refreshes - Cardinality({x \in Slots \X Calls :
                                  task[x[1]].call[x[2]] = "waiting"})
    /\ cached' \in BOOLEAN
    /\ Resume
    /\ UNCHANGED <<table, shown, loads, applied, stored, disturbed, bounds>>

\* The answer to the refresh, and .finally; the calls that waited are made with
\* a token or, after a refusal, without one.
Refreshed ==
    /\ refreshes > 0
    /\ refreshes' = refreshes - 1
    /\ cached' \in BOOLEAN
    /\ Resume
    /\ UNCHANGED <<table, shown, loads, applied, stored, disturbed, bounds>>

-----------------------------------------------------------------------------
(* Clicks.                                                                 *)

Issue(calls) ==
    [c \in Calls |-> IF c \in calls THEN Issued ELSE "none"]

IsLoading(s) == task[s].kind = "load"

LoadTask == [Idle EXCEPT !.kind = "load", !.call = Issue(Lists),
                         !.seq = loads + 1,
                         !.alone = \A s \in Slots : ~IsLoading(s)]

\* load, in the given slot: what was changed so far will be seen.
Load(slot) ==
    /\ task' = [s \in Slots |->
                  IF s = slot THEN LoadTask
                  ELSE [task[s] EXCEPT !.alone = FALSE]]
    /\ loads' = loads + 1
    /\ disturbed' = {}
    /\ NeedToken

Click(slot) ==
    /\ task[slot].kind = "none"
    /\ clicks < MaxClicks
    /\ clicks' = clicks + 1

\* useEffect, and the Refresh button.
Refresh(slot) ==
    /\ Click(slot)
    /\ Load(slot)
    /\ UNCHANGED <<table, shown, applied, cached, stored, elsewhere, faults>>

\* saveTarget, saveRule, saveContact and the Run button change one list, the
\* bin of a row deletes from one, and syncEmailContacts makes a call for each
\* user.  The page has been loaded before.
Change(slot, kind, l) ==
    /\ Click(slot)
    /\ loads > 0
    /\ kind = "sync" => l = Contacts
    /\ task' = [task EXCEPT ![slot] =
                  [Idle EXCEPT !.kind = kind, !.list = l,
                     !.call = Issue(IF kind = "sync" THEN Users ELSE {l})]]
    /\ NeedToken
    /\ UNCHANGED <<table, shown, loads, applied, cached, stored, disturbed,
                   elsewhere, faults>>

-----------------------------------------------------------------------------
(* Calls.                                                                  *)

\* What the server does with a call of the task: read a list or change one.
Effect(s, c) ==
    IF IsLoading(s)
    THEN /\ task' = [task EXCEPT ![s].call[c] = "done", ![s].got[c] = table[c]]
         /\ UNCHANGED table
    ELSE /\ table' = [table EXCEPT ![task[s].list] = @ + 1]
         /\ task' = [task EXCEPT ![s].call[c] = "done"]

\* A call comes with a token or only with the cookies of the browser; whether
\* that is enough, the host decides before it passes the call to the plugin.
Serve(s, c) ==
    /\ task[s].call[c] = "sent"
    /\ Effect(s, c)
    /\ UNCHANGED <<shown, loads, applied, token, disturbed, bounds>>

Fail(s, c) == task' = [task EXCEPT ![s].call[c] = "none", ![s].failed = TRUE]

\* The refresh was lost on its way, the host refuses, the plugin is not
\* configured, or the database fails: nothing has changed.
Refuse(s, c) ==
    /\ task[s].call[c] = "sent"
    /\ Fail(s, c)
    /\ UNCHANGED <<table, shown, loads, applied, token, disturbed, bounds>>

\* The server has made the change, and the page does not hear of it.
Lose(s, c) ==
    /\ task[s].call[c] = "sent" /\ ~IsLoading(s)
    /\ faults < MaxFaults
    /\ faults' = faults + 1
    /\ table' = [table EXCEPT ![task[s].list] = @ + 1]
    /\ Fail(s, c)
    /\ disturbed' = disturbed \cup {"lost"}
    /\ UNCHANGED <<shown, loads, applied, token, clicks, elsewhere>>

-----------------------------------------------------------------------------
(* The functions go on when all of their calls have ended.                 *)

Answered(s) == \A c \in Calls : task[s].call[c] \in {"none", "done"}

\* Mutation: whatever has arrived is shown, the rest stays empty.
ShowWhatThereIs(s) ==
    /\ IsLoading(s) /\ Answered(s)
    /\ shown' = task[s].got
    /\ applied' = task[s].seq
    /\ task' = [task EXCEPT ![s] = Idle]
    /\ UNCHANGED <<table, loads, token, disturbed, bounds>>

\* Promise.all: all lists of a load are shown, or none.
Show(s) ==
    /\ IsLoading(s) /\ Answered(s) /\ ~task[s].failed
    /\ shown' = task[s].got
    /\ applied' = task[s].seq
    /\ task' = [task EXCEPT ![s] = Idle]
    /\ UNCHANGED <<table, loads, token, disturbed, bounds>>

\* Mutation: no load follows a change.
RestAfterChange(s) ==
    /\ task[s].kind \in {"change", "sync"} /\ Answered(s) /\ ~task[s].failed
    /\ task' = [task EXCEPT ![s] = Idle]
    /\ UNCHANGED <<table, shown, loads, applied, token, disturbed, bounds>>

\* A change is followed by a load.
LoadAfterChange(s) ==
    /\ task[s].kind \in {"change", "sync"} /\ Answered(s) /\ ~task[s].failed
    /\ Load(s)
    /\ UNCHANGED <<table, shown, applied, cached, stored, bounds>>

\* api rejects whatever is not JSON before it looks at the status, and the 204
\* that answers a deletion has no content type: no load follows it.
RejectNoContent(s) ==
    /\ task[s].kind = "delete" /\ Answered(s) /\ ~task[s].failed
    /\ task' = [task EXCEPT ![s] = Idle]
    /\ disturbed' = disturbed \cup {"deleted"}
    /\ UNCHANGED <<table, shown, loads, applied, token, bounds>>

\* A call was rejected: no load, even if other calls of the task made a change.
GiveUp(s) ==
    /\ task[s].failed /\ Answered(s)
    /\ task' = [task EXCEPT ![s] = Idle]
    /\ disturbed' = IF ~IsLoading(s) /\ \E c \in Calls : task[s].call[c] = "done"
                    THEN disturbed \cup {"lost"} ELSE disturbed
    /\ UNCHANGED <<table, shown, loads, applied, token, bounds>>

\* Another administrator, or the poller, makes one change of one list.
ChangeElsewhere(l) ==
    /\ elsewhere < MaxElsewhere
    /\ elsewhere' = elsewhere + 1
    /\ table' = [table EXCEPT ![l] = @ + 1]
    /\ disturbed' = disturbed \cup {"elsewhere"}
    /\ UNCHANGED <<page, token, clicks, faults>>

-----------------------------------------------------------------------------
Continue(s) ==
    Show(s) \/ LoadAfterChange(s) \/ RejectNoContent(s) \/ GiveUp(s)

Next ==
    \/ \E s \in Slots : Refresh(s) \/ Continue(s)
    \/ \E s \in Slots, l \in Lists, kind \in {"change", "delete", "sync"} :
          Change(s, kind, l)
    \/ \E s \in Slots, c \in Calls : Serve(s, c) \/ Refuse(s, c) \/ Lose(s, c)
    \/ Refreshed
    \/ \E l \in Lists : ChangeElsewhere(l)

Spec == Init /\ [][Next]_vars

-----------------------------------------------------------------------------
(* Properties.                                                             *)

AtRest == \A s \in Slots : task[s].kind = "none"

\* A page at rest that shows the load it started last shows the tables as they
\* are, however its saves, runs and loads overlapped, unless something changed
\* a table that no load of this page follows: someone else, a change whose
\* answer was lost, a deletion (App.tsx:153-191).
PageCatchesUp ==
    AtRest /\ applied = loads /\ disturbed = {} => shown = table

\* The calls that need a token share one refresh, and none of them waits for a
\* refresh that is over (App.tsx:54-82).
RefreshIsShared ==
    /\ refreshes <= 1
    /\ (\E s \in Slots, c \in Calls : task[s].call[c] = "waiting") => refreshes = 1

\* The page goes back to an older state of a list only when two of its loads
\* were under way at once (App.tsx:153-167).
PageGoesBackOnlyOnOverlap ==
    [][\A s \in Slots :
          Show(s) /\ task[s].alone => \A l \in Lists : shown'[l] >= shown[l]]_vars

\* App.tsx:103, "if (r.status === 204) return null": the 204 of a deletion is a
\* success, after which the list is loaded again (App.tsx:262-264).
DeletedRowsDisappear ==
    AtRest /\ applied = loads /\ disturbed \subseteq {"deleted"} => shown = table
=============================================================================
