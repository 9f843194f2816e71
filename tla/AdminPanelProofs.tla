-------------------------- MODULE AdminPanelProofs --------------------------
(***************************************************************************)
(* Proofs about AdminPanel, for any number of functions under way at once, *)
(* clicks, lists, users, and changes by others.                            *)
(***************************************************************************)
EXTENDS AdminPanel, FiniteSetTheorems, TLAPS

\* What has been done to a list by a function of the page that has not ended.
Pending(l) ==
    \E s \in Slots : /\ task[s].kind \in {"change", "delete", "sync"}
                     /\ task[s].list = l
                     /\ \E c \in Calls : task[s].call[c] = "done"

AnyTask == [kind : Kinds, list : Lists, call : [Calls -> Stages],
            got : [Lists -> Nat], seq : Nat, failed : BOOLEAN, alone : BOOLEAN]

\* The types, but for the bounds of the instances that TLC checks.
Shape ==
    /\ table \in [Lists -> Nat]
    /\ shown \in [Lists -> Nat]
    /\ task \in [Slots -> AnyTask]
    /\ loads \in Nat
    /\ applied \in Nat
    /\ refreshes \in {0, 1}

\* Loads are numbered as they begin.
Numbered ==
    /\ applied <= loads
    /\ \A s \in Slots : task[s].seq <= loads

\* A slot without a function makes no calls, a load fetches every list.
Issuing ==
    \A s \in Slots :
        /\ task[s].kind = "none" => \A c \in Calls : task[s].call[c] = "none"
        /\ IsLoading(s) /\ ~task[s].failed =>
               \A l \in Lists : task[s].call[l] # "none"

\* Whoever waits waits for a refresh under way.
Waiting ==
    (\E s \in Slots, c \in Calls : task[s].call[c] = "waiting") => refreshes = 1

\* What the load that began last has brought, or has been shown of it, is what
\* the table holds, but for changes that another load will follow.
UpToDate ==
    disturbed = {} =>
        /\ applied = loads => \A l \in Lists : shown[l] = table[l] \/ Pending(l)
        /\ \A s \in Slots, l \in Lists :
              IsLoading(s) /\ task[s].seq = loads /\ task[s].call[l] = "done" =>
                  task[s].got[l] = table[l] \/ Pending(l)

\* Nothing is shown or brought that is newer than the table, and a load that is
\* alone brings nothing older than what is shown.
Alone ==
    /\ \A l \in Lists : shown[l] <= table[l]
    /\ \A s \in Slots, l \in Lists :
          IsLoading(s) /\ task[s].call[l] = "done" =>
              /\ task[s].got[l] <= table[l]
              /\ task[s].alone => shown[l] <= task[s].got[l]
    /\ \A s, r \in Slots : task[s].alone => IsLoading(s) /\ (IsLoading(r) => r = s)

PanelInv == Shape /\ Numbered /\ Issuing /\ Waiting /\ UpToDate /\ Alone

-----------------------------------------------------------------------------
\* The first state of the page satisfies the invariant.
LEMMA PanelInit == Init => PanelInv
  <1> SUFFICES ASSUME Init PROVE PanelInv
    OBVIOUS
  <1> USE DEF Init, NoList, Idle, IsLoading
  <1>1. \A s \in Slots : task[s] = Idle
    OBVIOUS
  <1>2. Idle \in AnyTask
    BY ContactsIsAList DEF AnyTask, Kinds, Stages
  <1>3. Shape
    BY <1>1, <1>2 DEF Shape
  <1>4. Numbered /\ Issuing /\ Waiting /\ UpToDate /\ Alone
    BY <1>1 DEF Numbered, Issuing, Waiting, UpToDate, Alone, Calls
  <1> QED
    BY <1>3, <1>4 DEF PanelInv

\* A call that is made is sent or waits for a token.
LEMMA IssueType ==
    ASSUME NEW calls
    PROVE  /\ Issued \in {"sent", "waiting"}
           /\ Issue(calls) \in [Calls -> {"none", "sent", "waiting"}]
           /\ \A c \in Calls : c \in calls => Issue(calls)[c] = Issued
           /\ \A c \in Calls : c \notin calls => Issue(calls)[c] = "none"
  BY DEF Issued, Issue

\* A slot without a function, a load that begins and a change that begins are
\* well typed.
LEMMA TaskTypes ==
    ASSUME Shape
    PROVE  /\ Idle \in AnyTask
           /\ LoadTask \in AnyTask
           /\ \A calls : \A kind \in {"change", "delete", "sync"}, l \in Lists :
                 [Idle EXCEPT !.kind = kind, !.list = l, !.call = Issue(calls)]
                     \in AnyTask
  <1>1. Idle \in AnyTask
    BY ContactsIsAList DEF AnyTask, Idle, NoList, Kinds, Stages
  <1>2. \A calls : Issue(calls) \in [Calls -> Stages]
    BY IssueType DEF Stages
  <1>3. LoadTask \in AnyTask
    <2> DEFINE alone == \A s \in Slots : ~IsLoading(s)
    <2>1. LoadTask = [Idle EXCEPT !.kind = "load", !.call = Issue(Lists),
                                  !.seq = loads + 1, !.alone = alone]
      BY Zenon DEF LoadTask
    <2>2. alone \in BOOLEAN
      BY Zenon
    <2> HIDE DEF alone
    <2>3. loads + 1 \in Nat
      BY DEF Shape
    <2> QED
      BY <2>1, <2>2, <2>3, <1>1, <1>2 DEF AnyTask, Kinds, Idle
  <1>4. ASSUME NEW kind \in {"change", "delete", "sync"}, NEW l \in Lists, NEW calls
        PROVE  [Idle EXCEPT !.kind = kind, !.list = l, !.call = Issue(calls)]
                   \in AnyTask
    BY <1>1, <1>2 DEF AnyTask, Kinds, Idle, NoList
  <1> QED
    BY <1>1, <1>3, <1>4

\* A step that leaves what a slot does as it is, but for its calls.
SameFunction(s) ==
    /\ task'[s].kind = task[s].kind
    /\ task'[s].list = task[s].list
    /\ task'[s].seq = task[s].seq

\* A load that begins in a slot is a task of that slot; the others are not alone.
LEMMA LoadEffect ==
    ASSUME Shape, NEW s \in Slots, Load(s)
    PROVE  /\ task' \in [Slots -> AnyTask]
           /\ task'[s] = LoadTask
           /\ \A r \in Slots \ {s} :
                 /\ SameFunction(r)
                 /\ task'[r].call = task[r].call /\ task'[r].got = task[r].got
                 /\ task'[r].failed = task[r].failed /\ task'[r].alone = FALSE
  <1>1. task \in [Slots -> AnyTask]
    BY DEF Shape
  <1>2. LoadTask \in AnyTask
    BY TaskTypes
  <1>3. ASSUME NEW t \in AnyTask PROVE [t EXCEPT !.alone = FALSE] \in AnyTask
    BY DEF AnyTask
  <1>4. task' = [r \in Slots |-> IF r = s THEN LoadTask
                                 ELSE [task[r] EXCEPT !.alone = FALSE]]
    BY DEF Load
  <1>5. task' \in [Slots -> AnyTask] /\ task'[s] = LoadTask
    BY <1>1, <1>2, <1>3, <1>4
  <1>6. ASSUME NEW r \in Slots \ {s}
        PROVE  /\ SameFunction(r)
               /\ task'[r].call = task[r].call /\ task'[r].got = task[r].got
               /\ task'[r].failed = task[r].failed /\ task'[r].alone = FALSE
    <2>1. task'[r] = [task[r] EXCEPT !.alone = FALSE] /\ task[r] \in AnyTask
      BY <1>1, <1>4
    <2> QED
      BY <2>1 DEF AnyTask, SameFunction
  <1> QED
    BY <1>5, <1>6

\* A call that is served is done; a load has read a list, others have changed one.
LEMMA ServeEffect ==
    ASSUME Shape, NEW s \in Slots, NEW c \in Calls, Serve(s, c)
    PROVE  /\ task' \in [Slots -> AnyTask]
           /\ table' \in [Lists -> Nat]
           /\ \A r \in Slots \ {s} : task'[r] = task[r]
           /\ SameFunction(s)
           /\ task'[s].failed = task[s].failed /\ task'[s].alone = task[s].alone
           /\ \A d \in Calls :
                 task'[s].call[d] = IF d = c THEN "done" ELSE task[s].call[d]
           /\ IsLoading(s) =>
                 /\ table' = table
                 /\ \A l \in Lists :
                       task'[s].got[l] = IF l = c THEN table[l] ELSE task[s].got[l]
           /\ ~IsLoading(s) =>
                 /\ task'[s].got = task[s].got
                 /\ \A l \in Lists :
                       table'[l] = IF l = task[s].list THEN table[l] + 1 ELSE table[l]
  <1> DEFINE t == task[s]
  <1>1. t \in AnyTask /\ task \in [Slots -> AnyTask] /\ table \in [Lists -> Nat]
    BY DEF Shape
  <1>2. CASE IsLoading(s)
    <2> DEFINE u == [t EXCEPT !.call = [t.call EXCEPT ![c] = "done"],
                              !.got = [t.got EXCEPT ![c] = table[c]]]
    <2>1. task' = [task EXCEPT ![s] = u] /\ table' = table
      BY <1>1, <1>2 DEF Serve, Effect, AnyTask
    <2>2. [t.got EXCEPT ![c] = table[c]] \in [Lists -> Nat]
      BY <1>1 DEF AnyTask
    <2>3. u \in AnyTask
      BY <1>1, <2>2 DEF AnyTask, Stages
    <2>4. /\ u.kind = t.kind /\ u.list = t.list /\ u.seq = t.seq
          /\ u.failed = t.failed /\ u.alone = t.alone
      BY <1>1 DEF AnyTask
    <2>5. \A d \in Calls : u.call[d] = IF d = c THEN "done" ELSE t.call[d]
      BY <1>1 DEF AnyTask
    <2>6. \A l \in Lists : u.got[l] = IF l = c THEN table[l] ELSE t.got[l]
      BY <1>1 DEF AnyTask
    <2> HIDE DEF u
    <2>7. /\ task' \in [Slots -> AnyTask] /\ task'[s] = u
          /\ \A r \in Slots \ {s} : task'[r] = task[r]
      BY <2>1, <2>3, <1>1
    <2> QED
      BY <2>1, <2>4, <2>5, <2>6, <2>7, <1>1, <1>2 DEF SameFunction
  <1>3. CASE ~IsLoading(s)
    <2> DEFINE u == [t EXCEPT !.call = [t.call EXCEPT ![c] = "done"]]
    <2>1. task' = [task EXCEPT ![s] = u] /\ table' = [table EXCEPT ![t.list] = @ + 1]
      BY <1>1, <1>3 DEF Serve, Effect, AnyTask
    <2>2. u \in AnyTask
      BY <1>1 DEF AnyTask, Stages
    <2>3. /\ u.kind = t.kind /\ u.list = t.list /\ u.seq = t.seq
          /\ u.failed = t.failed /\ u.alone = t.alone /\ u.got = t.got
      BY <1>1 DEF AnyTask
    <2>4. \A d \in Calls : u.call[d] = IF d = c THEN "done" ELSE t.call[d]
      BY <1>1 DEF AnyTask
    <2>5. t.list \in Lists
      BY <1>1 DEF AnyTask
    <2>6. /\ table' \in [Lists -> Nat]
          /\ \A l \in Lists :
                table'[l] = IF l = t.list THEN table[l] + 1 ELSE table[l]
      BY <2>1, <2>5, <1>1
    <2> HIDE DEF u
    <2>7. /\ task' \in [Slots -> AnyTask] /\ task'[s] = u
          /\ \A r \in Slots \ {s} : task'[r] = task[r]
      BY <2>1, <2>2, <1>1
    <2> QED
      BY <2>3, <2>4, <2>6, <2>7, <1>3 DEF SameFunction
  <1> QED
    BY <1>2, <1>3

\* A call that is rejected fails its function.
LEMMA FailEffect ==
    ASSUME Shape, NEW s \in Slots, NEW c \in Calls, Fail(s, c)
    PROVE  /\ task' \in [Slots -> AnyTask]
           /\ \A r \in Slots \ {s} : task'[r] = task[r]
           /\ SameFunction(s)
           /\ task'[s].failed = TRUE /\ task'[s].alone = task[s].alone
           /\ task'[s].got = task[s].got
           /\ \A d \in Calls :
                 task'[s].call[d] = IF d = c THEN "none" ELSE task[s].call[d]
  <1> DEFINE t == task[s]
             u == [t EXCEPT !.call = [t.call EXCEPT ![c] = "none"], !.failed = TRUE]
  <1>1. t \in AnyTask /\ task \in [Slots -> AnyTask]
    BY DEF Shape
  <1>2. task' = [task EXCEPT ![s] = u]
    BY <1>1 DEF Fail, AnyTask
  <1>3. u \in AnyTask
    BY <1>1 DEF AnyTask, Stages
  <1>4. /\ u.kind = t.kind /\ u.list = t.list /\ u.seq = t.seq
        /\ u.failed = TRUE /\ u.alone = t.alone /\ u.got = t.got
        /\ \A d \in Calls : u.call[d] = IF d = c THEN "none" ELSE t.call[d]
    BY <1>1 DEF AnyTask
  <1> HIDE DEF u
  <1>5. /\ task' \in [Slots -> AnyTask] /\ task'[s] = u
        /\ \A r \in Slots \ {s} : task'[r] = task[r]
    BY <1>1, <1>2, <1>3
  <1> QED
    BY <1>4, <1>5 DEF SameFunction

\* The calls that waited go on, nothing else changes.
LEMMA ResumeEffect ==
    ASSUME Shape, Resume
    PROVE  /\ task' \in [Slots -> AnyTask]
           /\ \A s \in Slots :
                 /\ SameFunction(s)
                 /\ task'[s].failed = task[s].failed
                 /\ task'[s].alone = task[s].alone
                 /\ task'[s].got = task[s].got
                 /\ \A c \in Calls :
                       task'[s].call[c] = IF task[s].call[c] = "waiting" THEN "sent"
                                         ELSE task[s].call[c]
  <1> DEFINE calls(s) == [c \in Calls |-> IF task[s].call[c] = "waiting" THEN "sent"
                                         ELSE task[s].call[c]]
  <1>1. \A s \in Slots : task[s] \in AnyTask
    BY DEF Shape
  <1>2. \A s \in Slots : task'[s] = [task[s] EXCEPT !.call = calls(s)]
    BY <1>1 DEF Resume, AnyTask
  <1>3. \A s \in Slots : calls(s) \in [Calls -> Stages]
    BY <1>1 DEF AnyTask, Stages
  <1>4. \A s \in Slots : task'[s] \in AnyTask
    BY <1>1, <1>2, <1>3, ZenonT(30) DEF AnyTask
  <1>5. task' \in [Slots -> AnyTask]
    BY <1>4 DEF Resume
  <1>6. ASSUME NEW s \in Slots
        PROVE  /\ SameFunction(s)
               /\ task'[s].failed = task[s].failed
               /\ task'[s].alone = task[s].alone
               /\ task'[s].got = task[s].got
               /\ task'[s].call = calls(s)
    BY <1>1, <1>2 DEF AnyTask, SameFunction
  <1> QED
    BY <1>5, <1>6

\* A load that begins has brought nothing, and no call of it is left out.
LEMMA LoadBegins ==
    ASSUME Shape
    PROVE  /\ LoadTask.kind = "load" /\ LoadTask.seq = loads + 1 /\ ~LoadTask.failed
           /\ \A c \in Calls : LoadTask.call[c] # "done"
           /\ \A l \in Lists : LoadTask.call[l] # "none"
           /\ \A c \in Calls : LoadTask.call[c] = "waiting" => Issued = "waiting"
           /\ LoadTask.alone => \A s \in Slots : ~IsLoading(s)
  <1> DEFINE alone == \A s \in Slots : ~IsLoading(s)
  <1>1. LoadTask = [Idle EXCEPT !.kind = "load", !.call = Issue(Lists),
                                !.seq = loads + 1, !.alone = alone]
    BY Zenon DEF LoadTask
  <1> HIDE DEF alone
  <1>2. /\ LoadTask.kind = "load" /\ LoadTask.seq = loads + 1
        /\ LoadTask.failed = FALSE
        /\ LoadTask.call = Issue(Lists)
        /\ LoadTask.alone = alone
    BY <1>1 DEF Idle
  <1>3. LoadTask.alone => \A s \in Slots : ~IsLoading(s)
    BY <1>2, Zenon DEF alone
  <1> QED
    BY <1>2, <1>3, IssueType DEF Calls

\* A change that begins is the task of its slot, and has done nothing yet.
LEMMA ChangeEffect ==
    ASSUME Shape, NEW s \in Slots, NEW kind \in {"change", "delete", "sync"},
           NEW l \in Lists, Change(s, kind, l)
    PROVE  /\ \A r \in Slots \ {s} : task'[r] = task[r]
           /\ task'[s].kind = kind /\ task'[s].seq = 0
           /\ task'[s].alone = FALSE
           /\ \A c \in Calls : task'[s].call[c] # "done"
           /\ \A c \in Calls : task'[s].call[c] = "waiting" => Issued = "waiting"
           /\ task[s].kind = "none"
  <1> DEFINE calls == IF kind = "sync" THEN Users ELSE {l}
             t == [Idle EXCEPT !.kind = kind, !.list = l, !.call = Issue(calls)]
  <1>1. task' = [task EXCEPT ![s] = t] /\ task[s].kind = "none"
    BY DEF Change, Click
  <1>2. /\ t.kind = kind /\ t.seq = 0 /\ t.alone = FALSE
        /\ t.call = Issue(calls)
    BY DEF Idle
  <1>3. /\ \A c \in Calls : t.call[c] # "done"
        /\ \A c \in Calls : t.call[c] = "waiting" => Issued = "waiting"
    BY <1>2, IssueType
  <1> HIDE DEF t
  <1>4. task'[s] = t /\ \A r \in Slots \ {s} : task'[r] = task[r]
    BY <1>1 DEF Shape
  <1> QED
    BY <1>1, <1>2, <1>3, <1>4

\* A function that ends leaves its slot.
LEMMA EndEffect ==
    ASSUME Shape, NEW s \in Slots, task' = [task EXCEPT ![s] = Idle]
    PROVE  /\ \A r \in Slots \ {s} : task'[r] = task[r]
           /\ task'[s].kind = "none" /\ task'[s].seq = 0
           /\ task'[s].alone = FALSE
           /\ \A c \in Calls : task'[s].call[c] = "none"
  BY DEF Shape, Idle

-----------------------------------------------------------------------------
\* Every step keeps the types.
LEMMA ShapeStep == Shape /\ [Next]_vars => Shape'
  <1> SUFFICES ASSUME Shape, [Next]_vars PROVE Shape'
    OBVIOUS
  <1> USE DEF Shape, page, token, bounds
  <1>1. ASSUME NEW s \in Slots, Refresh(s) PROVE Shape'
    <2>1. Load(s) /\ UNCHANGED <<table, shown, applied>>
      BY <1>1 DEF Refresh
    <2>2. task' \in [Slots -> AnyTask]
      BY <2>1, LoadEffect
    <2> QED
      BY <2>1, <2>2 DEF Load, NeedToken
  <1>2. ASSUME NEW s \in Slots, NEW kind \in {"change", "delete", "sync"},
               NEW l \in Lists, Change(s, kind, l)
        PROVE  Shape'
    BY <1>2, TaskTypes, IssueType DEF Change, NeedToken
  <1>3. CASE Refreshed
    <2>1. Resume
      BY <1>3 DEF Refreshed
    <2> QED
      BY <1>3, <2>1, ResumeEffect DEF Refreshed
  <1>4. CASE UNCHANGED vars
    BY <1>4 DEF vars
  <1>5. ASSUME NEW s \in Slots, NEW c \in Calls, Serve(s, c) PROVE Shape'
    BY <1>5, ServeEffect DEF Serve
  <1>6. ASSUME NEW s \in Slots, NEW c \in Calls, Refuse(s, c) PROVE Shape'
    BY <1>6, FailEffect DEF Refuse
  <1>7. ASSUME NEW s \in Slots, NEW c \in Calls, Lose(s, c) PROVE Shape'
    <2>1. task[s].list \in Lists
      BY DEF AnyTask
    <2>2. table' \in [Lists -> Nat]
      BY <1>7, <2>1 DEF Lose
    <2>3. task' \in [Slots -> AnyTask]
      BY <1>7, FailEffect DEF Lose
    <2> QED
      BY <1>7, <2>2, <2>3 DEF Lose
  <1>8. ASSUME NEW s \in Slots, Show(s) PROVE Shape'
    BY <1>8, TaskTypes DEF Show, AnyTask
  <1>9. ASSUME NEW s \in Slots, LoadAfterChange(s) PROVE Shape'
    <2>1. Load(s) /\ UNCHANGED <<table, shown, applied>>
      BY <1>9 DEF LoadAfterChange
    <2>2. task' \in [Slots -> AnyTask]
      BY <2>1, LoadEffect
    <2> QED
      BY <2>1, <2>2 DEF Load, NeedToken
  <1>10. ASSUME NEW s \in Slots, RejectNoContent(s) PROVE Shape'
    BY <1>10, TaskTypes DEF RejectNoContent
  <1>11. ASSUME NEW s \in Slots, GiveUp(s) PROVE Shape'
    BY <1>11, TaskTypes DEF GiveUp
  <1>12. ASSUME NEW l \in Lists, ChangeElsewhere(l) PROVE Shape'
    BY <1>12 DEF ChangeElsewhere
  <1> QED
    BY <1>1, <1>2, <1>3, <1>4, <1>5, <1>6, <1>7, <1>8, <1>9, <1>10, <1>11, <1>12
       DEF Next, Continue


-----------------------------------------------------------------------------
(* What the steps do to the parts of the state that the invariant relates.  *)

\* The function in a slot and its result stay, and so do those of all others.
SameOthers(s) == \A r \in Slots \ {s} : task'[r] = task[r]

SamePage == UNCHANGED <<shown, loads, applied>>

\* A load begins in slot s.
Loads(s) ==
    /\ UNCHANGED <<table, shown, applied>>
    /\ loads' = loads + 1
    /\ refreshes' \in {refreshes, 1}
    /\ Issued = "waiting" => refreshes' = 1
    /\ task'[s] = LoadTask
    /\ \A r \in Slots \ {s} :
          /\ SameFunction(r)
          /\ task'[r].call = task[r].call /\ task'[r].got = task[r].got
          /\ task'[r].failed = task[r].failed /\ task'[r].alone = FALSE

\* A change, a deletion or a sync begins in slot s.
Begins(s) ==
    /\ UNCHANGED table /\ SamePage /\ UNCHANGED disturbed
    /\ refreshes' \in {refreshes, 1}
    /\ Issued = "waiting" => refreshes' = 1
    /\ SameOthers(s)
    /\ task[s].kind = "none"
    /\ task'[s].kind \in {"change", "delete", "sync"}
    /\ task'[s].seq = 0 /\ task'[s].alone = FALSE
    /\ \A c \in Calls : task'[s].call[c] # "done"
    /\ \A c \in Calls : task'[s].call[c] = "waiting" => Issued = "waiting"

\* The calls that waited go on.
Resumes ==
    /\ UNCHANGED table /\ SamePage /\ UNCHANGED disturbed
    /\ refreshes' \in {0, 1}
    /\ \A s \in Slots :
          /\ SameFunction(s)
          /\ task'[s].failed = task[s].failed /\ task'[s].alone = task[s].alone
          /\ task'[s].got = task[s].got
          /\ \A c \in Calls :
                IF task[s].call[c] = "waiting"
                THEN task'[s].call[c] = "sent"
                ELSE task'[s].call[c] = task[s].call[c]

\* Call c of slot s is served.
Serves(s, c) ==
    /\ SamePage /\ UNCHANGED <<refreshes, disturbed>>
    /\ SameOthers(s) /\ SameFunction(s)
    /\ task[s].call[c] = "sent"
    /\ task'[s].failed = task[s].failed /\ task'[s].alone = task[s].alone
    /\ \A d \in Calls :
          task'[s].call[d] = IF d = c THEN "done" ELSE task[s].call[d]
    /\ IsLoading(s) =>
          /\ table' = table
          /\ \A l \in Lists :
                task'[s].got[l] = IF l = c THEN table[l] ELSE task[s].got[l]
    /\ ~IsLoading(s) =>
          \A l \in Lists :
             table'[l] = IF l = task[s].list THEN table[l] + 1 ELSE table[l]

\* Call c of slot s is rejected; the change may have been made.
Fails(s, c) ==
    /\ SamePage /\ UNCHANGED refreshes
    /\ SameOthers(s) /\ SameFunction(s)
    /\ task'[s].failed = TRUE /\ task'[s].alone = task[s].alone
    /\ task'[s].got = task[s].got
    /\ \A d \in Calls :
          task'[s].call[d] = IF d = c THEN "none" ELSE task[s].call[d]
    /\ task[s].call[c] # "done"
    /\ \A l \in Lists : table'[l] >= table[l]
    /\ disturbed' = {} => disturbed = {} /\ table' = table

\* The function in slot s ends.
Ends(s) ==
    /\ UNCHANGED table /\ UNCHANGED <<loads, refreshes>>
    /\ SameOthers(s)
    /\ task'[s].kind = "none" /\ task'[s].seq = 0 /\ task'[s].alone = FALSE
    /\ \A c \in Calls : task'[s].call[c] = "none"

\* It has loaded all lists, which are shown now.
EndsWithLists(s) ==
    /\ Ends(s)
    /\ UNCHANGED disturbed
    /\ IsLoading(s) /\ ~task[s].failed /\ Answered(s)
    /\ shown' = task[s].got /\ applied' = task[s].seq

\* It has shown nothing; if it has changed something, then that is known.
EndsWithout(s) ==
    /\ Ends(s)
    /\ SamePage
    /\ disturbed' = {} =>
          /\ disturbed = {}
          /\ IsLoading(s) \/ \A c \in Calls : task[s].call[c] # "done"

\* Nothing happens on the page.
Elsewhere ==
    /\ SamePage /\ UNCHANGED <<task, refreshes>>
    /\ \A l \in Lists : table'[l] >= table[l]
    /\ disturbed' = {} => disturbed = {} /\ table' = table

\* Every step is one of these.
LEMMA StepEffect ==
    ASSUME Shape, [Next]_vars
    PROVE  \/ \E s \in Slots : \/ Loads(s) \/ Begins(s)
                               \/ EndsWithLists(s) \/ EndsWithout(s)
           \/ \E s \in Slots, c \in Calls : Serves(s, c) \/ Fails(s, c)
           \/ Resumes \/ Elsewhere
  <1>1. /\ table \in [Lists -> Nat] /\ refreshes \in {0, 1}
        /\ \A s \in Slots : task[s].list \in Lists
    BY DEF Shape, AnyTask
  <1>2. ASSUME NEW s \in Slots, Load(s), UNCHANGED <<table, shown, applied>>
        PROVE  Loads(s)
    <2>1. /\ task'[s] = LoadTask
          /\ \A r \in Slots \ {s} :
                 /\ SameFunction(r)
                 /\ task'[r].call = task[r].call /\ task'[r].got = task[r].got
                 /\ task'[r].failed = task[r].failed /\ task'[r].alone = FALSE
      BY <1>2, LoadEffect
    <2> QED
      BY <1>1, <1>2, <2>1 DEF Loads, Load, NeedToken
  <1>3. ASSUME NEW s \in Slots, NEW kind \in {"change", "delete", "sync"},
               NEW l \in Lists, Change(s, kind, l)
        PROVE  Begins(s)
    BY <1>1, <1>3, ChangeEffect DEF Begins, Change, NeedToken, SameOthers, SamePage
  <1>4. ASSUME NEW s \in Slots, NEW c \in Calls, Serve(s, c) PROVE Serves(s, c)
    BY <1>4, ServeEffect
       DEF Serves, Serve, SameOthers, SamePage, token, bounds
  <1>5. ASSUME NEW s \in Slots, NEW c \in Calls, Refuse(s, c) PROVE Fails(s, c)
    <2>1. \A l \in Lists : table'[l] >= table[l]
      BY <1>1, <1>5 DEF Refuse
    <2>2. Fail(s, c) /\ task[s].call[c] # "done"
      BY <1>5 DEF Refuse
    <2> QED
      BY <2>1, <2>2, <1>5, FailEffect
         DEF Fails, Refuse, SameOthers, SamePage, token, bounds
  <1>6. ASSUME NEW s \in Slots, NEW c \in Calls, Lose(s, c) PROVE Fails(s, c)
    <2>1. /\ \A l \in Lists : table'[l] >= table[l]
          /\ disturbed' # {}
      BY <1>1, <1>6 DEF Lose
    <2> QED
      BY <2>1, <1>6, FailEffect DEF Fails, Lose, SameOthers, SamePage, token
  <1>7. ASSUME NEW s \in Slots, Show(s) PROVE EndsWithLists(s)
    <2>1. task' = [task EXCEPT ![s] = Idle]
      BY <1>7 DEF Show
    <2> QED
      BY <2>1, <1>7, EndEffect
         DEF EndsWithLists, Ends, Show, SameOthers, SamePage, token, bounds
  <1>8. ASSUME NEW s \in Slots, RejectNoContent(s) PROVE EndsWithout(s)
    <2>1. task' = [task EXCEPT ![s] = Idle] /\ disturbed' # {}
      BY <1>8 DEF RejectNoContent
    <2> QED
      BY <2>1, <1>8, EndEffect
         DEF EndsWithout, Ends, RejectNoContent, SameOthers, SamePage, token, bounds
  <1>9. ASSUME NEW s \in Slots, GiveUp(s) PROVE EndsWithout(s)
    <2>1. task' = [task EXCEPT ![s] = Idle]
      BY <1>9 DEF GiveUp
    <2>2. disturbed' = {} =>
             /\ disturbed = {}
             /\ IsLoading(s) \/ \A c \in Calls : task[s].call[c] # "done"
      BY <1>9 DEF GiveUp
    <2> QED
      BY <2>1, <2>2, <1>9, EndEffect
         DEF EndsWithout, Ends, GiveUp, SameOthers, SamePage, token, bounds
  <1>10. ASSUME NEW l \in Lists, ChangeElsewhere(l) PROVE Elsewhere
    <2>1. disturbed' # {} /\ \A k \in Lists : table'[k] >= table[k]
      BY <1>1, <1>10 DEF ChangeElsewhere
    <2> QED
      BY <2>1, <1>10 DEF ChangeElsewhere, Elsewhere, SamePage, page, token
  <1>11. CASE Refreshed
    <2>1. Resume
      BY <1>11 DEF Refreshed
    <2>2. \A s \in Slots :
            /\ SameFunction(s)
            /\ task'[s].failed = task[s].failed /\ task'[s].alone = task[s].alone
            /\ task'[s].got = task[s].got
            /\ \A c \in Calls :
                  task'[s].call[c] = IF task[s].call[c] = "waiting" THEN "sent"
                                    ELSE task[s].call[c]
      BY <2>1, ResumeEffect
    <2>3. refreshes' \in {0, 1}
      BY <1>1, <1>11 DEF Refreshed
    <2> QED
      BY <1>11, <2>2, <2>3 DEF Resumes, Refreshed, SamePage
  <1>12. CASE UNCHANGED vars
    BY <1>1, <1>12 DEF Elsewhere, SamePage, vars, page, token
  <1> QED
    BY <1>2, <1>3, <1>4, <1>5, <1>6, <1>7, <1>8, <1>9, <1>10, <1>11, <1>12
       DEF Next, Continue, Refresh, LoadAfterChange

-----------------------------------------------------------------------------
\* Every step keeps the numbers of loads.
LEMMA NumberedStep ==
    ASSUME PanelInv, [Next]_vars PROVE Numbered'
  <1>a. /\ loads \in Nat /\ applied \in Nat /\ refreshes \in {0, 1}
        /\ \A s \in Slots : task[s].seq \in Nat
    BY DEF PanelInv, Shape, AnyTask
  <1>b. Numbered
    BY DEF PanelInv
  <1> USE DEF Numbered
  <1>1. ASSUME NEW s \in Slots, Loads(s) PROVE Numbered'
    <2>1. Shape
      BY DEF PanelInv
    <2> QED
      BY <1>a, <1>b, <1>1, <2>1, LoadBegins DEF Loads, SameFunction
  <1>2. ASSUME NEW s \in Slots, Begins(s) PROVE Numbered'
    BY <1>a, <1>b, <1>2 DEF Begins, SameOthers, SamePage
  <1>3. ASSUME NEW s \in Slots, EndsWithLists(s) PROVE Numbered'
    BY <1>a, <1>b, <1>3 DEF EndsWithLists, Ends, SameOthers, Answered
  <1>4. ASSUME NEW s \in Slots, EndsWithout(s) PROVE Numbered'
    BY <1>a, <1>b, <1>4 DEF EndsWithout, Ends, SameOthers, SamePage
  <1>5. ASSUME NEW s \in Slots, NEW c \in Calls, Serves(s, c) PROVE Numbered'
    BY <1>a, <1>b, <1>5 DEF Serves, SameOthers, SameFunction, SamePage
  <1>6. ASSUME NEW s \in Slots, NEW c \in Calls, Fails(s, c) PROVE Numbered'
    BY <1>a, <1>b, <1>6 DEF Fails, SameOthers, SameFunction, SamePage
  <1>7. CASE Resumes
    BY <1>a, <1>b, <1>7 DEF Resumes, SameFunction, SamePage
  <1>8. CASE Elsewhere
    BY <1>a, <1>b, <1>8 DEF Elsewhere, SamePage
  <1> QED
    BY <1>1, <1>2, <1>3, <1>4, <1>5, <1>6, <1>7, <1>8, StepEffect DEF PanelInv

\* Every step keeps what a slot makes calls for.
LEMMA IssuingStep ==
    ASSUME PanelInv, [Next]_vars PROVE Issuing'
  <1>a. /\ loads \in Nat /\ applied \in Nat /\ refreshes \in {0, 1}
        /\ \A s \in Slots : task[s].seq \in Nat
    BY DEF PanelInv, Shape, AnyTask
  <1>b. Issuing
    BY DEF PanelInv
  <1> USE DEF Issuing, IsLoading, Calls
  <1>1. ASSUME NEW s \in Slots, Loads(s) PROVE Issuing'
    <2>1. Shape
      BY DEF PanelInv
    <2> QED
      BY <1>a, <1>b, <1>1, <2>1, LoadBegins DEF Loads, SameFunction
  <1>2. ASSUME NEW s \in Slots, Begins(s) PROVE Issuing'
    BY <1>a, <1>b, <1>2 DEF Begins, SameOthers, SamePage
  <1>3. ASSUME NEW s \in Slots, EndsWithLists(s) PROVE Issuing'
    BY <1>a, <1>b, <1>3 DEF EndsWithLists, Ends, SameOthers, Answered
  <1>4. ASSUME NEW s \in Slots, EndsWithout(s) PROVE Issuing'
    BY <1>a, <1>b, <1>4 DEF EndsWithout, Ends, SameOthers, SamePage
  <1>5. ASSUME NEW s \in Slots, NEW c \in Calls, Serves(s, c) PROVE Issuing'
    BY <1>a, <1>b, <1>5 DEF Serves, SameOthers, SameFunction, SamePage
  <1>6. ASSUME NEW s \in Slots, NEW c \in Calls, Fails(s, c) PROVE Issuing'
    BY <1>a, <1>b, <1>6 DEF Fails, SameOthers, SameFunction, SamePage
  <1>7. CASE Resumes
    BY <1>a, <1>b, <1>7 DEF Resumes, SameFunction, SamePage
  <1>8. CASE Elsewhere
    BY <1>a, <1>b, <1>8 DEF Elsewhere, SamePage
  <1> QED
    BY <1>1, <1>2, <1>3, <1>4, <1>5, <1>6, <1>7, <1>8, StepEffect DEF PanelInv

\* Every step keeps the refresh for those that wait.
LEMMA WaitingStep ==
    ASSUME PanelInv, [Next]_vars PROVE Waiting'
  <1>a. /\ loads \in Nat /\ applied \in Nat /\ refreshes \in {0, 1}
        /\ \A s \in Slots : task[s].seq \in Nat
    BY DEF PanelInv, Shape, AnyTask
  <1>b. Waiting
    BY DEF PanelInv
  <1> USE DEF Waiting, Issued
  <1>1. ASSUME NEW s \in Slots, Loads(s) PROVE Waiting'
    <2>1. Shape
      BY DEF PanelInv
    <2> QED
      BY <1>a, <1>b, <1>1, <2>1, LoadBegins DEF Loads, SameFunction
  <1>2. ASSUME NEW s \in Slots, Begins(s) PROVE Waiting'
    BY <1>a, <1>b, <1>2 DEF Begins, SameOthers, SamePage
  <1>3. ASSUME NEW s \in Slots, EndsWithLists(s) PROVE Waiting'
    BY <1>a, <1>b, <1>3 DEF EndsWithLists, Ends, SameOthers, Answered
  <1>4. ASSUME NEW s \in Slots, EndsWithout(s) PROVE Waiting'
    BY <1>a, <1>b, <1>4 DEF EndsWithout, Ends, SameOthers, SamePage
  <1>5. ASSUME NEW s \in Slots, NEW c \in Calls, Serves(s, c) PROVE Waiting'
    BY <1>a, <1>b, <1>5 DEF Serves, SameOthers, SameFunction, SamePage
  <1>6. ASSUME NEW s \in Slots, NEW c \in Calls, Fails(s, c) PROVE Waiting'
    BY <1>a, <1>b, <1>6 DEF Fails, SameOthers, SameFunction, SamePage
  <1>7. CASE Resumes
    BY <1>a, <1>b, <1>7 DEF Resumes, SameFunction, SamePage
  <1>8. CASE Elsewhere
    BY <1>a, <1>b, <1>8 DEF Elsewhere, SamePage
  <1> QED
    BY <1>1, <1>2, <1>3, <1>4, <1>5, <1>6, <1>7, <1>8, StepEffect DEF PanelInv

\* What a function has changed stays pending until the function ends.
LEMMA PendingStays ==
    ASSUME NEW l \in Lists, Pending(l), disturbed' = {},
           \/ \E s \in Slots : \/ Begins(s) \/ EndsWithLists(s) \/ EndsWithout(s)
           \/ \E s \in Slots, c \in Calls : Serves(s, c) \/ Fails(s, c)
           \/ Resumes \/ Elsewhere
    PROVE  Pending(l)'
  <1>1. PICK r \in Slots, d \in Calls :
            /\ task[r].kind \in {"change", "delete", "sync"}
            /\ task[r].list = l /\ task[r].call[d] = "done"
    BY DEF Pending
  <1>2. SUFFICES /\ task'[r].kind = task[r].kind /\ task'[r].list = l
                 /\ task'[r].call[d] = "done"
    BY <1>1 DEF Pending
  <1>3. ASSUME NEW s \in Slots, Begins(s) \/ EndsWithLists(s) \/ EndsWithout(s)
        PROVE  task'[r] = task[r]
    BY <1>1, <1>3
       DEF Begins, EndsWithLists, EndsWithout, Ends, SameOthers, IsLoading
  <1>4. ASSUME NEW s \in Slots, NEW c \in Calls, Serves(s, c) \/ Fails(s, c)
        PROVE  /\ task'[r].kind = task[r].kind /\ task'[r].list = task[r].list
               /\ task'[r].call[d] = "done"
    BY <1>1, <1>4 DEF Serves, Fails, SameOthers, SameFunction
  <1>5. CASE Resumes
    BY <1>1, <1>5 DEF Resumes, SameFunction
  <1>6. CASE Elsewhere
    BY <1>1, <1>6 DEF Elsewhere
  <1> QED
    BY <1>1, <1>3, <1>4, <1>5, <1>6

\* Every step keeps the last load in step with the tables.
LEMMA UpToDateStep ==
    ASSUME PanelInv, [Next]_vars PROVE UpToDate'
  <1>1. /\ loads \in Nat /\ applied \in Nat
        /\ \A s \in Slots : task[s].seq \in Nat /\ task[s].kind \in Kinds
    BY DEF PanelInv, Shape, AnyTask
  <1>2. Shape /\ Numbered /\ Issuing /\ UpToDate
    BY DEF PanelInv
  <1> DEFINE Goal == /\ applied' = loads' =>
                           \A l \in Lists : shown'[l] = table'[l] \/ Pending(l)'
                     /\ \A r \in Slots, l \in Lists :
                           /\ task'[r].kind = "load" /\ task'[r].seq = loads'
                           /\ task'[r].call[l] = "done"
                           => task'[r].got[l] = table'[l] \/ Pending(l)'
             Shown == disturbed = {} /\ applied = loads =>
                           \A l \in Lists : shown[l] = table[l] \/ Pending(l)
             Brought == disturbed = {} =>
                 \A r \in Slots, l \in Lists :
                     /\ task[r].kind = "load" /\ task[r].seq = loads
                     /\ task[r].call[l] = "done"
                     => task[r].got[l] = table[l] \/ Pending(l)
  <1>3. SUFFICES ASSUME disturbed' = {} PROVE Goal
    BY DEF UpToDate, IsLoading
  <1>4. Shown /\ Brought
    BY <1>2 DEF UpToDate, IsLoading
  <1>5. ASSUME NEW s \in Slots, Loads(s) PROVE Goal
    BY <1>1, <1>2, <1>5, LoadBegins DEF Loads, Numbered, SameFunction, Calls
  <1>6. ASSUME NEW s \in Slots, Begins(s) PROVE Goal
    <2>1. \A l \in Lists : Pending(l) => Pending(l)'
      BY <1>3, <1>6, PendingStays
    <2> QED
      BY <1>3, <1>4, <1>6, <2>1 DEF Begins, SamePage, SameOthers, Calls
  <1>7. ASSUME NEW s \in Slots, EndsWithLists(s) PROVE Goal
    <2>1. \A l \in Lists : Pending(l) => Pending(l)'
      BY <1>3, <1>7, PendingStays
    <2>2. \A l \in Lists : task[s].call[l] = "done"
      BY <1>2, <1>7 DEF EndsWithLists, Answered, Issuing, Calls
    <2>3. /\ disturbed = {} /\ table' = table /\ loads' = loads
          /\ applied' = task[s].seq /\ shown' = task[s].got
          /\ task[s].kind = "load" /\ task'[s].kind = "none"
          /\ \A r \in Slots \ {s} : task'[r] = task[r]
      BY <1>3, <1>7 DEF EndsWithLists, Ends, SameOthers, IsLoading
    <2> QED
      BY <1>4, <2>1, <2>2, <2>3
  <1>8. ASSUME NEW s \in Slots, EndsWithout(s) PROVE Goal
    <2>1. \A l \in Lists : Pending(l) => Pending(l)'
      BY <1>3, <1>8, PendingStays
    <2> QED
      BY <1>3, <1>4, <1>8, <2>1 DEF EndsWithout, Ends, SameOthers, SamePage
  <1>9. ASSUME NEW s \in Slots, NEW c \in Calls, Serves(s, c) PROVE Goal
    <2>1. \A l \in Lists : Pending(l) => Pending(l)'
      BY <1>3, <1>9, PendingStays
    <2>2. CASE IsLoading(s)
      BY <1>3, <1>4, <1>9, <2>1, <2>2
         DEF Serves, SamePage, SameOthers, SameFunction, Calls, IsLoading
    <2>3. CASE ~IsLoading(s)
      <3>1. task[s].kind \in {"change", "delete", "sync"}
        BY <1>1, <1>2, <1>9, <2>3 DEF Serves, Issuing, IsLoading, Kinds
      <3>2. \A l \in Lists : l = task[s].list => Pending(l)'
        BY <1>9, <3>1 DEF Pending, Serves, SameFunction
      <3>3. \A l \in Lists : table'[l] = table[l] \/ Pending(l)'
        BY <1>9, <2>3, <3>2 DEF Serves
      <3> QED
        BY <1>3, <1>4, <1>9, <2>1, <2>3, <3>3
           DEF Serves, SamePage, SameOthers, SameFunction, IsLoading
    <2> QED
      BY <2>2, <2>3
  <1>10. ASSUME NEW s \in Slots, NEW c \in Calls, Fails(s, c) PROVE Goal
    <2>1. \A l \in Lists : Pending(l) => Pending(l)'
      BY <1>3, <1>10, PendingStays
    <2> QED
      BY <1>3, <1>4, <1>10, <2>1
         DEF Fails, SamePage, SameOthers, SameFunction, Calls
  <1>11. CASE Resumes
    <2>1. \A l \in Lists : Pending(l) => Pending(l)'
      BY <1>3, <1>11, PendingStays
    <2> QED
      BY <1>3, <1>4, <1>11, <2>1 DEF Resumes, SamePage, SameFunction, Calls
  <1>12. CASE Elsewhere
    <2>1. \A l \in Lists : Pending(l) => Pending(l)'
      BY <1>3, <1>12, PendingStays
    <2> QED
      BY <1>3, <1>4, <1>12, <2>1 DEF Elsewhere, SamePage
  <1> QED
    BY <1>2, <1>5, <1>6, <1>7, <1>8, <1>9, <1>10, <1>11, <1>12, StepEffect

\* Every step keeps what a load that is alone brings in order with what is shown.
LEMMA AloneStep ==
    ASSUME PanelInv, [Next]_vars PROVE Alone'
  <1>1. /\ table \in [Lists -> Nat] /\ shown \in [Lists -> Nat]
        /\ table' \in [Lists -> Nat] /\ shown' \in [Lists -> Nat]
        /\ \A s \in Slots : /\ task[s].got \in [Lists -> Nat]
                             /\ task'[s].got \in [Lists -> Nat]
    <2>1. Shape /\ Shape'
      BY ShapeStep DEF PanelInv
    <2> QED
      BY <2>1 DEF Shape, AnyTask
  <1>2. Shape /\ Issuing /\ Alone
    BY DEF PanelInv
  <1> USE DEF Alone, IsLoading, Calls
  <1>3. ASSUME NEW s \in Slots, Loads(s) PROVE Alone'
    BY <1>1, <1>2, <1>3, LoadBegins DEF Loads, SameFunction
  <1>4. ASSUME NEW s \in Slots, Begins(s) PROVE Alone'
    BY <1>1, <1>2, <1>4 DEF Begins, SameOthers, SamePage
  <1>5. ASSUME NEW s \in Slots, EndsWithLists(s) PROVE Alone'
    <2>1. \A l \in Lists : task[s].call[l] = "done"
      BY <1>2, <1>5 DEF EndsWithLists, Answered, Issuing
    <2> QED
      BY <1>1, <1>2, <1>5, <2>1 DEF EndsWithLists, Ends, SameOthers
  <1>6. ASSUME NEW s \in Slots, EndsWithout(s) PROVE Alone'
    BY <1>1, <1>2, <1>6 DEF EndsWithout, Ends, SameOthers, SamePage
  <1>7. ASSUME NEW s \in Slots, NEW c \in Calls, Serves(s, c) PROVE Alone'
    BY <1>1, <1>2, <1>7 DEF Serves, SameOthers, SameFunction, SamePage
  <1>8. ASSUME NEW s \in Slots, NEW c \in Calls, Fails(s, c) PROVE Alone'
    BY <1>1, <1>2, <1>8 DEF Fails, SameOthers, SameFunction, SamePage
  <1>9. CASE Resumes
    BY <1>1, <1>2, <1>9 DEF Resumes, SameFunction, SamePage
  <1>10. CASE Elsewhere
    BY <1>1, <1>2, <1>10 DEF Elsewhere, SamePage
  <1> QED
    BY <1>2, <1>3, <1>4, <1>5, <1>6, <1>7, <1>8, <1>9, <1>10, StepEffect

\* PanelInv holds in every reachable state.
LEMMA PanelInvariant == Spec => []PanelInv
  <1>1. ASSUME PanelInv, [Next]_vars PROVE PanelInv'
    <2>1. Shape'
      BY <1>1, ShapeStep DEF PanelInv
    <2> QED
      BY <1>1, <2>1, NumberedStep, IssuingStep, WaitingStep, UpToDateStep, AloneStep
         DEF PanelInv
  <1> QED
    BY <1>1, PanelInit, PTL DEF Spec

-----------------------------------------------------------------------------
\* However many saves, runs and loads overlap, a page at rest that shows the load
\* it started last shows the tables as they are, but for what no load of this
\* page follows (App.tsx:153-191).
THEOREM ThePageCatchesUp == Spec => []PageCatchesUp
  <1>1. ASSUME PanelInv PROVE PageCatchesUp
    <2>1. SUFFICES ASSUME AtRest, applied = loads, disturbed = {}
                   PROVE  shown = table
      BY DEF PageCatchesUp
    <2>2. \A l \in Lists : ~Pending(l)
      BY <2>1 DEF AtRest, Pending
    <2>3. \A l \in Lists : shown[l] = table[l]
      BY <1>1, <2>1, <2>2 DEF PanelInv, UpToDate
    <2>4. shown \in [Lists -> Nat] /\ table \in [Lists -> Nat]
      BY <1>1 DEF PanelInv, Shape
    <2> QED
      BY <2>3, <2>4
  <1> QED
    BY <1>1, PanelInvariant, PTL

\* However many calls need a token at once, they share one refresh, and none of
\* them waits for a refresh that is over (App.tsx:54-82).
THEOREM OneRefreshForAll == Spec => []RefreshIsShared
  <1>1. PanelInv => RefreshIsShared
    BY DEF PanelInv, Shape, Waiting, RefreshIsShared
  <1> QED
    BY <1>1, PanelInvariant, PTL

\* The page goes back to an older state of a list only when two of its loads
\* were under way at once, whatever else overlapped (App.tsx:153-167).
THEOREM OnlyOverlapGoesBack == Spec => PageGoesBackOnlyOnOverlap
  <1> DEFINE Forward == \A s \in Slots :
          Show(s) /\ task[s].alone => \A l \in Lists : shown'[l] >= shown[l]
  <1>1. ASSUME PanelInv PROVE Forward
    <2>1. SUFFICES ASSUME NEW s \in Slots, Show(s), task[s].alone, NEW l \in Lists
                   PROVE  shown'[l] >= shown[l]
      OBVIOUS
    <2>2. /\ IsLoading(s) /\ Answered(s) /\ ~task[s].failed
          /\ shown' = task[s].got
      BY <2>1 DEF Show
    <2>3. task[s].call[l] = "done"
      BY <1>1, <2>2 DEF PanelInv, Issuing, Answered, Calls
    <2>4. shown[l] <= task[s].got[l]
      BY <1>1, <2>1, <2>2, <2>3 DEF PanelInv, Alone
    <2>5. shown[l] \in Nat /\ task[s].got[l] \in Nat
      BY <1>1 DEF PanelInv, Shape, AnyTask
    <2> QED
      BY <2>2, <2>4, <2>5
  <1>2. Spec => [][Forward]_vars
    BY <1>1, PanelInvariant, PTL DEF Spec
  <1> QED
    BY <1>2 DEF PageGoesBackOnlyOnOverlap

-----------------------------------------------------------------------------
(* The types with their bounds: what clicks pay for.                        *)

\* The functions under way that are not loads, and their calls without answer.
Changing == {s \in Slots : task[s].kind \in {"change", "delete", "sync"}}

Unanswered ==
    {x \in Slots \X Calls :
        x[1] \in Changing /\ task[x[1]].call[x[2]] \in {"waiting", "sent"}}

\* The calls a click can lead to are one, or one for each user.
PerClick == 1 + Cardinality(Users)

\* A click pays for one load, at once or when its change is made, and for the
\* calls of its change; no list is read ahead of its table.
Paid ==
    /\ loads + Cardinality(Changing) <= clicks
    /\ \A l \in Lists :
          table[l] + Cardinality(Unanswered) <= elsewhere + clicks * PerClick
    /\ \A s \in Slots, l \in Lists : task[s].got[l] <= table[l]

\* What is bounded by the guards of the actions themselves.
Guarded ==
    /\ cached \in BOOLEAN /\ stored \in BOOLEAN
    /\ disturbed \subseteq {"elsewhere", "lost", "deleted"}
    /\ clicks \in 0 .. MaxClicks
    /\ elsewhere \in 0 .. MaxElsewhere
    /\ faults \in 0 .. MaxFaults
    /\ refreshes # 0 => Slots # {}

LEMMA GuardedStep ==
    ASSUME Shape, Guarded, [Next]_vars PROVE Guarded'
  <1>1. clicks < MaxClicks => clicks + 1 \in 0 .. MaxClicks
    BY PanelBounds DEF Guarded
  <1>2. elsewhere < MaxElsewhere => elsewhere + 1 \in 0 .. MaxElsewhere
    BY PanelBounds DEF Guarded
  <1>3. faults < MaxFaults => faults + 1 \in 0 .. MaxFaults
    BY PanelBounds DEF Guarded
  <1> USE DEF Guarded, page, token, bounds
  <1>4. ASSUME NEW s \in Slots, Refresh(s) \/ LoadAfterChange(s) PROVE Guarded'
    BY <1>1, <1>4 DEF Refresh, LoadAfterChange, Click, Load
  <1>5. ASSUME NEW s \in Slots, NEW l \in Lists,
               NEW kind \in {"change", "delete", "sync"}, Change(s, kind, l)
        PROVE  Guarded'
    BY <1>1, <1>5 DEF Change, Click
  <1>6. ASSUME NEW s \in Slots, Show(s) \/ RejectNoContent(s) \/ GiveUp(s)
        PROVE  Guarded'
    BY <1>6 DEF Show, RejectNoContent, GiveUp
  <1>7. ASSUME NEW s \in Slots, NEW c \in Calls,
               Serve(s, c) \/ Refuse(s, c) \/ Lose(s, c)
        PROVE  Guarded'
    BY <1>3, <1>7 DEF Serve, Refuse, Lose
  <1>8. CASE Refreshed
    <2>1. cached' \in BOOLEAN
      BY <1>8 DEF Refreshed
    <2>2. refreshes' = 0
      BY <1>8 DEF Refreshed, Shape
    <2>3. UNCHANGED <<stored, disturbed, clicks, elsewhere, faults>>
      BY <1>8 DEF Refreshed
    <2> QED
      BY <2>1, <2>2, <2>3
  <1>9. CASE UNCHANGED vars
    BY <1>9 DEF vars
  <1>10. ASSUME NEW l \in Lists, ChangeElsewhere(l) PROVE Guarded'
    BY <1>2, <1>10 DEF ChangeElsewhere
  <1> QED
    BY <1>4, <1>5, <1>6, <1>7, <1>8, <1>9, <1>10 DEF Next, Continue

\* The functions under way and their calls can be counted.
LEMMA Countable ==
    ASSUME IsFiniteSet(Slots), IsFiniteSet(Lists), IsFiniteSet(Users)
    PROVE  /\ Cardinality(Users) \in Nat /\ Cardinality(Slots) \in Nat
           /\ \A C \in SUBSET Slots : IsFiniteSet(C) /\ Cardinality(C) \in Nat
           /\ \A U \in SUBSET (Slots \X Calls) :
                 IsFiniteSet(U) /\ Cardinality(U) \in Nat
  <1>1. IsFiniteSet(Calls)
    BY FS_Union DEF Calls
  <1>2. IsFiniteSet(Slots \X Calls)
    BY <1>1, FS_Product
  <1> QED
    BY <1>2, FS_Subset, FS_CardinalityType

\* A step that no click pays for: nothing new is under way, and a list grows
\* by what was unanswered, or by what was changed elsewhere.
LEMMA PaidBefore ==
    ASSUME IsFiniteSet(Slots), IsFiniteSet(Lists), IsFiniteSet(Users),
           Shape, Guarded, Paid, table' \in [Lists -> Nat],
           UNCHANGED clicks, loads' \in Nat,
           Changing' \subseteq Changing,
           \/ loads' = loads
           \/ /\ loads' = loads + 1
              /\ \E s \in Changing : Changing' \subseteq Changing \ {s},
           Unanswered' \subseteq Unanswered,
           \/ table' = table /\ elsewhere' = elsewhere
           \/ /\ \A l \in Lists : table'[l] \in table[l] .. table[l] + 1
              /\ elsewhere' = elsewhere
              /\ \E x \in Unanswered : Unanswered' \subseteq Unanswered \ {x}
           \/ /\ \A l \in Lists : table'[l] \in table[l] .. table[l] + 1
              /\ elsewhere' = elsewhere + 1
    PROVE  /\ loads' + Cardinality(Changing)' <= clicks'
           /\ \A l \in Lists :
                 table'[l] + Cardinality(Unanswered)'
                    <= elsewhere' + clicks' * PerClick
  <1> DEFINE c == Cardinality(Changing)
             u == Cardinality(Unanswered)
             d == Cardinality(Changing')
             v == Cardinality(Unanswered')
  <1>1. /\ Changing \in SUBSET Slots /\ Unanswered \in SUBSET (Slots \X Calls)
        /\ Changing' \in SUBSET Slots
        /\ Unanswered' \in SUBSET (Slots \X Calls)
    BY DEF Changing, Unanswered
  <1>2. /\ IsFiniteSet(Changing) /\ IsFiniteSet(Unanswered)
        /\ c \in Nat /\ u \in Nat /\ d \in Nat /\ v \in Nat
    BY <1>1, Countable
  <1>3. d <= c /\ v <= u
    BY <1>2, FS_Subset
  <1>4. ASSUME NEW s \in Changing, Changing' \subseteq Changing \ {s}
        PROVE  d <= c - 1
    <2>1. IsFiniteSet(Changing \ {s}) /\ Cardinality(Changing \ {s}) = c - 1
      BY <1>2, FS_RemoveElement
    <2> QED
      BY <1>4, <2>1, FS_Subset
  <1>5. ASSUME NEW x \in Unanswered, Unanswered' \subseteq Unanswered \ {x}
        PROVE  v <= u - 1
    <2>1. IsFiniteSet(Unanswered \ {x}) /\ Cardinality(Unanswered \ {x}) = u - 1
      BY <1>2, FS_RemoveElement
    <2> QED
      BY <1>5, <2>1, FS_Subset
  <1>6. loads + c <= clicks /\ loads \in Nat /\ clicks \in Nat
          /\ elsewhere \in Nat
    BY PanelBounds DEF Paid, Shape, Guarded
  <1>7. loads' + d <= clicks'
    <2> HIDE DEF c, d
    <2>1. CASE loads' = loads
      BY <1>2, <1>3, <1>6, <2>1
    <2>2. CASE /\ loads' = loads + 1
               /\ \E s \in Changing : Changing' \subseteq Changing \ {s}
      BY <1>2, <1>4, <1>6, <2>2
    <2> QED
      BY <2>1, <2>2
  <1>8. clicks * PerClick \in Nat
    BY <1>6, Countable DEF PerClick
  <1>9. ASSUME NEW l \in Lists
        PROVE  table'[l] + v <= elsewhere' + clicks' * PerClick
    <2> DEFINE paid == clicks * PerClick
               a == table[l]
               b == table'[l]
    <2>1. a + u <= elsewhere + paid /\ a \in Nat /\ b \in Nat /\ paid \in Nat
            /\ clicks' * PerClick = paid
      BY <1>8 DEF Paid, Shape
    <2> HIDE DEF u, v, a, b, paid
    <2>2. CASE table' = table /\ elsewhere' = elsewhere
      BY <1>2, <1>3, <1>6, <2>1, <2>2 DEF a, b
    <2>3. CASE /\ \A k \in Lists : table'[k] \in table[k] .. table[k] + 1
               /\ elsewhere' = elsewhere
               /\ \E x \in Unanswered : Unanswered' \subseteq Unanswered \ {x}
      <3>1. v <= u - 1
        BY <1>5, <2>3
      <3>2. b \in a .. a + 1
        BY <2>3 DEF a, b
      <3>3. b + v <= elsewhere' + paid
        BY <1>2, <1>6, <2>1, <2>3, <3>1, <3>2
      <3> QED
        BY <2>1, <3>3 DEF b
    <2>4. CASE /\ \A k \in Lists : table'[k] \in table[k] .. table[k] + 1
               /\ elsewhere' = elsewhere + 1
      <3>1. b \in a .. a + 1
        BY <2>4 DEF a, b
      <3>2. b + v <= elsewhere' + paid
        BY <1>2, <1>3, <1>6, <2>1, <2>4, <3>1
      <3> QED
        BY <2>1, <3>2 DEF b
    <2> QED
      BY <2>2, <2>3, <2>4
  <1> QED
    BY <1>7, <1>9

\* A click pays for one function, and for its calls.
LEMMA PaidByClick ==
    ASSUME IsFiniteSet(Slots), IsFiniteSet(Lists), IsFiniteSet(Users),
           Shape, Guarded, Paid,
           UNCHANGED <<table, elsewhere>>, clicks' = clicks + 1,
           \/ loads' = loads + 1 /\ Changing' \subseteq Changing
           \/ loads' = loads /\ \E s \in Slots : Changing' \subseteq Changing \cup {s},
           NEW calls, IsFiniteSet(calls), Cardinality(calls) <= PerClick,
           NEW s \in Slots,
           Unanswered' \subseteq Unanswered \cup ({s} \X calls)
    PROVE  /\ loads' + Cardinality(Changing)' <= clicks'
           /\ \A l \in Lists :
                 table'[l] + Cardinality(Unanswered)'
                    <= elsewhere' + clicks' * PerClick
  <1> DEFINE c == Cardinality(Changing)
             u == Cardinality(Unanswered)
             d == Cardinality(Changing')
             v == Cardinality(Unanswered')
  <1>1. /\ Changing \in SUBSET Slots /\ Unanswered \in SUBSET (Slots \X Calls)
        /\ Changing' \in SUBSET Slots
        /\ Unanswered' \in SUBSET (Slots \X Calls)
    BY DEF Changing, Unanswered
  <1>2. /\ IsFiniteSet(Changing) /\ IsFiniteSet(Unanswered)
        /\ c \in Nat /\ u \in Nat /\ d \in Nat /\ v \in Nat
    BY <1>1, Countable
  <1>3. loads + c <= clicks /\ loads \in Nat /\ clicks \in Nat
          /\ elsewhere \in Nat
    BY PanelBounds DEF Paid, Shape, Guarded
  <1>4. Changing' \subseteq Changing => d <= c
    BY <1>2, FS_Subset
  <1>5. ASSUME NEW r \in Slots, Changing' \subseteq Changing \cup {r}
        PROVE  d <= c + 1
    <2>1. /\ IsFiniteSet(Changing \cup {r})
          /\ Cardinality(Changing \cup {r}) \in {c, c + 1}
      BY <1>2, FS_AddElement
    <2>2. d <= Cardinality(Changing \cup {r})
      BY <1>5, <2>1, FS_Subset
    <2> QED
      BY <1>2, <2>1, <2>2
  <1>6. loads' + d <= clicks'
    <2> HIDE DEF c, d
    <2> QED
      BY <1>2, <1>3, <1>4, <1>5
  <1>7. v <= u + PerClick
    <2> DEFINE new == {s} \X calls
               both == Unanswered \cap new
    <2>0. IsFiniteSet({s}) /\ Cardinality({s}) = 1
      BY FS_Singleton
    <2>1. IsFiniteSet(new) /\ Cardinality(new) = 1 * Cardinality(calls)
      BY <2>0, FS_Product
    <2>2. Cardinality(calls) \in Nat /\ Cardinality(new) = Cardinality(calls)
      BY <2>1, FS_CardinalityType
    <2>3. /\ IsFiniteSet(Unanswered \cup new)
          /\ Cardinality(Unanswered \cup new) = u + Cardinality(new) - Cardinality(both)
      BY <1>2, <2>1, FS_Union
    <2>4. both \subseteq Unanswered
      OBVIOUS
    <2>5. Cardinality(both) \in Nat
      BY <1>2, <2>4, FS_Subset, FS_CardinalityType
    <2>6. v <= Cardinality(Unanswered \cup new)
      BY <2>3, FS_Subset
    <2>7. PerClick \in Nat
      BY Countable DEF PerClick
    <2> HIDE DEF new, both, u, v
    <2> QED
      BY <1>2, <2>2, <2>3, <2>5, <2>6, <2>7
  <1>8. PerClick \in Nat /\ (clicks + 1) * PerClick = clicks * PerClick + PerClick
          /\ clicks * PerClick \in Nat
    BY <1>3, Countable DEF PerClick
  <1>9. ASSUME NEW l \in Lists
        PROVE  table'[l] + v <= elsewhere' + clicks' * PerClick
    <2> DEFINE paid == clicks * PerClick
               a == table[l]
    <2>1. a + u <= elsewhere + paid /\ a \in Nat /\ paid \in Nat
            /\ clicks' * PerClick = paid + PerClick
      BY <1>8 DEF Paid, Shape
    <2> HIDE DEF u, v, a, paid
    <2>2. a + v <= elsewhere + (paid + PerClick)
      BY <1>2, <1>3, <1>7, <1>8, <2>1
    <2> QED
      BY <2>1, <2>2 DEF a
  <1> QED
    BY <1>6, <1>9

\* A load is no change, and makes the calls of its task only.
LEMMA LoadIsNoChange ==
    ASSUME Shape, NEW s \in Slots, Loads(s)
    PROVE  /\ Changing' = Changing \ {s}
           /\ Unanswered' \subseteq Unanswered
           /\ \A l \in Lists : task'[s].got[l] = 0
           /\ \A r \in Slots \ {s} : task'[r].got = task[r].got
  <1>1. /\ task'[s].kind = "load"
        /\ \A r \in Slots \ {s} :
              task'[r].kind = task[r].kind /\ task'[r].call = task[r].call
              /\ task'[r].got = task[r].got
    BY LoadBegins DEF Loads, SameFunction
  <1>2. Changing' = Changing \ {s}
    BY <1>1 DEF Changing
  <1>3. Unanswered' \subseteq Unanswered
    <2> SUFFICES ASSUME NEW r \in Slots, NEW c \in Calls, <<r, c>> \in Unanswered'
                 PROVE  <<r, c>> \in Unanswered
      BY DEF Unanswered
    <2>1. r \in Changing' /\ task'[r].call[c] \in {"waiting", "sent"}
      BY DEF Unanswered
    <2>2. r # s /\ r \in Changing /\ task[r].call[c] \in {"waiting", "sent"}
      BY <1>1, <1>2, <2>1
    <2> QED
      BY <2>2 DEF Unanswered
  <1>4. \A l \in Lists : LoadTask.got[l] = 0
    <2> DEFINE alone == \A r \in Slots : ~IsLoading(r)
    <2>1. LoadTask = [Idle EXCEPT !.kind = "load", !.call = Issue(Lists),
                                  !.seq = loads + 1, !.alone = alone]
      BY Zenon DEF LoadTask
    <2> HIDE DEF alone
    <2>2. LoadTask.got = NoList
      BY <2>1 DEF Idle
    <2> QED
      BY <2>2 DEF NoList
  <1> QED
    BY <1>1, <1>2, <1>3, <1>4 DEF Loads

\* A function that ends has nothing under way any more.
LEMMA EndIsNoChange ==
    ASSUME Shape, NEW s \in Slots, task' = [task EXCEPT ![s] = Idle]
    PROVE  /\ Changing' \subseteq Changing
           /\ Unanswered' \subseteq Unanswered
           /\ \A l \in Lists : task'[s].got[l] = 0
           /\ \A r \in Slots \ {s} : task'[r] = task[r]
  <1>1. /\ task'[s] = Idle
        /\ \A r \in Slots \ {s} : task'[r] = task[r]
    BY DEF Shape
  <1>2. Idle.kind = "none" /\ \A l \in Lists : Idle.got[l] = 0
    BY DEF Idle, NoList
  <1>3. \A r \in Changing' : r # s /\ r \in Changing
    BY <1>1, <1>2 DEF Changing
  <1>4. Unanswered' \subseteq Unanswered
    BY <1>1, <1>3 DEF Unanswered, Changing
  <1> QED
    BY <1>1, <1>2, <1>3, <1>4

\* A call that is served or rejected has its answer.
LEMMA AnswerIsCounted ==
    ASSUME Shape, Issuing, NEW s \in Slots, NEW c \in Calls,
           SameOthers(s), SameFunction(s), NEW stage \in {"done", "none"},
           \A d \in Calls :
              task'[s].call[d] = IF d = c THEN stage ELSE task[s].call[d]
    PROVE  /\ Changing' = Changing
           /\ Unanswered' \subseteq Unanswered \ {<<s, c>>}
           /\ task[s].call[c] = "sent" /\ ~IsLoading(s) =>
                 <<s, c>> \in Unanswered
  <1>1. Changing' = Changing
    BY DEF Changing, SameOthers, SameFunction
  <1>2. Unanswered' \subseteq Unanswered \ {<<s, c>>}
    <2> SUFFICES ASSUME NEW r \in Slots, NEW d \in Calls, <<r, d>> \in Unanswered'
                 PROVE  <<r, d>> \in Unanswered /\ <<r, d>> # <<s, c>>
      BY DEF Unanswered
    <2>1. r \in Changing' /\ task'[r].call[d] \in {"waiting", "sent"}
      BY DEF Unanswered
    <2>2. /\ ~(r = s /\ d = c)
          /\ task[r].call[d] \in {"waiting", "sent"}
      BY <2>1 DEF SameOthers
    <2> QED
      BY <1>1, <2>1, <2>2 DEF Unanswered
  <1>3. ASSUME task[s].call[c] = "sent", ~IsLoading(s)
        PROVE  <<s, c>> \in Unanswered
    <2>1. task[s].kind \in Kinds /\ task[s].kind # "none"
      BY <1>3 DEF Shape, AnyTask, Issuing
    <2>2. s \in Changing
      BY <1>3, <2>1 DEF Kinds, IsLoading, Changing
    <2> QED
      BY <1>3, <2>2 DEF Unanswered
  <1> QED
    BY <1>1, <1>2, <1>3

\* A change that begins makes one call, or one for each user.
LEMMA ChangeIsCounted ==
    ASSUME IsFiniteSet(Users), Shape, NEW s \in Slots,
           NEW kind \in {"change", "delete", "sync"},
           NEW l \in Lists, Change(s, kind, l)
    PROVE  /\ Changing' \subseteq Changing \cup {s}
           /\ \A k \in Lists : task'[s].got[k] = 0
           /\ \A r \in Slots \ {s} : task'[r] = task[r]
           /\ \E calls : /\ IsFiniteSet(calls) /\ Cardinality(calls) <= PerClick
                         /\ Unanswered' \subseteq Unanswered \cup ({s} \X calls)
  <1> DEFINE calls == IF kind = "sync" THEN Users ELSE {l}
             t == [Idle EXCEPT !.kind = kind, !.list = l, !.call = Issue(calls)]
  <1>1. task' = [task EXCEPT ![s] = t]
    BY DEF Change
  <1>2. t.call = Issue(calls) /\ t.got = NoList
    BY DEF Idle
  <1>3. /\ IsFiniteSet({l}) /\ Cardinality({l}) = 1
        /\ Cardinality(Users) \in Nat
    BY FS_Singleton, FS_CardinalityType
  <1>4. IsFiniteSet(calls) /\ Cardinality(calls) <= PerClick
    BY <1>3 DEF PerClick
  <1>5. \A c \in Calls : c \notin calls => t.call[c] = "none"
    BY <1>2, IssueType
  <1>6. \A k \in Lists : t.got[k] = 0
    BY <1>2 DEF NoList
  <1> HIDE DEF t, calls
  <1>7. task'[s] = t /\ \A r \in Slots \ {s} : task'[r] = task[r]
    BY <1>1 DEF Shape
  <1>8. Changing' \subseteq Changing \cup {s}
    BY <1>7 DEF Changing
  <1>9. Unanswered' \subseteq Unanswered \cup ({s} \X calls)
    <2> SUFFICES ASSUME NEW r \in Slots, NEW c \in Calls, <<r, c>> \in Unanswered'
                 PROVE  <<r, c>> \in Unanswered \/ (r = s /\ c \in calls)
      BY DEF Unanswered
    <2>1. r \in Changing' /\ task'[r].call[c] \in {"waiting", "sent"}
      BY DEF Unanswered
    <2>2. CASE r = s
      BY <1>5, <1>7, <2>1, <2>2
    <2>3. CASE r # s
      BY <1>7, <1>8, <2>1, <2>3 DEF Unanswered
    <2> QED
      BY <2>2, <2>3
  <1> QED
    BY <1>4, <1>6, <1>7, <1>8, <1>9

\* What a step that takes no click keeps in balance.
LEMMA PaidStepBefore ==
    ASSUME IsFiniteSet(Slots), IsFiniteSet(Lists), IsFiniteSet(Users),
           PanelInv, Shape', Guarded, Paid, [Next]_vars, UNCHANGED clicks
    PROVE  /\ loads' + Cardinality(Changing)' <= clicks'
           /\ \A l \in Lists :
                 table'[l] + Cardinality(Unanswered)'
                    <= elsewhere' + clicks' * PerClick
  <1> DEFINE Goal == /\ loads' + Cardinality(Changing)' <= clicks'
                     /\ \A l \in Lists :
                           table'[l] + Cardinality(Unanswered)'
                              <= elsewhere' + clicks' * PerClick
  <1>1. /\ Shape /\ Issuing
        /\ table \in [Lists -> Nat] /\ table' \in [Lists -> Nat]
        /\ loads \in Nat /\ loads' \in Nat /\ clicks \in Nat
        /\ \A s \in Slots : task[s].list \in Lists
    BY PanelBounds DEF PanelInv, Shape, AnyTask, Guarded
  <1>2. ASSUME NEW s \in Slots, LoadAfterChange(s) PROVE Goal
    <2>1. /\ Load(s) /\ s \in Changing
          /\ UNCHANGED <<table, shown, applied, elsewhere>>
      BY <1>2 DEF LoadAfterChange, Changing, bounds
    <2>2. Loads(s)
      BY <1>1, <2>1, LoadEffect DEF Loads, Load, NeedToken, Shape
    <2>3. /\ Changing' = Changing \ {s} /\ Unanswered' \subseteq Unanswered
          /\ loads' = loads + 1
      BY <1>1, <2>2, LoadIsNoChange DEF Loads
    <2> QED
      BY <1>1, <2>1, <2>3, PaidBefore
  <1>3. ASSUME NEW s \in Slots, Show(s) \/ RejectNoContent(s) \/ GiveUp(s)
        PROVE  Goal
    <2>1. /\ task' = [task EXCEPT ![s] = Idle]
          /\ UNCHANGED <<table, loads, elsewhere>>
      BY <1>3 DEF Show, RejectNoContent, GiveUp, bounds
    <2>2. Changing' \subseteq Changing /\ Unanswered' \subseteq Unanswered
      BY <1>1, <2>1, EndIsNoChange
    <2> QED
      BY <1>1, <2>1, <2>2, PaidBefore
  <1>4. ASSUME NEW s \in Slots, NEW c \in Calls, Serve(s, c) PROVE Goal
    <2>1. /\ SameOthers(s) /\ SameFunction(s)
          /\ \A d \in Calls :
                task'[s].call[d] = IF d = c THEN "done" ELSE task[s].call[d]
          /\ IsLoading(s) => table' = table
          /\ ~IsLoading(s) =>
                \A l \in Lists :
                   table'[l] = IF l = task[s].list THEN table[l] + 1 ELSE table[l]
          /\ task[s].call[c] = "sent" /\ UNCHANGED <<loads, elsewhere>>
      BY <1>1, <1>4, ServeEffect DEF Serve, SameOthers, bounds
    <2>2. /\ Changing' \subseteq Changing
          /\ Unanswered' \subseteq Unanswered \ {<<s, c>>}
          /\ ~IsLoading(s) => <<s, c>> \in Unanswered
      BY <1>1, <2>1, AnswerIsCounted
    <2>3. Unanswered' \subseteq Unanswered
      BY <2>2
    <2>4. CASE IsLoading(s)
      BY <1>1, <2>1, <2>2, <2>3, <2>4, PaidBefore
    <2>5. CASE ~IsLoading(s)
      <3>1. \A l \in Lists : table'[l] \in table[l] .. table[l] + 1
        BY <1>1, <2>1, <2>5
      <3>2. \E x \in Unanswered : Unanswered' \subseteq Unanswered \ {x}
        BY <2>2, <2>5
      <3> QED
        BY <1>1, <2>1, <2>2, <2>3, <3>1, <3>2, PaidBefore
    <2> QED
      BY <2>4, <2>5
  <1>5. ASSUME NEW s \in Slots, NEW c \in Calls, Fail(s, c), UNCHANGED <<loads, elsewhere>>,
               \/ UNCHANGED table
               \/ /\ task[s].call[c] = "sent" /\ ~IsLoading(s)
                  /\ table' = [table EXCEPT ![task[s].list] = @ + 1]
        PROVE  Goal
    <2>1. /\ SameOthers(s) /\ SameFunction(s)
          /\ \A d \in Calls :
                task'[s].call[d] = IF d = c THEN "none" ELSE task[s].call[d]
      BY <1>1, <1>5, FailEffect DEF SameOthers
    <2>2. /\ Changing' \subseteq Changing
          /\ Unanswered' \subseteq Unanswered \ {<<s, c>>}
          /\ task[s].call[c] = "sent" /\ ~IsLoading(s) => <<s, c>> \in Unanswered
      BY <1>1, <2>1, AnswerIsCounted
    <2>3. Unanswered' \subseteq Unanswered
      BY <2>2
    <2>4. CASE UNCHANGED table
      BY <1>1, <1>5, <2>2, <2>3, <2>4, PaidBefore
    <2>5. CASE /\ task[s].call[c] = "sent" /\ ~IsLoading(s)
               /\ table' = [table EXCEPT ![task[s].list] = @ + 1]
      <3>1. \A l \in Lists : table'[l] \in table[l] .. table[l] + 1
        BY <1>1, <2>5
      <3>2. \E x \in Unanswered : Unanswered' \subseteq Unanswered \ {x}
        BY <2>2, <2>5
      <3> QED
        BY <1>1, <1>5, <2>2, <2>3, <3>1, <3>2, PaidBefore
    <2> QED
      BY <1>5, <2>4, <2>5
  <1>6. CASE Refreshed
    <2>1. Resume
      BY <1>6 DEF Refreshed
    <2>2. \A s \in Slots :
            /\ SameFunction(s)
            /\ \A c \in Calls :
                  task'[s].call[c] = IF task[s].call[c] = "waiting" THEN "sent"
                                    ELSE task[s].call[c]
      BY <1>1, <2>1, ResumeEffect
    <2>3. Changing' \subseteq Changing
      BY <2>2 DEF Changing, SameFunction
    <2>4. Unanswered' \subseteq Unanswered
      <3> SUFFICES ASSUME NEW s \in Slots, NEW c \in Calls, <<s, c>> \in Unanswered'
                   PROVE  <<s, c>> \in Unanswered
        BY DEF Unanswered
      <3>1. s \in Changing' /\ task'[s].call[c] \in {"waiting", "sent"}
        BY DEF Unanswered
      <3> QED
        BY <2>2, <2>3, <3>1 DEF Unanswered
    <2>5. UNCHANGED <<table, loads, elsewhere>>
      BY <1>6 DEF Refreshed, bounds
    <2> QED
      BY <1>1, <2>3, <2>4, <2>5, PaidBefore
  <1>7. CASE UNCHANGED vars
    <2>1. UNCHANGED <<table, loads, elsewhere, task>>
      BY <1>7 DEF vars, page, bounds
    <2>2. Changing' = Changing /\ Unanswered' = Unanswered
      BY <2>1 DEF Changing, Unanswered
    <2> QED
      BY <1>1, <2>1, <2>2, PaidBefore
  <1>8. ASSUME NEW k \in Lists, ChangeElsewhere(k) PROVE Goal
    <2>1. /\ UNCHANGED <<loads, task>> /\ elsewhere' = elsewhere + 1
          /\ table' = [table EXCEPT ![k] = @ + 1]
      BY <1>8 DEF ChangeElsewhere, page
    <2>2. Changing' = Changing /\ Unanswered' = Unanswered
      BY <2>1 DEF Changing, Unanswered
    <2>3. \A l \in Lists : table'[l] \in table[l] .. table[l] + 1
      BY <1>1, <2>1
    <2> QED
      BY <1>1, <2>1, <2>2, <2>3, PaidBefore
  <1>9. ASSUME NEW s \in Slots, NEW c \in Calls, Refuse(s, c) \/ Lose(s, c)
        PROVE  Goal
    <2>1. /\ Fail(s, c) /\ UNCHANGED <<loads, elsewhere>>
          /\ \/ UNCHANGED table
             \/ /\ task[s].call[c] = "sent" /\ ~IsLoading(s)
                /\ table' = [table EXCEPT ![task[s].list] = @ + 1]
      BY <1>9 DEF Refuse, Lose, bounds
    <2> QED
      BY <1>5, <2>1
  <1>10. /\ \A s \in Slots : ~Refresh(s)
         /\ \A s \in Slots, l \in Lists, kind \in {"change", "delete", "sync"} :
               ~Change(s, kind, l)
    <2>1. \A s \in Slots : ~Click(s)
      BY <1>1 DEF Click
    <2> QED
      BY <2>1 DEF Refresh, Change
  <1> QED
    BY <1>2, <1>3, <1>4, <1>6, <1>7, <1>8, <1>9, <1>10 DEF Next, Continue

\* A step that takes a click keeps the balance too.
LEMMA PaidStepByClick ==
    ASSUME IsFiniteSet(Slots), IsFiniteSet(Lists), IsFiniteSet(Users),
           PanelInv, Guarded, Paid, NEW s \in Slots,
           \/ Refresh(s)
           \/ \E l \in Lists, kind \in {"change", "delete", "sync"} :
                 Change(s, kind, l)
    PROVE  /\ loads' + Cardinality(Changing)' <= clicks'
           /\ \A l \in Lists :
                 table'[l] + Cardinality(Unanswered)'
                    <= elsewhere' + clicks' * PerClick
  <1>1. Shape
    BY DEF PanelInv
  <1>2. CASE Refresh(s)
    <2>1. /\ Load(s) /\ UNCHANGED <<table, shown, applied, elsewhere>>
          /\ clicks' = clicks + 1
      BY <1>2 DEF Refresh, Click
    <2>2. Loads(s)
      BY <1>1, <2>1, LoadEffect DEF Loads, Load, NeedToken, Shape
    <2>3. /\ Changing' \subseteq Changing
          /\ Unanswered' \subseteq Unanswered \cup ({s} \X {})
          /\ loads' = loads + 1
      BY <1>1, <2>2, LoadIsNoChange DEF Loads
    <2>4. IsFiniteSet({}) /\ Cardinality({}) <= PerClick
      BY FS_EmptySet, Countable DEF PerClick
    <2> QED
      BY <1>1, <2>1, <2>3, <2>4, PaidByClick
  <1>3. ASSUME NEW l \in Lists, NEW kind \in {"change", "delete", "sync"},
               Change(s, kind, l)
        PROVE  /\ loads' + Cardinality(Changing)' <= clicks'
               /\ \A k \in Lists :
                     table'[k] + Cardinality(Unanswered)'
                        <= elsewhere' + clicks' * PerClick
    <2>1. /\ UNCHANGED <<table, loads, elsewhere>> /\ clicks' = clicks + 1
      BY <1>3 DEF Change, Click
    <2>2. Changing' \subseteq Changing \cup {s}
      BY <1>1, <1>3, ChangeIsCounted
    <2>3. PICK calls : /\ IsFiniteSet(calls) /\ Cardinality(calls) <= PerClick
                       /\ Unanswered' \subseteq Unanswered \cup ({s} \X calls)
      BY <1>1, <1>3, ChangeIsCounted
    <2> QED
      BY <1>1, <2>1, <2>2, <2>3, PaidByClick
  <1> QED
    BY <1>2, <1>3

\* No step reads a list ahead of its table.
LEMMA NothingAhead ==
    ASSUME PanelInv, Shape', Paid, [Next]_vars
    PROVE  \A s \in Slots, l \in Lists : task'[s].got[l] <= table'[l]
  <1> DEFINE Goal == \A s \in Slots, l \in Lists : task'[s].got[l] <= table'[l]
  <1>1. /\ Shape
        /\ table \in [Lists -> Nat] /\ table' \in [Lists -> Nat]
        /\ \A s \in Slots : /\ task[s].list \in Lists
                            /\ task[s].got \in [Lists -> Nat]
                            /\ task'[s].got \in [Lists -> Nat]
        /\ \A s \in Slots, l \in Lists : task[s].got[l] <= table[l]
    BY DEF PanelInv, Shape, AnyTask, Paid
  <1>2. ASSUME \A s \in Slots, l \in Lists :
                  task'[s].got[l] = 0 \/ task'[s].got[l] = task[s].got[l],
               \A l \in Lists : table'[l] >= table[l]
        PROVE  Goal
    BY <1>1, <1>2
  <1>3. ASSUME NEW s \in Slots, Load(s), UNCHANGED <<table, shown, applied>>
        PROVE  Goal
    <2>1. Loads(s)
      BY <1>1, <1>3, LoadEffect DEF Loads, Load, NeedToken, Shape
    <2> QED
      BY <1>1, <1>2, <1>3, <2>1, LoadIsNoChange
  <1>4. ASSUME NEW s \in Slots, NEW l \in Lists,
               NEW kind \in {"change", "delete", "sync"}, Change(s, kind, l)
        PROVE  Goal
    <2> DEFINE calls == IF kind = "sync" THEN Users ELSE {l}
               t == [Idle EXCEPT !.kind = kind, !.list = l, !.call = Issue(calls)]
    <2>1. task' = [task EXCEPT ![s] = t] /\ table' = table
      BY <1>4 DEF Change
    <2>2. t.got = NoList
      BY DEF Idle
    <2> HIDE DEF t
    <2>3. /\ \A k \in Lists : task'[s].got[k] = 0
          /\ \A r \in Slots \ {s} : task'[r] = task[r]
      BY <1>1, <2>1, <2>2 DEF NoList, Shape
    <2> QED
      BY <1>1, <1>2, <2>1, <2>3
  <1>5. ASSUME NEW s \in Slots, Show(s) \/ RejectNoContent(s) \/ GiveUp(s)
        PROVE  Goal
    <2>1. task' = [task EXCEPT ![s] = Idle] /\ table' = table
      BY <1>5 DEF Show, RejectNoContent, GiveUp
    <2>2. /\ \A l \in Lists : task'[s].got[l] = 0
          /\ \A r \in Slots \ {s} : task'[r] = task[r]
      BY <1>1, <2>1, EndIsNoChange
    <2>3. \A r \in Slots, l \in Lists :
            task'[r].got[l] = 0 \/ task'[r].got[l] = task[r].got[l]
      BY <2>2
    <2>4. \A l \in Lists : table'[l] >= table[l]
      BY <1>1, <2>1
    <2> QED
      BY <1>2, <2>3, <2>4
  <1>6. ASSUME NEW s \in Slots, NEW c \in Calls, Serve(s, c) PROVE Goal
    <2>1. /\ \A r \in Slots \ {s} : task'[r] = task[r]
          /\ IsLoading(s) =>
                 /\ table' = table
                 /\ \A l \in Lists :
                       task'[s].got[l] = IF l = c THEN table[l] ELSE task[s].got[l]
          /\ ~IsLoading(s) =>
                 /\ task'[s].got = task[s].got
                 /\ \A l \in Lists :
                       table'[l] = IF l = task[s].list THEN table[l] + 1 ELSE table[l]
      BY <1>1, <1>6, ServeEffect
    <2>2. CASE IsLoading(s)
      BY <1>1, <2>1, <2>2
    <2>3. CASE ~IsLoading(s)
      BY <1>1, <1>2, <2>1, <2>3
    <2> QED
      BY <2>2, <2>3
  <1>7. ASSUME NEW s \in Slots, NEW c \in Calls, Refuse(s, c) \/ Lose(s, c)
        PROVE  Goal
    <2>1. /\ Fail(s, c)
          /\ \/ table' = table
             \/ table' = [table EXCEPT ![task[s].list] = @ + 1]
      BY <1>7 DEF Refuse, Lose
    <2>2. /\ task'[s].got = task[s].got
          /\ \A r \in Slots \ {s} : task'[r] = task[r]
      BY <1>1, <2>1, FailEffect
    <2>3. \A l \in Lists : table'[l] >= table[l]
      BY <1>1, <2>1
    <2> QED
      BY <1>2, <2>2, <2>3
  <1>8. CASE Refreshed
    <2>1. Resume
      BY <1>8 DEF Refreshed
    <2>2. table' = table /\ \A s \in Slots : task'[s].got = task[s].got
      BY <1>1, <1>8, <2>1, ResumeEffect DEF Refreshed
    <2> QED
      BY <1>1, <1>2, <2>2
  <1>9. CASE UNCHANGED vars
    BY <1>1, <1>2, <1>9 DEF vars, page
  <1>10. ASSUME NEW k \in Lists, ChangeElsewhere(k) PROVE Goal
    <2>1. task' = task /\ table' = [table EXCEPT ![k] = @ + 1]
      BY <1>10 DEF ChangeElsewhere, page
    <2>2. \A l \in Lists : table'[l] >= table[l]
      BY <1>1, <2>1
    <2> QED
      BY <1>2, <2>1, <2>2
  <1> QED
    BY <1>3, <1>4, <1>5, <1>6, <1>7, <1>8, <1>9, <1>10
       DEF Next, Continue, Refresh, LoadAfterChange

\* What has been paid for is within the bounds.
LEMMA PaidIsBounded ==
    ASSUME IsFiniteSet(Slots), IsFiniteSet(Lists), IsFiniteSet(Users),
           PanelInv, Guarded, Paid
    PROVE  TypeOK
  <1>1. Shape /\ Numbered /\ Alone
    BY DEF PanelInv
  <1>2. /\ Changing \in SUBSET Slots /\ Unanswered \in SUBSET (Slots \X Calls)
    BY DEF Changing, Unanswered
  <1>3. /\ Cardinality(Changing) \in Nat /\ Cardinality(Unanswered) \in Nat
        /\ PerClick \in Nat
    BY <1>2, Countable DEF PerClick
  <1>4. /\ clicks \in Nat /\ elsewhere \in Nat /\ MaxClicks \in Nat
        /\ MaxElsewhere \in Nat /\ clicks <= MaxClicks /\ elsewhere <= MaxElsewhere
        /\ loads \in Nat
    BY <1>1, PanelBounds DEF Guarded, Shape
  <1>5. loads \in 0 .. MaxClicks
    BY <1>3, <1>4 DEF Paid
  <1>6. clicks * PerClick <= MaxClicks * PerClick
    <2> DEFINE more == MaxClicks - clicks
    <2>1. more \in Nat /\ MaxClicks = clicks + more
      BY <1>4
    <2>2. (clicks + more) * PerClick = clicks * PerClick + more * PerClick
            /\ more * PerClick \in Nat /\ clicks * PerClick \in Nat
      <3> HIDE DEF more
      <3> QED
        BY <1>3, <1>4, <2>1
    <2> HIDE DEF more
    <2> QED
      BY <2>1, <2>2
  <1>7. clicks * PerClick \in Nat /\ MaxClicks * PerClick \in Nat
    BY <1>3, <1>4
  <1>8. ASSUME NEW n \in Nat, NEW l \in Lists, n <= table[l]
        PROVE  n \in Versions
    <2> DEFINE paid == clicks * PerClick
               most == MaxClicks * PerClick
               u == Cardinality(Unanswered)
    <2>1. table[l] + u <= elsewhere + paid /\ table[l] \in Nat
      BY <1>1 DEF Paid, Shape
    <2>2. paid <= most /\ paid \in Nat /\ most \in Nat /\ u \in Nat
      BY <1>3, <1>6, <1>7
    <2> HIDE DEF paid, most, u
    <2>3. n <= MaxElsewhere + most
      BY <1>4, <1>8, <2>1, <2>2
    <2> QED
      BY <2>3 DEF Versions, most, PerClick
  <1>9. table \in [Lists -> Versions] /\ shown \in [Lists -> Versions]
    <2>1. table \in [Lists -> Nat] /\ shown \in [Lists -> Nat]
      BY <1>1 DEF Shape
    <2>2. \A l \in Lists : table[l] \in Versions /\ shown[l] \in Versions
      BY <1>1, <1>8, <2>1 DEF Alone
    <2> QED
      BY <2>1, <2>2
  <1>10. task \in [Slots -> Task]
    <2> SUFFICES ASSUME NEW s \in Slots PROVE task[s] \in Task
      BY <1>1 DEF Shape
    <2>1. task[s] \in AnyTask
      BY <1>1 DEF Shape
    <2>2. task[s].got \in [Lists -> Versions]
      <3>1. task[s].got \in [Lists -> Nat]
        BY <2>1 DEF AnyTask
      <3>2. \A l \in Lists : task[s].got[l] \in Versions
        BY <1>8, <3>1 DEF Paid
      <3> QED
        BY <3>1, <3>2
    <2>3. task[s].seq \in 0 .. MaxClicks
      BY <1>1, <1>4, <1>5, <2>1 DEF Numbered, AnyTask
    <2> QED
      BY <2>1, <2>2, <2>3 DEF AnyTask, Task
  <1>11. applied \in 0 .. loads
    BY <1>1, <1>4 DEF Numbered, Shape
  <1>12. refreshes \in 0 .. Cardinality(Slots)
    <2>1. refreshes \in {0, 1} /\ Cardinality(Slots) \in Nat
      BY <1>1, Countable DEF Shape
    <2>2. Slots # {} => Cardinality(Slots) # 0
      BY FS_EmptySet
    <2> QED
      BY <2>1, <2>2 DEF Guarded
  <1> QED
    BY <1>5, <1>9, <1>10, <1>11, <1>12 DEF TypeOK, Guarded

\* However many functions overlap, a page starts no more loads and makes no more
\* changes than its user has clicked for, and shows no state of a list that the
\* server has not been in (App.tsx:153-191, 241-279).
THEOREM PanelIsTyped ==
    ASSUME IsFiniteSet(Slots), IsFiniteSet(Lists), IsFiniteSet(Users)
    PROVE  Spec => []TypeOK
  <1>1. Init => Guarded /\ Paid
    <2> SUFFICES ASSUME Init PROVE Guarded /\ Paid
      OBVIOUS
    <2>1. \A s \in Slots : task[s] = Idle
      BY DEF Init
    <2>2. Changing = {} /\ Unanswered = {}
      BY <2>1 DEF Idle, Changing, Unanswered
    <2>3. Cardinality({}) = 0 /\ PerClick \in Nat
      BY FS_EmptySet, Countable DEF PerClick
    <2>4. \A l \in Lists : table[l] = 0 /\ \A s \in Slots : task[s].got[l] = 0
      BY <2>1 DEF Idle, Init, NoList
    <2>5. Paid
      <3>1. /\ Cardinality(Changing) = 0 /\ Cardinality(Unanswered) = 0
            /\ loads = 0 /\ clicks = 0 /\ elsewhere = 0
        BY <2>2, <2>3 DEF Init
      <3>2. clicks * PerClick = 0
        BY <2>3, <3>1
      <3> QED
        BY <2>4, <3>1, <3>2 DEF Paid
    <2>6. Guarded
      <3>1. 0 \in 0 .. MaxClicks /\ 0 \in 0 .. MaxElsewhere /\ 0 \in 0 .. MaxFaults
        BY PanelBounds
      <3>2. /\ clicks \in 0 .. MaxClicks /\ elsewhere \in 0 .. MaxElsewhere
            /\ faults \in 0 .. MaxFaults /\ refreshes = 0
        BY <3>1 DEF Init
      <3>3. /\ cached \in BOOLEAN /\ stored \in BOOLEAN
            /\ disturbed \subseteq {"elsewhere", "lost", "deleted"}
        BY ZenonT(30) DEF Init
      <3> QED
        BY <3>2, <3>3, ZenonT(30) DEF Guarded
    <2> QED
      BY <2>5, <2>6
  <1>2. PanelInv /\ PanelInv' /\ Guarded /\ Paid /\ [Next]_vars
            => Guarded' /\ Paid'
    <2> SUFFICES ASSUME PanelInv, PanelInv', Guarded, Paid, [Next]_vars
                 PROVE  Guarded' /\ Paid'
      OBVIOUS
    <2>1. Shape /\ Shape'
      BY DEF PanelInv
    <2>2. Guarded'
      BY <2>1, GuardedStep
    <2>3. \A s \in Slots, l \in Lists : task'[s].got[l] <= table'[l]
      BY <2>1, NothingAhead
    <2> DEFINE Goal == /\ loads' + Cardinality(Changing)' <= clicks'
                       /\ \A l \in Lists :
                             table'[l] + Cardinality(Unanswered)'
                                <= elsewhere' + clicks' * PerClick
    <2>4. ASSUME UNCHANGED clicks PROVE Goal
      BY <2>1, <2>4, PaidStepBefore
    <2>5. ASSUME ~UNCHANGED clicks PROVE Goal
      <3>1. \E s \in Slots :
              \/ Refresh(s)
              \/ \E l \in Lists, kind \in {"change", "delete", "sync"} :
                    Change(s, kind, l)
        BY <2>5 DEF Next, Continue, Show, LoadAfterChange, RejectNoContent, GiveUp,
                    Serve, Refuse, Lose, Refreshed, ChangeElsewhere, vars,
                    bounds
      <3> QED
        BY <3>1, PaidStepByClick
    <2>6. Goal
      BY <2>4, <2>5
    <2> QED
      BY <2>2, <2>3, <2>6 DEF Paid, PerClick
  <1>3. PanelInv /\ Guarded /\ Paid => TypeOK
    BY PaidIsBounded
  <1> QED
    BY <1>1, <1>2, <1>3, PanelInvariant, PTL DEF Spec
=============================================================================
