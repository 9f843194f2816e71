-------------------------- MODULE DirectSendProofs --------------------------
(***************************************************************************)
(* Theorems about DirectSend, for any number of requests, targets and      *)
(* contacts, whatever the requests say and however often they are sent.    *)
(***************************************************************************)
EXTENDS DirectSend, SequenceTheorems, TLAPS

\* The part of KeysInv that types need.
Typed ==
    /\ TypeOK
    /\ \A q \in Requests :
          pc[q] \in {"recipients", "send"} => chosen[q].id \in Targets

\* The program starts well typed.
LEMMA TypedInit == Init => Typed
  <1> SUFFICES ASSUME Init PROVE Typed
    OBVIOUS
  <1> USE DEF Init
  <1>1. /\ rows \in Seq(Row) /\ Len(rows) = 0
    BY EmptySeq
  <1>2. \A q \in Requests : Len(request[q].refs) \in Nat
    BY ShapesAssumption
  <1>3. reply \in [Requests -> [answer : Answers, row : 0 .. Len(rows)]]
    BY <1>1 DEF NoReply, Answers
  <1>4. pos \in [Requests -> Nat] /\ \A q \in Requests : pos[q] \in 1 .. Len(request[q].refs) + 1
    BY <1>2
  <1>5. storedTo \in [Targets -> SUBSET Addresses]
    OBVIOUS
  <1>6. chosen \in [Requests -> [id : Targets \cup {None}, to : SUBSET Addresses]]
    BY DEF NoTarget
  <1>7. seen \in [Requests -> [Contacts -> SUBSET ContactStates]]
    BY DEF NotSeen
  <1>8. contact \in [Contacts -> ContactStates]
    BY DEF ContactStates
  <1>9. tries \in [Requests -> 0 .. MaxTries]
    BY TriesAssumption
  <1> QED
    BY <1>1, <1>3, <1>4, <1>5, <1>6, <1>7, <1>8, <1>9 DEF Typed, TypeOK

\* What remains of a handler that has answered.
LEMMA AnswerTyped ==
    ASSUME Typed, NEW q \in Requests, NEW a \in Answers, NEW r \in Nat,
           request' = request, rows' \in Seq(Row'), r <= Len(rows'),
           Len(rows) <= Len(rows'), Answer(q, a, r),
           UNCHANGED <<tables, tries>>
    PROVE  Typed'
  <1> USE DEF Typed, TypeOK, Answer, Goto
  <1>1. reply' \in [Requests -> [answer : Answers, row : 0 .. Len(rows')]]
    <2>1. Len(rows) \in Nat /\ Len(rows') \in Nat
      BY LenProperties
    <2>2. reply \in [Requests -> [answer : Answers, row : 0 .. Len(rows')]]
      <3>1. [answer : Answers, row : 0 .. Len(rows)]
              \subseteq [answer : Answers, row : 0 .. Len(rows')]
        BY <2>1
      <3> QED
        BY <3>1
    <2>3. [answer |-> a, row |-> r] \in [answer : Answers, row : 0 .. Len(rows')]
      BY <2>1
    <2> QED
      BY <2>2, <2>3
  <1>2. chosen' \in [Requests -> [id : Targets \cup {None}, to : SUBSET Addresses]]
    BY DEF NoTarget
  <1>3. seen' \in [Requests -> [Contacts -> SUBSET ContactStates]]
    BY DEF NotSeen
  <1>4. pos' \in [Requests -> Nat]
          /\ \A p \in Requests : pos'[p] \in 1 .. Len(request'[p].refs) + 1
    <2>1. Len(request[q].refs) \in Nat
      BY ShapesAssumption
    <2> QED
      BY <2>1
  <1>5. gathered' \in [Requests -> SUBSET Addresses]
    OBVIOUS
  <1>6. \A p \in Requests :
          pc'[p] \in {"recipients", "send"} => chosen'[p].id \in Targets
    OBVIOUS
  <1> QED
    BY <1>1, <1>2, <1>3, <1>4, <1>5, <1>6 DEF tables

\* With the rows as they were.
LEMMA AnswerKeepsRows ==
    ASSUME Typed, NEW q \in Requests, NEW a \in Answers, Answer(q, a, 0),
           UNCHANGED <<request, tables, rows, tries>>
    PROVE  Typed'
  <1>1. rows' \in Seq(Row') /\ Len(rows') \in Nat /\ Len(rows) = Len(rows')
    BY LenProperties DEF Typed, TypeOK, Row
  <1> QED
    BY <1>1, AnswerTyped

\* What a recipient reference resolves to are addresses.
LEMMA ResolvedTyped ==
    ASSUME TypeOK, NEW q \in Requests, NEW i \in 1 .. Len(request[q].refs)
    PROVE  Resolved(request[q].refs[i]) \subseteq Addresses
  <1> DEFINE ref == request[q].refs[i]
  <1>1. ref.value \subseteq Addresses
    BY ShapesAssumption DEF TypeOK
  <1>2. \A c \in ListUserContacts(ref.user) : c.value \in Addresses
    BY ContactsAssumption DEF ListUserContacts
  <1> QED
    BY <1>1, <1>2 DEF Resolved

\* The row Enqueue inserts is well typed: it has a target.
LEMMA NewRowTyped ==
    ASSUME Typed, NEW q \in Requests, pc[q] = "send"
    PROVE  NewRow(q) \in Row
  <1>1. Override(q) \subseteq Addresses
    <2>1. SendTo(q) \subseteq Addresses
      BY DEF Typed, TypeOK, SendTo
    <2>2. request[q].payloadTo \subseteq Addresses
      BY ShapesAssumption DEF Typed, TypeOK
    <2> QED
      BY <2>1, <2>2 DEF Override
  <1> QED
    BY <1>1 DEF Typed, NewRow, Row

\* A row changes its status and nothing else.
LEMMA SetStatusEffect ==
    ASSUME TypeOK, NEW i \in DOMAIN rows, NEW s \in {"delivered", "failed"},
           SetStatus(i, s), request' = request
    PROVE  /\ rows' \in Seq(Row')
           /\ Len(rows') = Len(rows) /\ DOMAIN rows' = DOMAIN rows
           /\ \A j \in DOMAIN rows : /\ rows'[j].key = rows[j].key
                                     /\ rows'[j].request = rows[j].request
                                     /\ rows'[j].to = rows[j].to
  <1>1. rows \in Seq(Row) /\ Row' = Row
    BY DEF TypeOK, Row
  <1>2. DOMAIN rows = 1 .. Len(rows)
    BY <1>1, LenProperties
  <1>3. rows[i] \in Row
    BY <1>1, <1>2, ElementOfSeq
  <1> DEFINE e == [rows[i] EXCEPT !.status = s]
  <1>4. /\ e \in Row /\ e.key = rows[i].key /\ e.request = rows[i].request
        /\ e.to = rows[i].to
    BY <1>3 DEF Row
  <1>5. rows' = [rows EXCEPT ![i] = e]
    BY DEF SetStatus
  <1> HIDE DEF e
  <1>6. /\ rows' \in Seq(Row)
        /\ Len(rows') = Len(rows)
        /\ \A j \in 1 .. Len(rows) : rows'[j] = IF j = i THEN e ELSE rows[j]
    BY <1>1, <1>2, <1>4, <1>5, ExceptSeq
  <1>7. DOMAIN rows' = 1 .. Len(rows')
    BY <1>6, LenProperties
  <1> QED
    BY <1>1, <1>2, <1>4, <1>6, <1>7

\* What Enqueue leaves in the table, and the row it answers with.
LEMMA EnqueueEffect ==
    ASSUME Typed, NEW q \in Requests, Enqueue(q)
    PROVE  \E r \in Nat \ {0} :
             /\ rows' \in Seq(Row) /\ Row' = Row
             /\ r <= Len(rows') /\ Len(rows) <= Len(rows')
             /\ Answer(q, "queued", r) \/ Answer(q, "error", 0)
             /\ \/ rows' = rows /\ r \in Holder(q)
                \/ /\ Holder(q) = {}
                   /\ r = Len(rows) + 1 /\ Len(rows') = Len(rows) + 1
                   /\ \A i \in 1 .. Len(rows) : rows'[i] = rows[i]
                   /\ rows'[r] = NewRow(q)
  <1>1. rows \in Seq(Row) /\ Row' = Row
    BY DEF Typed, TypeOK, Enqueue, Row
  <1>2. Len(rows) \in Nat /\ DOMAIN rows = 1 .. Len(rows)
    BY <1>1, LenProperties
  <1>3. CASE Holder(q) = {}
    <2>1. rows' = Append(rows, NewRow(q))
            /\ (Answer(q, "queued", Len(rows) + 1) \/ Answer(q, "error", 0))
      BY <1>3 DEF Enqueue
    <2>2. NewRow(q) \in Row
      BY NewRowTyped DEF Enqueue
    <2>3. /\ rows' \in Seq(Row) /\ Len(rows') = Len(rows) + 1
          /\ \A i \in 1 .. Len(rows) : rows'[i] = rows[i]
          /\ rows'[Len(rows) + 1] = NewRow(q)
      BY <1>1, <2>1, <2>2, AppendProperties
    <2> QED
      BY <1>1, <1>2, <1>3, <2>1, <2>3
  <1>4. CASE Holder(q) # {}
    <2>1. PICK r \in Holder(q) :
            rows' = rows /\ (Answer(q, "queued", r) \/ Answer(q, "error", 0))
      BY <1>4 DEF Enqueue
    <2>2. r \in Nat \ {0} /\ r <= Len(rows)
      BY <1>2 DEF Holder
    <2>3. rows' \in Seq(Row) /\ r <= Len(rows') /\ Len(rows) <= Len(rows')
      BY <1>1, <1>2, <2>1, <2>2
    <2> QED
      BY <1>1, <2>1, <2>2, <2>3
  <1> QED
    BY <1>3, <1>4

\* Every step keeps the types.
LEMMA TypedStep == Typed /\ [Next]_vars => Typed'
  <1> SUFFICES ASSUME Typed, [Next]_vars PROVE Typed'
    OBVIOUS
  <1>1. ASSUME NEW t \in Targets, NEW s \in {"enabled", "disabled", "deleted"},
               NEW to \in {{}} \cup {{a} : a \in Addresses}, SetTarget(t, s, to)
        PROVE  Typed'
    <2>1. to \subseteq Addresses
      OBVIOUS
    <2> QED
      BY <1>1, <2>1 DEF Typed, TypeOK, SetTarget, handler, Row
  <1>2. ASSUME NEW c \in Contacts, NEW s \in ContactStates,
               SetContact(c, s) \/ \E d \in Contacts : MoveContact(c, d, s)
        PROVE  Typed'
    <2>1. contact' \in [Contacts -> ContactStates]
      <3>1. CASE SetContact(c, s)
        BY <3>1 DEF Typed, TypeOK, SetContact
      <3>2. CASE \E d \in Contacts : MoveContact(c, d, s)
        BY <3>2 DEF Typed, TypeOK, MoveContact, ContactStates
      <3> QED
        BY <1>2, <3>1, <3>2
    <2>2. seen' = Seen(contact')
      BY <1>2 DEF SetContact, MoveContact
    <2>3. seen' \in [Requests -> [Contacts -> SUBSET ContactStates]]
      BY <2>1, <2>2 DEF Typed, TypeOK, Seen
    <2>4. UNCHANGED <<request, state, storedTo, rows, pc, chosen, gathered, pos,
                      reply, tries, sent>>
      BY <1>2 DEF SetContact, MoveContact
    <2> QED
      BY <2>1, <2>3, <2>4 DEF Typed, TypeOK, Row
  <1>3. ASSUME NEW q \in Requests, Publish(q) PROVE Typed'
    <2>1. tries' \in [Requests -> 0 .. MaxTries]
      BY <1>3, TriesAssumption DEF Typed, TypeOK, Publish
    <2>2. seen' \in [Requests -> [Contacts -> SUBSET ContactStates]]
      BY <1>3 DEF Typed, TypeOK, Publish
    <2>3. /\ pc' \in [Requests -> {"idle", "target", "recipients", "send"}]
          /\ \A p \in Requests :
               pc'[p] \in {"recipients", "send"} => chosen'[p].id \in Targets
      BY <1>3 DEF Typed, TypeOK, Publish, Goto
    <2>4. UNCHANGED <<request, tables, rows, chosen, gathered, pos, reply>>
      BY <1>3 DEF Publish
    <2> QED
      BY <2>1, <2>2, <2>3, <2>4 DEF Typed, TypeOK, tables, Row
  <1>4. ASSUME NEW q \in Requests, RefuseTitle(q) PROVE Typed'
    BY <1>4, AnswerKeepsRows DEF RefuseTitle, Answers
  <1>5. ASSUME NEW q \in Requests, ResolveTarget(q) PROVE Typed'
    <2>1. PICK t \in Candidates(q) :
            chosen' = [chosen EXCEPT ![q] = [id |-> t, to |-> storedTo[t]]]
      BY <1>5 DEF ResolveTarget
    <2>2. t \in Targets
      BY DEF Candidates
    <2>3. chosen' \in [Requests -> [id : Targets \cup {None}, to : SUBSET Addresses]]
      BY <2>1, <2>2 DEF Typed, TypeOK
    <2>4. \A p \in Requests :
            pc'[p] \in {"recipients", "send"} => chosen'[p].id \in Targets
      BY <1>5, <2>1, <2>2 DEF Typed, TypeOK, ResolveTarget, Goto
    <2>5. request[q].to \subseteq Addresses
      BY ShapesAssumption DEF Typed, TypeOK
    <2>6. gathered' \in [Requests -> SUBSET Addresses]
      BY <1>5, <2>5 DEF Typed, TypeOK, ResolveTarget
    <2>7. pc' \in [Requests -> {"idle", "target", "recipients", "send"}]
      BY <1>5 DEF Typed, TypeOK, ResolveTarget, Goto
    <2> QED
      BY <1>5, <2>3, <2>4, <2>6, <2>7 DEF Typed, TypeOK, ResolveTarget, tables, Row
  <1>6. ASSUME NEW q \in Requests, RefuseTarget(q) PROVE Typed'
    BY <1>6, AnswerKeepsRows DEF RefuseTarget, Answers
  <1>7. ASSUME NEW q \in Requests, ResolveRecipient(q) PROVE Typed'
    <2>1. Len(request[q].refs) \in Nat
      BY ShapesAssumption DEF Typed, TypeOK
    <2>2. pos[q] \in 1 .. Len(request[q].refs)
      BY <1>7, <2>1 DEF Typed, TypeOK, ResolveRecipient
    <2>3. Resolved(request[q].refs[pos[q]]) \subseteq Addresses
      BY <2>2, ResolvedTyped DEF Typed
    <2>4. gathered' \in [Requests -> SUBSET Addresses]
      BY <1>7, <2>3 DEF Typed, TypeOK, ResolveRecipient
    <2>5. pos' \in [Requests -> Nat]
            /\ \A p \in Requests : pos'[p] \in 1 .. Len(request'[p].refs) + 1
      BY <1>7, <2>1, <2>2 DEF Typed, TypeOK, ResolveRecipient
    <2> QED
      BY <1>7, <2>4, <2>5 DEF Typed, TypeOK, ResolveRecipient, tables, Row
  <1>8. ASSUME NEW q \in Requests, RecipientsResolved(q) PROVE Typed'
    BY <1>8 DEF Typed, TypeOK, RecipientsResolved, Goto, tables, Row
  <1>9. ASSUME NEW q \in Requests, Enqueue(q) PROVE Typed'
    <2>1. PICK r \in Nat \ {0} :
             /\ rows' \in Seq(Row')
             /\ r <= Len(rows') /\ Len(rows) <= Len(rows')
             /\ Answer(q, "queued", r) \/ Answer(q, "error", 0)
      BY <1>9, EnqueueEffect
    <2>2. request' = request /\ UNCHANGED <<tables, tries>>
      BY <1>9 DEF Enqueue
    <2>3. 0 <= Len(rows')
      BY <2>1, LenProperties
    <2> QED
      BY <2>1, <2>2, <2>3, AnswerTyped DEF Answers
  <1>10. ASSUME NEW q \in Requests, SendNow(q) PROVE Typed'
    BY <1>10, AnswerKeepsRows DEF SendNow, Answers
  <1>11. ASSUME NEW q \in Requests, Break(q) PROVE Typed'
    BY <1>11, AnswerKeepsRows DEF Break, Answers
  <1>12. ASSUME NEW i \in DOMAIN rows, SendRow(i) \/ FailRow(i) PROVE Typed'
    <2>1. rows' \in Seq(Row') /\ Len(rows') = Len(rows)
      BY <1>12, SetStatusEffect DEF SendRow, FailRow, Typed
    <2>2. UNCHANGED <<request, tables, handler, reply, tries>>
      BY <1>12 DEF SendRow, FailRow
    <2> QED
      BY <2>1, <2>2 DEF Typed, TypeOK, handler, tables
  <1>13. ASSUME UNCHANGED vars PROVE Typed'
    BY <1>13 DEF Typed, TypeOK, vars, tables, handler, Row
  <1> QED
    BY <1>1, <1>2, <1>3, <1>4, <1>5, <1>6, <1>7, <1>8, <1>9, <1>10, <1>11,
       <1>12, <1>13 DEF Next, Admin, Handle

\* The parts of KeysInv that are not types, as one.
Keyed ==
    /\ \A i \in DOMAIN rows : rows[i].key = request[rows[i].request].key
    /\ OneRowPerKey

\* A step that leaves keys and answers alone keeps them.
LEMMA KeyedUnchanged ==
    ASSUME Keyed, UNCHANGED <<request, reply>>, DOMAIN rows' = DOMAIN rows,
           \A j \in DOMAIN rows : /\ rows'[j].key = rows[j].key
                                  /\ rows'[j].request = rows[j].request
    PROVE  Keyed'
  BY DEF Keyed, OneRowPerKey

\* An answer other than "queued" promises nothing.
LEMMA KeyedAnswer ==
    ASSUME Keyed, Typed, NEW q \in Requests, NEW a \in Answers \ {"queued"},
           Answer(q, a, 0), UNCHANGED <<request, rows>>
    PROVE  Keyed'
  <1>1. \A p \in Requests :
          reply'[p].answer = "queued" => p # q /\ reply'[p] = reply[p]
    BY DEF Answer, Typed, TypeOK
  <1> QED
    BY <1>1 DEF Keyed, OneRowPerKey

\* Enqueue gives a key to a new row only if no row has it, and answers with the
\* row that has it.
LEMMA KeyedEnqueue ==
    ASSUME Keyed, Typed, NEW q \in Requests, Enqueue(q)
    PROVE  Keyed'
  <1>1. PICK r \in Nat \ {0} :
             /\ rows' \in Seq(Row)
             /\ Answer(q, "queued", r) \/ Answer(q, "error", 0)
             /\ \/ rows' = rows /\ r \in Holder(q)
                \/ /\ Holder(q) = {}
                   /\ r = Len(rows) + 1 /\ Len(rows') = Len(rows) + 1
                   /\ \A i \in 1 .. Len(rows) : rows'[i] = rows[i]
                   /\ rows'[r] = NewRow(q)
    BY EnqueueEffect
  <1>2. request' = request
    BY DEF Enqueue
  <1>3. rows \in Seq(Row)
    BY DEF Typed, TypeOK
  <1>4. /\ Len(rows) \in Nat /\ DOMAIN rows = 1 .. Len(rows)
        /\ DOMAIN rows' = 1 .. Len(rows')
    BY <1>1, <1>3, LenProperties
  <1>5. \A p \in Requests : reply'[p].answer = "queued" =>
          \/ reply'[p] = reply[p]
          \/ p = q /\ reply'[p].row = r
    BY <1>1 DEF Answer, Typed, TypeOK
  <1>6. CASE rows' = rows /\ r \in Holder(q)
    <2>1. /\ r \in DOMAIN rows /\ request[q].key # None
          /\ rows[r].key = request[q].key
      BY <1>6 DEF Holder
    <2> QED
      BY <1>2, <1>5, <1>6, <2>1 DEF Keyed, OneRowPerKey
  <1>7. CASE /\ Holder(q) = {}
             /\ r = Len(rows) + 1 /\ Len(rows') = Len(rows) + 1
             /\ \A i \in 1 .. Len(rows) : rows'[i] = rows[i]
             /\ rows'[r] = NewRow(q)
    <2>1. /\ rows'[r].key = request[q].key /\ rows'[r].request = q
      BY <1>7 DEF NewRow
    <2>2. \A i \in DOMAIN rows :
            request[q].key # None => rows[i].key # request[q].key
      BY <1>7 DEF Holder
    <2>3. /\ DOMAIN rows' = DOMAIN rows \cup {r} /\ r \notin DOMAIN rows
          /\ \A i \in DOMAIN rows : rows'[i] = rows[i]
      BY <1>4, <1>7
    <2>4. \A i \in DOMAIN rows' : rows'[i].key = request'[rows'[i].request].key
      BY <1>2, <2>1, <2>3 DEF Keyed
    <2>5. \A i, j \in DOMAIN rows' :
            rows'[i].key # None /\ rows'[i].key = rows'[j].key => i = j
      BY <2>1, <2>2, <2>3 DEF Keyed, OneRowPerKey
    <2>6. ASSUME NEW p \in Requests, reply'[p].answer = "queued"
          PROVE  /\ reply'[p].row \in DOMAIN rows'
                 /\ rows'[reply'[p].row].key = request'[p].key
                 /\ rows'[reply'[p].row].request # p => request'[p].key # None
      <3>1. CASE reply'[p] = reply[p]
        BY <1>2, <2>3, <2>6, <3>1 DEF Keyed, OneRowPerKey
      <3>2. CASE p = q /\ reply'[p].row = r
        BY <1>2, <2>1, <2>3, <3>2
      <3> QED
        BY <1>5, <2>6, <3>1, <3>2
    <2> QED
      BY <2>4, <2>5, <2>6 DEF Keyed, OneRowPerKey
  <1> QED
    BY <1>1, <1>6, <1>7

\* Every step keeps what KeysInv says of keys and answers.
LEMMA KeyedStep == Keyed /\ Typed /\ [Next]_vars => Keyed'
  <1> SUFFICES ASSUME Keyed, Typed, [Next]_vars PROVE Keyed'
    OBVIOUS
  <1>1. ASSUME UNCHANGED <<request, rows, reply>> PROVE Keyed'
    BY <1>1 DEF Keyed, OneRowPerKey
  <1>2. ASSUME Admin PROVE Keyed'
    BY <1>1, <1>2 DEF Admin, SetTarget, SetContact, MoveContact
  <1>3. ASSUME NEW q \in Requests, Publish(q) \/ ResolveTarget(q)
                 \/ ResolveRecipient(q) \/ RecipientsResolved(q)
        PROVE  Keyed'
    BY <1>1, <1>3 DEF Publish, ResolveTarget, ResolveRecipient,
                      RecipientsResolved
  <1>4. ASSUME NEW q \in Requests, RefuseTitle(q) \/ RefuseTarget(q)
                 \/ SendNow(q) \/ Break(q)
        PROVE  Keyed'
    BY <1>4, KeyedAnswer
       DEF RefuseTitle, RefuseTarget, SendNow, Break, Answers
  <1>5. ASSUME NEW i \in DOMAIN rows, SendRow(i) \/ FailRow(i) PROVE Keyed'
    <2>1. UNCHANGED <<request, reply>>
            /\ \E s \in {"delivered", "failed"} : SetStatus(i, s)
      BY <1>5 DEF SendRow, FailRow
    <2> QED
      BY <2>1, SetStatusEffect, KeyedUnchanged DEF Typed
  <1>6. ASSUME UNCHANGED vars PROVE Keyed'
    BY <1>1, <1>6 DEF vars
  <1> QED
    BY <1>2, <1>3, <1>4, <1>5, <1>6, KeyedEnqueue DEF Next, Handle

\* At the start there are no rows and no answers.
LEMMA KeyedInit == Init => Keyed
  <1> SUFFICES ASSUME Init PROVE Keyed
    OBVIOUS
  <1>1. DOMAIN rows = {}
    <2>1. rows \in Seq(Row) /\ Len(rows) = 0
      BY EmptySeq DEF Init
    <2> QED
      BY <2>1, LenProperties
  <1>2. \A q \in Requests : reply[q].answer # "queued"
    BY DEF Init, NoReply
  <1> QED
    BY <1>1, <1>2 DEF Keyed, OneRowPerKey

\* The invariant TLC checks is the two parts proved apart.
LEMMA KeysInvParts == KeysInv <=> Typed /\ Keyed
  BY DEF KeysInv, Typed, Keyed

\* The inductive invariant, which TLC checks too.
THEOREM KeysInvariant == Spec => []KeysInv
  <1>1. Init => KeysInv
    BY TypedInit, KeyedInit, KeysInvParts
  <1>2. KeysInv /\ [Next]_vars => KeysInv'
    <2>1. KeysInv' <=> Typed' /\ Keyed'
      BY DEF KeysInv, Typed, Keyed
    <2> QED
      BY <2>1, TypedStep, KeyedStep, KeysInvParts
  <1> QED
    BY <1>1, <1>2, PTL DEF Spec

\* Every reachable state of direct sends is well typed: in particular a row has a
\* target and a "to" of addresses, whatever the request said.
THEOREM SendsAreTyped == Spec => []TypeOK
  <1>1. KeysInv => TypeOK
    BY DEF KeysInv
  <1> QED
    BY <1>1, KeysInvariant, PTL

\* However many publishers share a key, repeat their requests and lose answers,
\* the key has one row and every answer "queued" names it (store.go:212-231).
THEOREM KeysAreShared == Spec => []OneRowPerKey
  <1>1. KeysInv => OneRowPerKey
    BY DEF KeysInv
  <1> QED
    BY <1>1, KeysInvariant, PTL

-----------------------------------------------------------------------------
(* Who is reached.                                                         *)

\* What the handlers read of a request: a user reference names a user, an event
\* that meets a rule names no one, and only HTTP knows send_now.
RequestsAreWellSaid ==
    \A s \in Shapes :
        /\ DOMAIN s.refs = 1 .. Len(s.refs)
        /\ \A i \in DOMAIN s.refs : s.refs[i].kind = "user" => s.refs[i].user # None
        /\ s.via = "rule" => s.to = {} /\ Len(s.refs) = 0
        /\ s.now => s.via = "http"

\* The addresses of the contacts asked for that were enabled at some time.
AskedEnabled(q) ==
    {c.value : c \in {d \in AskedContacts(q) : "enabled" \in seen[q][d]}}

\* One reference has its addresses.
Served(q, i) ==
    LET ref == request[q].refs[i] IN
    IF ref.kind = "user"
    THEN \A c \in Contacts :
            /\ c.user = ref.user /\ c.kind = ref.contactKind
            /\ seen[q][c] = {"enabled"}
            => c.value \in gathered[q]
    ELSE ref.value \subseteq gathered[q]

Resolving(q) == pc[q] \in {"recipients", "send"}

\* How far a handler has come: the references before the one it is at are
\* served, and nothing is gathered that was not asked for.
Gathered(q) ==
    /\ pc[q] # "idle" => \A c \in Contacts : contact[c] \in seen[q][c]
    /\ pc[q] \in {"idle", "target"} => pos[q] = 1
    /\ Resolving(q) /\ request[q].to # {} =>
          pc[q] = "send" /\ gathered[q] = request[q].to
    /\ Resolving(q) => gathered[q] \subseteq Literals(q) \cup AskedEnabled(q)
    /\ Resolving(q) /\ request[q].to = {} =>
          \A i \in DOMAIN request[q].refs :
              i < pos[q] \/ pc[q] = "send" => Served(q, i)

GatheredInv == \A q \in Requests : Gathered(q)

\* A handler that does nothing.
Resting(q) ==
    /\ pc'[q] = pc[q] /\ pos'[q] = pos[q]
    /\ gathered'[q] = gathered[q] /\ seen'[q] = seen[q]

LEMMA RestingKeeps ==
    ASSUME NEW q \in Requests, Gathered(q), Resting(q), UNCHANGED <<request, contact>>
    PROVE  Gathered(q)'
  <1>1. Literals(q)' = Literals(q) /\ AskedEnabled(q)' = AskedEnabled(q)
    BY DEF Resting, Literals, AskedEnabled, AskedContacts
  <1>2. \A i : Served(q, i)' <=> Served(q, i)
    BY DEF Resting, Served
  <1> QED
    BY <1>1, <1>2 DEF Gathered, Resting, Resolving

\* An idle handler has gathered nothing.
LEMMA IdleIsGathered ==
    ASSUME NEW q \in Requests, pc'[q] = "idle", pos'[q] = 1 PROVE Gathered(q)'
  BY DEF Gathered, Resolving

LEMMA AnswerKeeps ==
    ASSUME Typed, GatheredInv, NEW q \in Requests, NEW a, NEW r, Answer(q, a, r),
           UNCHANGED <<request, contact>>
    PROVE  GatheredInv'
  <1> SUFFICES ASSUME NEW p \in Requests PROVE Gathered(p)'
    BY DEF GatheredInv
  <1>1. CASE p = q
    BY <1>1, IdleIsGathered DEF Answer, Goto, Typed, TypeOK
  <1>2. CASE p # q
    <2>1. Resting(p)
      BY <1>2 DEF Resting, Answer, Goto, Typed, TypeOK
    <2> QED
      BY <2>1, RestingKeeps DEF GatheredInv
  <1> QED
    BY <1>1, <1>2

\* An edit of the contacts is seen by everyone in hand.
LEMMA ContactsKeep ==
    ASSUME Typed, GatheredInv, NEW c \in Contacts, NEW s \in ContactStates,
           SetContact(c, s) \/ \E d \in Contacts : MoveContact(c, d, s)
    PROVE  GatheredInv'
  <1> SUFFICES ASSUME NEW q \in Requests PROVE Gathered(q)'
    BY DEF GatheredInv
  <1>1. /\ UNCHANGED <<request, pc, gathered, pos>>
        /\ seen' = Seen(contact')
    BY DEF SetContact, MoveContact
  <1>2. CASE pc[q] = "idle"
    BY <1>1, <1>2, IdleIsGathered DEF GatheredInv, Gathered
  <1>3. CASE pc[q] # "idle"
    <2>1. \A d \in Contacts : seen'[q][d] = seen[q][d] \cup {contact'[d]}
      BY <1>1, <1>3 DEF Seen
    <2>2. \A d \in Contacts : seen'[q][d] = {"enabled"} => seen[q][d] = {"enabled"}
      BY <1>3, <2>1 DEF GatheredInv, Gathered
    <2>3. /\ Literals(q)' = Literals(q) /\ AskedContacts(q)' = AskedContacts(q)
          /\ AskedContacts(q) \subseteq Contacts
      BY <1>1 DEF Literals, AskedContacts
    <2>4. AskedEnabled(q) \subseteq AskedEnabled(q)'
      BY <2>1, <2>3 DEF AskedEnabled
    <2>5. \A i \in DOMAIN request[q].refs : Served(q, i) => Served(q, i)'
      BY <1>1, <2>2 DEF Served
    <2> QED
      BY <1>1, <2>1, <2>3, <2>4, <2>5 DEF GatheredInv, Gathered, Resolving
  <1> QED
    BY <1>2, <1>3

\* What a reference stands for is what the request asks for, and serves it.
LEMMA ResolvedServes ==
    ASSUME RequestsAreWellSaid, Typed, GatheredInv, NEW q \in Requests,
           ResolveRecipient(q), NEW i, i = pos[q]
    PROVE  /\ i \in DOMAIN request[q].refs /\ request[q].to = {}
           /\ Served(q, i)'
           /\ gathered'[q] \subseteq Literals(q) \cup AskedEnabled(q)
  <1> DEFINE ref == request[q].refs[i]
  <1>1. request[q] \in Shapes /\ Len(request[q].refs) \in Nat
    BY ShapesAssumption DEF Typed, TypeOK
  <1>2. i \in DOMAIN request[q].refs
    BY <1>1 DEF RequestsAreWellSaid, ResolveRecipient, Typed, TypeOK
  <1>3. /\ request[q].to = {}
        /\ gathered[q] \subseteq Literals(q) \cup AskedEnabled(q)
        /\ \A c \in Contacts : contact[c] \in seen[q][c]
    BY DEF ResolveRecipient, GatheredInv, Gathered, Resolving
  <1>4. /\ gathered'[q] = gathered[q] \cup Resolved(ref)
        /\ UNCHANGED <<request, seen>>
    BY DEF ResolveRecipient, Typed, TypeOK
  <1>5. CASE ref.kind = "user"
    <2>1. ref.user # None
      BY <1>1, <1>2, <1>5 DEF RequestsAreWellSaid
    <2>2. Resolved(ref) =
            {c.value : c \in {d \in Contacts : /\ contact[d] = "enabled"
                                              /\ d.user = ref.user
                                              /\ d.kind = ref.contactKind}}
      BY <1>5, <2>1 DEF Resolved, ListUserContacts
    <2>3. ASSUME NEW c \in Contacts, c.user = ref.user, c.kind = ref.contactKind,
                 seen[q][c] = {"enabled"}
          PROVE  c.value \in gathered'[q]
      <3>1. contact[c] = "enabled"
        BY <1>3, <2>3
      <3> QED
        BY <1>4, <2>2, <2>3, <3>1
    <2>4. ASSUME NEW c \in Contacts, contact[c] = "enabled", c.user = ref.user,
                 c.kind = ref.contactKind
          PROVE  c.value \in AskedEnabled(q)
      <3>1. c \in AskedContacts(q)
        BY <1>2, <1>3, <1>5, <2>4 DEF AskedContacts
      <3>2. "enabled" \in seen[q][c]
        BY <1>3, <2>4
      <3> QED
        BY <3>1, <3>2 DEF AskedEnabled
    <2>5. Resolved(ref) \subseteq AskedEnabled(q)
      BY <2>2, <2>4
    <2>6. Served(q, i)'
      BY <1>4, <1>5, <2>3 DEF Served
    <2> QED
      BY <1>2, <1>3, <1>4, <2>5, <2>6
  <1>6. CASE ref.kind # "user"
    <2>1. Resolved(ref) = ref.value
      BY <1>6 DEF Resolved
    <2>2. ref.value \subseteq Literals(q)
      BY <1>2, <1>3, <1>6 DEF Literals
    <2>3. Served(q, i)'
      BY <1>4, <1>6, <2>1 DEF Served
    <2> QED
      BY <1>2, <1>3, <1>4, <2>1, <2>2, <2>3
  <1> QED
    BY <1>5, <1>6

\* What serves a reference goes on serving it when more is gathered.
LEMMA ServedStays ==
    ASSUME NEW q \in Requests, NEW i, Served(q, i), UNCHANGED <<request, seen>>,
           gathered[q] \subseteq gathered'[q]
    PROVE  Served(q, i)'
  BY DEF Served

LEMMA GatheredStep ==
    ASSUME RequestsAreWellSaid, Typed, GatheredInv, [Next]_vars
    PROVE  GatheredInv'
  <1>1. ASSUME UNCHANGED <<request, contact, handler>> PROVE GatheredInv'
    BY <1>1, RestingKeeps DEF GatheredInv, Resting, handler
  <1>2. ASSUME NEW t \in Targets, NEW s, NEW to, SetTarget(t, s, to) PROVE GatheredInv'
    BY <1>1, <1>2 DEF SetTarget
  <1>3. ASSUME NEW q \in Requests,
               RefuseTitle(q) \/ RefuseTarget(q) \/ Enqueue(q) \/ SendNow(q) \/ Break(q)
        PROVE  GatheredInv'
    <2>1. /\ UNCHANGED <<request, contact>>
          /\ \E a, r : Answer(q, a, r)
      BY <1>3 DEF RefuseTitle, RefuseTarget, Enqueue, SendNow, Break, tables
    <2> QED
      BY <2>1, AnswerKeeps
  <1>4. ASSUME NEW q \in Requests, UNCHANGED <<request, contact>>,
               \A p \in Requests \ {q} : Resting(p), Gathered(q)'
        PROVE  GatheredInv'
    BY <1>4, RestingKeeps DEF GatheredInv
  <1>5. ASSUME NEW q \in Requests, Publish(q) PROVE GatheredInv'
    <2>1. \A p \in Requests \ {q} : Resting(p)
      BY <1>5 DEF Publish, Goto, Resting, Typed, TypeOK
    <2>2. /\ UNCHANGED <<request, contact, pos>> /\ pc'[q] = "target"
          /\ \A c \in Contacts : contact'[c] \in seen'[q][c]
      BY <1>5 DEF Publish, Goto, Typed, TypeOK, tables
    <2>3. pos[q] = 1
      BY <1>5 DEF Publish, GatheredInv, Gathered
    <2>4. Gathered(q)'
      BY <2>2, <2>3 DEF Gathered, Resolving
    <2> QED
      BY <1>4, <2>1, <2>2, <2>4
  <1>6. ASSUME NEW q \in Requests, ResolveTarget(q) PROVE GatheredInv'
    <2>1. \A p \in Requests \ {q} : Resting(p)
      BY <1>6 DEF ResolveTarget, Goto, Resting, Typed, TypeOK
    <2>2. /\ UNCHANGED <<request, contact, pos, seen>>
          /\ pc[q] = "target" /\ gathered'[q] = request[q].to
          /\ pc'[q] = IF request[q].via = "rule" \/ request[q].to # {}
                      THEN "send" ELSE "recipients"
      BY <1>6 DEF ResolveTarget, Goto, Typed, TypeOK, tables
    <2>3. /\ pos[q] = 1 /\ \A c \in Contacts : contact[c] \in seen[q][c]
      BY <2>2 DEF GatheredInv, Gathered
    <2>4. gathered'[q] \subseteq Literals(q)'
      BY <2>2 DEF Literals
    <2>5. /\ DOMAIN request[q].refs = 1 .. Len(request[q].refs)
          /\ request[q].via = "rule" => Len(request[q].refs) = 0 /\ request[q].to = {}
          /\ Len(request[q].refs) \in Nat
      BY ShapesAssumption DEF RequestsAreWellSaid, Typed, TypeOK
    <2>6. ASSUME request[q].to = {}, NEW i \in DOMAIN request[q].refs,
                 i < pos[q] \/ pc'[q] = "send"
          PROVE  FALSE
      BY <2>2, <2>3, <2>5, <2>6
    <2>7. Gathered(q)'
      BY <2>2, <2>3, <2>4, <2>6 DEF Gathered, Resolving
    <2> QED
      BY <1>4, <2>1, <2>2, <2>7
  <1>7. ASSUME NEW q \in Requests, ResolveRecipient(q) PROVE GatheredInv'
    <2>1. \A p \in Requests \ {q} : Resting(p)
      BY <1>7 DEF ResolveRecipient, Resting, Typed, TypeOK
    <2>2. PICK i : i = pos[q]
      OBVIOUS
    <2>3. /\ UNCHANGED <<request, contact, seen, pc>> /\ pc[q] = "recipients"
          /\ pos'[q] = i + 1 /\ gathered[q] \subseteq gathered'[q] /\ i \in Nat
      BY <1>7, <2>2 DEF ResolveRecipient, Typed, TypeOK, tables
    <2>4. /\ request[q].to = {} /\ Served(q, i)'
          /\ gathered'[q] \subseteq Literals(q) \cup AskedEnabled(q)
      BY <1>7, <2>2, ResolvedServes
    <2>5. Literals(q)' = Literals(q) /\ AskedEnabled(q)' = AskedEnabled(q)
      BY <2>3 DEF Literals, AskedEnabled, AskedContacts
    <2>6. ASSUME NEW j \in DOMAIN request[q].refs, j < i + 1 PROVE Served(q, j)'
      <3>1. DOMAIN request[q].refs = 1 .. Len(request[q].refs)
        BY DEF RequestsAreWellSaid, Typed, TypeOK
      <3>2. CASE j = i
        BY <2>4, <3>2
      <3>3. CASE j < i
        <4>1. Served(q, j)
          BY <2>2, <2>3, <2>4, <3>3 DEF GatheredInv, Gathered, Resolving
        <4> QED
          BY <2>3, <4>1, ServedStays
      <3> QED
        BY <2>3, <2>6, <3>1, <3>2, <3>3
    <2>7. \A c \in Contacts : contact[c] \in seen[q][c]
      BY <2>3 DEF GatheredInv, Gathered
    <2>8. Gathered(q)'
      BY <2>3, <2>4, <2>5, <2>6, <2>7 DEF Gathered, Resolving
    <2> QED
      BY <1>4, <2>1, <2>3, <2>8
  <1>8. ASSUME NEW q \in Requests, RecipientsResolved(q) PROVE GatheredInv'
    <2>1. \A p \in Requests \ {q} : Resting(p)
      BY <1>8 DEF RecipientsResolved, Goto, Resting, Typed, TypeOK
    <2>2. /\ UNCHANGED <<request, contact, seen, gathered, pos>>
          /\ pc[q] = "recipients" /\ pc'[q] = "send" /\ pos[q] > Len(request[q].refs)
      BY <1>8 DEF RecipientsResolved, Goto, Typed, TypeOK, tables
    <2>3. /\ Literals(q)' = Literals(q) /\ AskedEnabled(q)' = AskedEnabled(q)
          /\ \A i : Served(q, i)' <=> Served(q, i)
      BY <2>2 DEF Literals, AskedEnabled, AskedContacts, Served
    <2>4. /\ DOMAIN request[q].refs = 1 .. Len(request[q].refs)
          /\ Len(request[q].refs) \in Nat /\ pos[q] \in Nat
      BY ShapesAssumption DEF RequestsAreWellSaid, Typed, TypeOK
    <2>5. \A i \in DOMAIN request[q].refs : i < pos[q]
      BY <2>2, <2>4
    <2>6. Gathered(q)
      BY DEF GatheredInv
    <2>7. Gathered(q)'
      BY <2>2, <2>3, <2>5, <2>6 DEF Gathered, Resolving
    <2> QED
      BY <1>4, <2>1, <2>2, <2>7
  <1>9. ASSUME NEW i \in DOMAIN rows, SendRow(i) \/ FailRow(i) PROVE GatheredInv'
    BY <1>1, <1>9 DEF SendRow, FailRow, tables
  <1>10. CASE UNCHANGED vars
    BY <1>1, <1>10 DEF vars, tables
  <1> QED
    BY <1>2, <1>3, <1>5, <1>6, <1>7, <1>8, <1>9, <1>10, ContactsKeep
       DEF Next, Admin, Handle

LEMMA GatheredInvariant ==
    ASSUME RequestsAreWellSaid
    PROVE  Spec => [](Typed /\ GatheredInv)
  <1>1. Init => Typed /\ GatheredInv
    <2> SUFFICES ASSUME Init, NEW q \in Requests PROVE Gathered(q)
      BY TypedInit DEF GatheredInv
    <2> QED
      BY DEF Init, Gathered, Resolving
  <1>2. Typed /\ GatheredInv /\ [Next]_vars => (Typed /\ GatheredInv)'
    BY TypedStep, GatheredStep
  <1> QED
    BY <1>1, <1>2, PTL DEF Spec

\* When a handler sends, it has gathered all that was asked for.
LEMMA AllIsGathered ==
    ASSUME GatheredInv, NEW q \in Requests, pc[q] = "send"
    PROVE  /\ Literals(q) \subseteq gathered[q]
           /\ \A d \in AskedContacts(q) :
                 seen[q][d] = {"enabled"} => d.value \in gathered[q]
           /\ gathered[q] \subseteq Literals(q) \cup AskedEnabled(q)
  <1>1. Gathered(q) /\ Resolving(q)
    BY DEF GatheredInv, Resolving
  <1>2. CASE request[q].to # {}
    BY <1>1, <1>2 DEF Gathered, Literals, AskedContacts
  <1>3. CASE request[q].to = {}
    <2>1. \A i \in DOMAIN request[q].refs : Served(q, i)
      BY <1>1, <1>3 DEF Gathered
    <2> QED
      BY <1>1, <1>3, <2>1 DEF Gathered, Served, Literals, AskedContacts
  <1> QED
    BY <1>2, <1>3

\* A request that writes a row writes the addresses it has asked for, and no
\* others unless nothing is left of them (consumer.go:161-194,
\* server.go:272-305), whatever becomes of contacts between two lookups.
THEOREM TheAskedAreReached ==
    ASSUME RequestsAreWellSaid
    PROVE  Spec => RowsHaveTheAskedRecipients
  <1>1. ASSUME Typed, GatheredInv, NEW q \in Requests, Enqueue(q), rows' # rows
        PROVE  LET to == rows'[Len(rows')].to IN
               /\ Literals(q) \subseteq to
               /\ {c.value : c \in {d \in AskedContacts(q) :
                                      seen[q][d] = {"enabled"}}} \subseteq to
               /\ gathered[q] # {} =>
                    to \subseteq Literals(q) \cup AskedEnabled(q)
    <2>1. rows'[Len(rows')] = NewRow(q)
      BY <1>1, EnqueueEffect
    <2>2. rows'[Len(rows')].to = Override(q)
      BY <2>1 DEF NewRow
    <2>3. /\ Literals(q) \subseteq gathered[q]
          /\ \A d \in AskedContacts(q) :
                seen[q][d] = {"enabled"} => d.value \in gathered[q]
          /\ gathered[q] \subseteq Literals(q) \cup AskedEnabled(q)
      BY <1>1, AllIsGathered DEF Enqueue
    <2>4. gathered[q] # {} => Override(q) = gathered[q]
      BY DEF Override, SendTo
    <2>5. CASE gathered[q] = {}
      BY <2>3, <2>5
    <2>6. CASE gathered[q] # {}
      BY <2>2, <2>3, <2>4, <2>6
    <2> QED
      BY <2>5, <2>6
  <1>2. Typed /\ GatheredInv =>
          [\A q \in Requests :
             Enqueue(q) /\ rows' # rows /\ NamesSomeone(q) =>
                 LET to == rows'[Len(rows')].to IN
                 /\ Literals(q) \subseteq to
                 /\ {c.value : c \in {d \in AskedContacts(q) :
                                        seen[q][d] = {"enabled"}}} \subseteq to
                 /\ gathered[q] # {} =>
                      to \subseteq Literals(q) \cup
                       {c.value : c \in {d \in AskedContacts(q) :
                                           "enabled" \in seen[q][d]}}]_vars
    BY <1>1 DEF AskedEnabled
  <1> QED
    BY <1>2, GatheredInvariant, PTL DEF RowsHaveTheAskedRecipients

\* A "to" that says what an event asks for.
Follows(q, to) ==
    request[q].via # "http" =>
        /\ ~NamesSomeone(q) => to = request[q].payloadTo
        /\ Literals(q) \subseteq to

RowsFollow == \A i \in DOMAIN rows : Follows(rows[i].request, rows[i].to)

FollowInv ==
    /\ RowsFollow
    /\ EventSendsFollowTheTarget

\* The same of a message.
SendFollows(s) ==
    request[s.request].via # "http" =>
        /\ ~NamesSomeone(s.request) =>
             s.to = IF request[s.request].payloadTo # {}
                    THEN request[s.request].payloadTo ELSE s.stored
        /\ Literals(s.request) \subseteq s.to

LEMMA NewRowFollows ==
    ASSUME GatheredInv, NEW q \in Requests, pc[q] = "send"
    PROVE  Follows(q, Override(q))
  <1> SUFFICES ASSUME request[q].via # "http" PROVE Follows(q, Override(q))
    BY DEF Follows
  <1>1. /\ Literals(q) \subseteq gathered[q]
        /\ gathered[q] \subseteq Literals(q) \cup AskedEnabled(q)
    BY AllIsGathered
  <1>2. ~NamesSomeone(q) => gathered[q] = {}
    BY <1>1 DEF NamesSomeone, AskedEnabled
  <1>3. Override(q) = IF gathered[q] = {} THEN request[q].payloadTo ELSE gathered[q]
    BY DEF Override, SendTo
  <1> QED
    BY <1>1, <1>2, <1>3 DEF Follows

LEMMA FollowStep ==
    ASSUME RequestsAreWellSaid, Typed, GatheredInv, FollowInv, [Next]_vars
    PROVE  FollowInv'
  <1>1. request' = request
    BY DEF Next, Admin, Handle, SetTarget, SetContact, MoveContact, Publish,
           RefuseTitle, ResolveTarget, RefuseTarget, ResolveRecipient,
           RecipientsResolved, Enqueue, SendNow, Break, SendRow, FailRow, vars
  <1>2. ASSUME \A i \in DOMAIN rows' : Follows(rows'[i].request, rows'[i].to)
        PROVE  RowsFollow'
    BY <1>1, <1>2 DEF RowsFollow, Follows, NamesSomeone, Literals, AskedContacts
  <1>3. ASSUME NEW s, sent' \subseteq sent \cup {s}, SendFollows(s) \/ s \in sent
        PROVE  EventSendsFollowTheTarget'
    <2>1. \A q : Literals(q)' = Literals(q) /\ (NamesSomeone(q)' <=> NamesSomeone(q))
      BY <1>1 DEF NamesSomeone, Literals, AskedContacts
    <2>2. \A x : SendFollows(x)' <=> SendFollows(x)
      BY <1>1, <2>1 DEF SendFollows
    <2>3. \A x \in sent : SendFollows(x)
      BY DEF FollowInv, EventSendsFollowTheTarget, SendFollows
    <2>4. \A x \in sent' : SendFollows(x)'
      BY <1>3, <2>2, <2>3
    <2> QED
      BY <2>4 DEF EventSendsFollowTheTarget, SendFollows
  <1>4. ASSUME UNCHANGED rows PROVE RowsFollow'
    BY <1>2, <1>4 DEF FollowInv, RowsFollow
  <1>5. ASSUME UNCHANGED sent PROVE EventSendsFollowTheTarget'
    <2>1. CASE sent = {}
      BY <1>5, <2>1 DEF EventSendsFollowTheTarget
    <2>2. CASE sent # {}
      BY <1>3, <1>5, <2>2
    <2> QED
      BY <2>1, <2>2
  <1>6. ASSUME NEW q \in Requests, Enqueue(q) PROVE FollowInv'
    <2>1. PICK r \in Nat :
             /\ rows' \in Seq(Row)
             /\ \/ rows' = rows
                \/ /\ r = Len(rows) + 1 /\ Len(rows') = Len(rows) + 1
                   /\ \A i \in 1 .. Len(rows) : rows'[i] = rows[i]
                   /\ rows'[r] = NewRow(q)
      BY <1>6, EnqueueEffect
    <2>2. Follows(NewRow(q).request, NewRow(q).to)
      BY <1>6, NewRowFollows DEF Enqueue, NewRow
    <2>3. /\ Len(rows) \in Nat /\ DOMAIN rows = 1 .. Len(rows)
          /\ DOMAIN rows' = 1 .. Len(rows')
      BY <2>1, LenProperties DEF Typed, TypeOK
    <2>4. ASSUME NEW i \in DOMAIN rows'
          PROVE  (i \in DOMAIN rows /\ rows'[i] = rows[i]) \/ rows'[i] = NewRow(q)
      <3>1. CASE rows' = rows
        BY <3>1
      <3>2. CASE /\ r = Len(rows) + 1 /\ Len(rows') = Len(rows) + 1
                 /\ \A j \in 1 .. Len(rows) : rows'[j] = rows[j]
                 /\ rows'[r] = NewRow(q)
        <4>1. i = r \/ i \in 1 .. Len(rows)
          BY <2>3, <3>2
        <4> QED
          BY <2>3, <3>2, <4>1
      <3> QED
        BY <2>1, <3>1, <3>2
    <2>5. \A i \in DOMAIN rows' : Follows(rows'[i].request, rows'[i].to)
      <3> TAKE i \in DOMAIN rows'
      <3>1. CASE i \in DOMAIN rows /\ rows'[i] = rows[i]
        BY <3>1 DEF FollowInv, RowsFollow
      <3>2. CASE rows'[i] = NewRow(q)
        BY <2>2, <3>2
      <3> QED
        BY <2>4, <3>1, <3>2
    <2> QED
      BY <1>2, <1>5, <1>6, <2>5 DEF FollowInv, Enqueue
  <1>7. ASSUME NEW q \in Requests, SendNow(q) PROVE FollowInv'
    <2>1. request[q].via = "http"
      BY <1>7 DEF SendNow, RequestsAreWellSaid, Typed, TypeOK
    <2> DEFINE s == [row |-> 0, request |-> q, to |-> SendTo(q),
                     stored |-> storedTo[chosen[q].id]]
    <2>2. sent' \subseteq sent \cup {s} /\ s.request = q /\ UNCHANGED rows
      BY <1>7 DEF SendNow
    <2> HIDE DEF s
    <2> QED
      BY <1>3, <1>4, <2>1, <2>2 DEF FollowInv, SendFollows
  <1>8. ASSUME NEW i \in DOMAIN rows, NEW t \in {"delivered", "failed"}, SetStatus(i, t)
        PROVE  RowsFollow'
    <2>1. \A j \in DOMAIN rows' : /\ j \in DOMAIN rows
                                  /\ rows'[j].request = rows[j].request
                                  /\ rows'[j].to = rows[j].to
      BY <1>1, <1>8, SetStatusEffect DEF Typed
    <2> QED
      BY <1>2, <2>1 DEF FollowInv, RowsFollow
  <1>9. ASSUME NEW i \in DOMAIN rows, SendRow(i) PROVE FollowInv'
    <2> DEFINE s == [row |-> i, request |-> rows[i].request,
                     to |-> ApplyOverrides(storedTo[rows[i].target], rows[i].to),
                     stored |-> storedTo[rows[i].target]]
    <2>1. /\ sent' = sent \cup {s} /\ s.request = rows[i].request
          /\ s.to = IF rows[i].to # {} THEN rows[i].to ELSE s.stored
      BY <1>9 DEF SendRow, ApplyOverrides
    <2> HIDE DEF s
    <2>2. Follows(rows[i].request, rows[i].to)
      BY DEF FollowInv, RowsFollow
    <2>3. EventSendsFollowTheTarget'
      BY <1>3, <2>1, <2>2 DEF Follows, SendFollows
    <2> QED
      BY <1>8, <1>9, <2>3 DEF FollowInv, SendRow
  <1>10. ASSUME NEW i \in DOMAIN rows, FailRow(i) PROVE FollowInv'
    BY <1>5, <1>8, <1>10 DEF FollowInv, FailRow
  <1>11. CASE UNCHANGED <<rows, sent>>
    BY <1>4, <1>5, <1>11 DEF FollowInv
  <1> QED
    BY <1>6, <1>7, <1>9, <1>10, <1>11
       DEF Next, Admin, Handle, SetTarget, SetContact, MoveContact, Publish,
           RefuseTitle, ResolveTarget, RefuseTarget, ResolveRecipient,
           RecipientsResolved, Break, vars

\* An event that names no one goes to the "to" its payload brings along, or to
\* the one the target has when it is sent; one that names addresses goes to them
\* (consumer.go:71, poll.go:67-86), however often the row is written, found
\* again or edited around.
THEOREM EventsFollowTheTarget ==
    ASSUME RequestsAreWellSaid
    PROVE  Spec => []EventSendsFollowTheTarget
  <1>1. Init => FollowInv
    <2> SUFFICES ASSUME Init PROVE FollowInv
      OBVIOUS
    <2>1. rows \in Seq(Row) /\ Len(rows) = 0 /\ sent = {}
      BY EmptySeq DEF Init
    <2>2. DOMAIN rows = {}
      BY <2>1, LenProperties
    <2> QED
      BY <2>1, <2>2 DEF FollowInv, RowsFollow, EventSendsFollowTheTarget
  <1>2. FollowInv => EventSendsFollowTheTarget
    BY DEF FollowInv
  <1>3. Typed /\ GatheredInv /\ FollowInv /\ [Next]_vars => FollowInv'
    BY FollowStep
  <1> QED
    BY <1>1, <1>2, <1>3, GatheredInvariant, PTL DEF Spec
=============================================================================
