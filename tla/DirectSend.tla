---------------------------- MODULE DirectSend ----------------------------
(***************************************************************************)
(* Direct sends: a request that names a target and recipients and bypasses *)
(* the rules, by event (handleDirectSend, internal/consumer/consumer.go)   *)
(* or by HTTP (handleSend, internal/server/server.go), up to the provider  *)
(* the poller hands the row to.                                            *)
(*                                                                         *)
(* A request runs one step for each database call, next to other requests  *)
(* and to edits of targets and contacts.  A publisher that gets an error   *)
(* may send its request again.  The poller is one atomic action here: its  *)
(* own interleavings are those of DeliveryQueue.                           *)
(*                                                                         *)
(* A "to" string is the set of the addresses in it, {} for the empty one;  *)
(* it is the one entry of a config, and of payload["target_config"], that  *)
(* is modelled.  An event that is no direct send is in one step here: how  *)
(* it meets the rules is the subject of EventConsumer, what it may say of  *)
(* recipients is compared with direct sends below.                         *)
(***************************************************************************)
EXTENDS Integers, Sequences, FiniteSets

CONSTANTS
    Requests,     \* identities of the requests
    Shapes,       \* what a request may say: [via, titled, id, name, to, refs,
                  \* payloadTo, key, now]
    Targets,
    TargetName,   \* the name of each target: names need not be unique
    Addresses,
    Contacts,     \* rows of user_contacts: [user, kind, value]
    None,         \* an empty id, name, key or user
    MaxTries      \* bound on how often a publisher sends one request

ASSUME TriesAssumption == MaxTries \in Nat
ASSUME ContactsAssumption == \A c \in Contacts : c.value \in Addresses
ASSUME ShapesAssumption ==
    \A s \in Shapes :
        /\ s.to \subseteq Addresses /\ s.payloadTo \subseteq Addresses
        /\ Len(s.refs) \in Nat
        /\ \A i \in 1 .. Len(s.refs) : s.refs[i].value \subseteq Addresses

VARIABLES
    request,   \* what each request says
    state,     \* of a target: "enabled", "disabled" or "deleted"
    storedTo,  \* config["to"] of a target
    contact,   \* of a contact: "absent", "enabled" or "disabled"
    rows,      \* the deliveries, in the order of their insertion
    pc,        \* where the handler of a request is
    chosen,    \* the target it resolved, with its "to" as it was read
    gathered,  \* the addresses it resolved so far
    pos,       \* the recipient reference it is at
    reply,     \* its last answer: [answer, row]
    tries,
    sent,      \* messages handed to providers: [request, to, stored]
    seen       \* the states each contact was in while a request was handled

tables  == <<state, storedTo, contact>>
handler == <<pc, chosen, gathered, pos, seen>>
vars == <<request, tables, rows, handler, reply, tries, sent>>

ContactStates == {"absent", "enabled", "disabled"}

NotSeen == [c \in Contacts |-> {}]

NoReply == [answer |-> "none", row |-> 0]

Row == [key : {request[q].key : q \in Requests}, request : Requests,
        target : Targets, to : SUBSET Addresses,
        status : {"queued", "delivered", "failed"}]

Answers == {"none", "queued", "delivered", "skipped", "error"}

TypeOK ==
    /\ request \in [Requests -> Shapes]
    /\ state \in [Targets -> {"enabled", "disabled", "deleted"}]
    /\ storedTo \in [Targets -> SUBSET Addresses]
    /\ contact \in [Contacts -> ContactStates]
    /\ rows \in Seq(Row)
    /\ pc \in [Requests -> {"idle", "target", "recipients", "send"}]
    /\ chosen \in [Requests -> [id : Targets \cup {None}, to : SUBSET Addresses]]
    /\ gathered \in [Requests -> SUBSET Addresses]
    /\ pos \in [Requests -> Nat]
    /\ \A q \in Requests : pos[q] \in 1 .. Len(request[q].refs) + 1
    /\ reply \in [Requests -> [answer : Answers, row : 0 .. Len(rows)]]
    /\ tries \in [Requests -> 0 .. MaxTries]
    /\ seen \in [Requests -> [Contacts -> SUBSET ContactStates]]

NoTarget == [id |-> None, to |-> {}]

Init ==
    /\ request \in [Requests -> Shapes]
    /\ state = [t \in Targets |-> "enabled"]
    /\ storedTo \in [Targets -> {{}} \cup {{a} : a \in Addresses}]
    /\ contact \in [Contacts -> {"absent", "enabled"}]
    /\ rows = <<>>
    /\ pc = [q \in Requests |-> "idle"]
    /\ chosen = [q \in Requests |-> NoTarget]
    /\ gathered = [q \in Requests |-> {}]
    /\ pos = [q \in Requests |-> 1]
    /\ reply = [q \in Requests |-> NoReply]
    /\ tries = [q \in Requests |-> 0]
    /\ sent = {}
    /\ seen = [q \in Requests |-> NotSeen]

Goto(q, label) == pc' = [pc EXCEPT ![q] = label]

\* The handler answers, and its local state is gone.
Answer(q, answer, row) ==
    /\ reply' = [reply EXCEPT ![q] = [answer |-> answer, row |-> row]]
    /\ Goto(q, "idle")
    /\ chosen' = [chosen EXCEPT ![q] = NoTarget]
    /\ gathered' = [gathered EXCEPT ![q] = {}]
    /\ pos' = [pos EXCEPT ![q] = 1]
    /\ seen' = [seen EXCEPT ![q] = NotSeen]

-----------------------------------------------------------------------------
(* The administrator.                                                      *)

SetTarget(t, s, to) ==
    /\ state[t] # "deleted"
    /\ state' = [state EXCEPT ![t] = s]
    /\ storedTo' = [storedTo EXCEPT ![t] = to]
    /\ UNCHANGED <<request, contact, rows, handler, reply, tries, sent>>

\* What the tables hold from now on is seen by the requests in hand.
Seen(edited) ==
    [q \in Requests |->
       IF pc[q] = "idle" THEN seen[q]
       ELSE [c \in Contacts |-> seen[q][c] \cup {edited[c]}]]

\* UpsertUserContact and DeleteUserContact.
SetContact(c, s) ==
    /\ contact' = [contact EXCEPT ![c] = s]
    /\ seen' = Seen(contact')
    /\ UNCHANGED <<request, state, storedTo, rows, pc, chosen, gathered, pos,
                   reply, tries, sent>>

\* UpsertUserContact by id: the row c gets another user, kind or value.  What
\* another row has already is refused, and nothing changes.
MoveContact(c, d, s) ==
    /\ contact[c] # "absent" /\ contact[d] = "absent"
    /\ s # "absent"
    /\ contact' = [contact EXCEPT ![c] = "absent", ![d] = s]
    /\ seen' = Seen(contact')
    /\ UNCHANGED <<request, state, storedTo, rows, pc, chosen, gathered, pos,
                   reply, tries, sent>>

-----------------------------------------------------------------------------
(* A request.                                                              *)

\* The publisher sends it, and again as long as the answer is an error.
Publish(q) ==
    /\ pc[q] = "idle"
    /\ reply[q].answer \in {"none", "error"}
    /\ tries[q] < MaxTries
    /\ tries' = [tries EXCEPT ![q] = @ + 1]
    /\ Goto(q, "target")
    /\ seen' = [seen EXCEPT ![q] = [c \in Contacts |-> {contact[c]}]]
    /\ UNCHANGED <<request, tables, rows, chosen, gathered, pos, reply, sent>>

\* A body without title is refused by HTTP; an event gets a default title.
RefuseTitle(q) ==
    /\ pc[q] = "target"
    /\ request[q].via = "http" /\ ~request[q].titled
    /\ Answer(q, "error", 0)
    /\ UNCHANGED <<request, tables, rows, tries, sent>>

Accepted(q) == request[q].via # "http" \/ request[q].titled

\* target_id wins; a name picks any of the targets that bear it.
Candidates(q) ==
    IF request[q].id # None
    THEN {t \in Targets : t = request[q].id /\ state[t] # "deleted"}
    ELSE {t \in Targets : TargetName[t] = request[q].name
                            /\ state[t] # "deleted"}

ResolveTarget(q) ==
    /\ pc[q] = "target"
    /\ Accepted(q)
    /\ \E t \in Candidates(q) :
          /\ state[t] = "enabled"
          /\ chosen' = [chosen EXCEPT ![q] = [id |-> t, to |-> storedTo[t]]]
    /\ Goto(q, IF request[q].via = "rule" \/ request[q].to # {}
               THEN "send" ELSE "recipients")
    /\ gathered' = [gathered EXCEPT ![q] = request[q].to]
    /\ UNCHANGED <<request, tables, rows, pos, seen, reply, tries,
                   sent>>

\* A rule skips the target, a direct send fails.
RefuseTarget(q) ==
    /\ pc[q] = "target"
    /\ Accepted(q)
    /\ \/ Candidates(q) = {}
       \/ \E t \in Candidates(q) : state[t] = "disabled"
    /\ Answer(q, IF request[q].via = "rule" THEN "skipped" ELSE "error", 0)
    /\ UNCHANGED <<request, tables, rows, tries, sent>>

\* ListUserContacts(user): an empty user selects the contacts of everyone.
ListUserContacts(user) ==
    {c \in Contacts : contact[c] # "absent" /\ (user = None \/ c.user = user)}

\* Mutation: contacts that are switched off are served.
ResolvedEvenIfOff(ref) ==
    IF ref.kind = "user"
    THEN {c.value : c \in {d \in ListUserContacts(ref.user) :
                             d.kind = ref.contactKind}}
    ELSE ref.value

\* What one recipient reference stands for.
Resolved(ref) ==
    IF ref.kind = "user"
    THEN {c.value : c \in {d \in ListUserContacts(ref.user) :
                             contact[d] = "enabled" /\ d.kind = ref.contactKind}}
    ELSE ref.value

ResolveRecipient(q) ==
    /\ pc[q] = "recipients"
    /\ pos[q] <= Len(request[q].refs)
    /\ gathered' = [gathered EXCEPT ![q] = @ \cup Resolved(request[q].refs[pos[q]])]
    /\ pos' = [pos EXCEPT ![q] = @ + 1]
    /\ UNCHANGED <<request, tables, rows, pc, chosen, seen, reply, tries,
                   sent>>

RecipientsResolved(q) ==
    /\ pc[q] = "recipients"
    /\ pos[q] > Len(request[q].refs)
    /\ Goto(q, "send")
    /\ UNCHANGED <<request, tables, rows, chosen, gathered, pos, seen, reply,
                   tries, sent>>

\* handleSend fills in the "to" of the target it read when the request names
\* no one, handleDirectSend and HandleEvent do not.
SendTo(q) ==
    IF request[q].via = "http" /\ gathered[q] = {} THEN chosen[q].to
                                                  ELSE gathered[q]

\* payload["target_config"]: what was found replaces what the payload says.
Override(q) == IF SendTo(q) = {} THEN request[q].payloadTo ELSE SendTo(q)

NewRow(q) ==
    [key |-> request[q].key, request |-> q, target |-> chosen[q].id,
     to |-> Override(q), status |-> "queued"]

\* Mutation: a key is taken only while its row is queued.
HolderInQueue(q) ==
    {i \in DOMAIN rows : /\ request[q].key # None
                         /\ rows[i].key = request[q].key
                         /\ rows[i].status = "queued"}

\* The row that holds the key of the request, if there is one.
Holder(q) ==
    {i \in DOMAIN rows : request[q].key # None /\ rows[i].key = request[q].key}

\* Mutation: ON CONFLICT DO NOTHING, which returns no row when there is one.
EnqueueDoNothing(q) ==
    /\ pc[q] = "send"
    /\ ~request[q].now
    /\ rows' = IF Holder(q) = {} THEN Append(rows, NewRow(q)) ELSE rows
    /\ \/ Answer(q, "queued", IF Holder(q) = {} THEN Len(rows) + 1 ELSE 0)
       \/ Answer(q, "error", 0)
    /\ UNCHANGED <<request, tables, tries, sent>>

\* INSERT ... ON CONFLICT (idempotency_key): the row there is, or a new one.
Enqueue(q) ==
    /\ pc[q] = "send"
    /\ ~request[q].now
    /\ \E row \in IF Holder(q) = {} THEN {Len(rows) + 1} ELSE Holder(q) :
          /\ rows' = IF Holder(q) = {} THEN Append(rows, NewRow(q)) ELSE rows
          /\ \/ Answer(q, "queued", row)
             \/ Answer(q, "error", 0)   \* the answer of the INSERT is lost
    /\ UNCHANGED <<request, tables, tries, sent>>

\* send_now: the provider is called on the spot, no row is written.  Its answer
\* may be lost: a publisher that sends again then sends twice, key or no key.
SendNow(q) ==
    /\ pc[q] = "send"
    /\ request[q].now
    /\ sent' = sent \cup {[row |-> 0, request |-> q, to |-> SendTo(q),
                           stored |-> storedTo[chosen[q].id]]}
    /\ Answer(q, "delivered", 0) \/ Answer(q, "error", 0)
    /\ UNCHANGED <<request, tables, rows, tries>>

\* A database error, an error of the provider, or the process dies.
Break(q) ==
    /\ pc[q] # "idle"
    /\ Answer(q, "error", 0)
    /\ UNCHANGED <<request, tables, rows, tries, sent>>

-----------------------------------------------------------------------------
(* Poller.Tick on one row: the target as it is now, the row's overrides.   *)

\* Mutation: the target's own "to" wins over that of the row.
ApplyOverridesStoredFirst(stored, to) == IF stored # {} THEN stored ELSE to

ApplyOverrides(stored, to) == IF to # {} THEN to ELSE stored

SetStatus(i, s) == rows' = [rows EXCEPT ![i].status = s]

SendRow(i) ==
    /\ rows[i].status = "queued"
    /\ state[rows[i].target] = "enabled"
    /\ sent' = sent \cup
         {[row |-> i, request |-> rows[i].request,
           to |-> ApplyOverrides(storedTo[rows[i].target], rows[i].to),
           stored |-> storedTo[rows[i].target]]}
    /\ SetStatus(i, "delivered")
    /\ UNCHANGED <<request, tables, handler, reply, tries>>

\* The target is off or gone, or the attempts are used up.
FailRow(i) ==
    /\ rows[i].status = "queued"
    /\ SetStatus(i, "failed")
    /\ UNCHANGED <<request, tables, handler, reply, tries, sent>>

-----------------------------------------------------------------------------
Handle(q) ==
    \/ RefuseTitle(q)      \/ ResolveTarget(q)      \/ RefuseTarget(q)
    \/ ResolveRecipient(q) \/ RecipientsResolved(q)
    \/ Enqueue(q)          \/ SendNow(q)

Admin ==
    \/ \E t \in Targets, s \in {"enabled", "disabled", "deleted"},
          to \in {{}} \cup {{a} : a \in Addresses} : SetTarget(t, s, to)
    \/ \E c \in Contacts, s \in ContactStates :
          SetContact(c, s) \/ \E d \in Contacts : MoveContact(c, d, s)

Next ==
    \/ Admin
    \/ \E q \in Requests : Publish(q) \/ Handle(q) \/ Break(q)
    \/ \E i \in DOMAIN rows : SendRow(i) \/ FailRow(i)

Spec == Init /\ [][Next]_vars

-----------------------------------------------------------------------------
(* Properties.                                                             *)

\* Requests with one key share one row for good, whatever became of it, and
\* every one that is answered "queued" is answered with that row, also after
\* a lost answer (store.go:220-226).
OneRowPerKey ==
    /\ \A i, j \in DOMAIN rows :
          rows[i].key # None /\ rows[i].key = rows[j].key => i = j
    /\ \A q \in Requests :
          reply[q].answer = "queued" =>
              /\ reply[q].row \in DOMAIN rows
              /\ rows[reply[q].row].key = request[q].key
              /\ rows[reply[q].row].request # q => request[q].key # None

\* What the two need to be inductive: from the lookup of the target on a request
\* has one, and a row keeps the key of the request it came from.
KeysInv ==
    /\ TypeOK
    /\ \A q \in Requests :
          pc[q] \in {"recipients", "send"} => chosen[q].id \in Targets
    /\ \A i \in DOMAIN rows : rows[i].key = request[rows[i].request].key
    /\ OneRowPerKey

\* The addresses a request spells out.
Literals(q) ==
    IF request[q].to # {} THEN request[q].to
    ELSE UNION {request[q].refs[i].value :
                  i \in {j \in DOMAIN request[q].refs :
                            request[q].refs[j].kind # "user"}}

\* The contacts it asks for.
AskedContacts(q) ==
    IF request[q].to # {} THEN {}
    ELSE {c \in Contacts : \E i \in DOMAIN request[q].refs :
            LET ref == request[q].refs[i]
            IN  ref.kind = "user" /\ ref.user = c.user
                  /\ ref.contactKind = c.kind}

NamesSomeone(q) == Literals(q) # {} \/ AskedContacts(q) # {}

\* The row of a request that names recipients has those the request spells out and, of the
\* contacts it asks for, only ones that were enabled at some time while it was
\* handled; a contact that was enabled throughout is not left out, whatever the
\* administrator edits between two lookups.  Only if none is left does the row
\* fall back to another "to" (consumer.go:161-194,
\* server.go:272-305).
RowsHaveTheAskedRecipients ==
    [][\A q \in Requests :
          Enqueue(q) /\ rows' # rows /\ NamesSomeone(q) =>
              LET to == rows'[Len(rows')].to IN
              /\ Literals(q) \subseteq to
              /\ {c.value : c \in {d \in AskedContacts(q) :
                                     seen[q][d] = {"enabled"}}} \subseteq to
              /\ gathered[q] # {} =>
                   to \subseteq Literals(q) \cup
                    {c.value : c \in {d \in AskedContacts(q) :
                                        "enabled" \in seen[q][d]}}]_vars

\* An event that names no one, be it a direct send or one that meets a rule,
\* goes to the override its payload brings along, and without one to the "to"
\* the target has when the message is sent; one that names addresses goes to
\* them, whatever the target says (consumer.go:71, poll.go:67-86).
EventSendsFollowTheTarget ==
    \A s \in sent :
        LET override == request[s.request].payloadTo IN
        request[s.request].via # "http" =>
            /\ ~NamesSomeone(s.request) =>
                  s.to = IF override # {} THEN override ELSE s.stored
            /\ Literals(s.request) \subseteq s.to

\* docs/direct-send.md:52: 'kind: "user"' "looks up `user_contacts` for
\* `user_id`": a send goes to no contact of a user it does not name.
OnlyNamedUsers ==
    \A s \in sent :
        s.to \subseteq Literals(s.request) \cup s.stored
                        \cup {c.value : c \in AskedContacts(s.request)}
=============================================================================
