# Verification of the Silo notifications plugin

This directory holds TLA+ models of the notifications plugin (`src/`, Go), the
TLC configurations that check them on small instances, and theorems about every
component modelled, with proofs for TLAPS. `PROJECT.json` maps every definition to
the lines of the source it models.

    tlc -workers 2 -config QueueOverlap.cfg MCDeliveryQueue.tla    # one run
    tlapm DeliveryQueueProofs.tla                                  # the proofs

Line numbers in comments and below are those of the repository's files.

## 1. The system

The plugin runs as a process of its own next to a host, which calls it over
gRPC. It receives events, decides by rules what to tell to whom, stores one row
for each message in PostgreSQL, and a poller hands the rows to providers
(webhooks, chat services, SMTP, MQTT, ...).

    host --HandleEvent--> consumer --Enqueue--> deliveries table
    host --HTTP Handle--> server   --Enqueue--> deliveries table
                          server   --send_now---------------> Registry.Send
    host --scheduled Run--> Poller.Tick --DueDeliveries--> deliveries table
    poll.Manager loop ----> Poller.Tick --Registry.Send-----> provider
    "Run due now" button -> Poller.Tick --MarkDelivered/MarkFailed--> table
    host --Configure--> new pool, store, registry, handler, loop

### Components

| component | source | state | operations | modelled in |
|---|---|---|---|---|
| store | `internal/store/store.go` | tables `app_config`, `targets`, `rules`, `deliveries`, `user_contacts`, `user_preferences` | get, list, upsert, delete; `Enqueue`, `DueDeliveries`, `MarkDelivered`, `MarkFailed` | in the modules of its callers |
| poller | `internal/poll/poll.go`, `scheduled.go` | per tick: configuration, batch, current row; per manager: the cancel function | `Tick`, `Manager.Start`, scheduled `Run` | `DeliveryQueue`, `Reconfigure` |
| event consumer | `internal/consumer/consumer.go` | per event: rules read, position in them | `HandleEvent`, `handleDirectSend` | `EventConsumer`, `Pipeline`, `DirectSend` |
| HTTP server | `internal/server/server.go` | none of its own | `handleSend`, edits, lists, run button | `DirectSend`; edits and button in all modules |
| HTTP adapter | `internal/httproutes/server.go` | the current handler | swap, translate | the swap, and the requests that meet it, in `Reconfigure` |
| access checks | `internal/auth/identity.go` | none | read request headers | not modelled |
| Configure | `internal/runtime/runtime.go` | the last configuration | `Configure` | `Reconfigure` |
| wiring | `cmd/silo-plugin-notifications/main.go` | pointers to pool, store, registry | the callback of Configure | `Reconfigure` |
| migrations | `internal/migrate` | the schema | up, at every Configure | may fail, in `Reconfigure` |
| registry, transports | `internal/notify/provider.go`, `final_parity.go`, `social_chat.go` | per send: connection, deadline | `Send`, `postJSON`, `smtpSend`, `mqttPublish`, ... | `Transport`, `Mqtt` |
| provider catalogue | `internal/notify/http_api.go`, `mobile_push.go`, `ops_media.go`, `push_misc.go`, `sms_gateways.go`, `social_chat.go`, `final_parity.go` | none | one send function per service | `Catalogue`; the bodies are not modelled |
| matching, templates | `internal/notify/template.go` | none | `Match`, `Render`, `Summary` | `Matching` |
| admin page | `web/src/App.tsx`, `web/src/lib` | token, refresh under way, lists, forms | load, save, delete, sync contacts, refresh the token | `AdminPanel` |
| event publisher | `internal/event/publisher.go` | none | `Publish` | nothing constructs it |

### What is hard

* No row of the queue is ever locked. `Tick` reads a batch and works through it
  for as long as providers take; the loop, the scheduled task and the button
  run it at the same time, and both UPDATEs name a row by its id alone.
* A provider call and the mark that records it are two steps. A crash, a lost
  answer, a cancelled context or a failed write in between leaves a message out
  and its row queued.
* The retry decision uses attempts and a limit that were read earlier; the
  administrator edits targets, rules and limits meanwhile.
* `HandleEvent` reads the rules once and each target later, and takes every
  error of `GetTarget` for a missing target.
* A send resolves target and contacts in several queries; a publisher repeats a
  send when its answer was lost.
* Configure replaces pool, store, registry, handler and loop in the middle of
  everything, closes a pool that others may hold, and nothing keeps two calls of
  it apart.
* SMTP and MQTT are dialogues of several commands, any of which may be refused,
  break off before or after its effect, or get no answer.
* The admin page loads and saves without waiting for what is under way: answers
  overtake each other, and all calls share one token and one refresh of it.

### What makes each component correct

* Queue: a row marked delivered was handed over; none is given up early; every
  row settles; attempts and hand-overs stay bounded; where ticks do not overlap,
  settled is settled and the limit is the limit.
* Consumer: an acknowledged event has its rows; rows come in rule order, none
  twice in one handling; every handling ends. Consumer and queue together: each
  match of a handling becomes one delivery or is waived, and each delivery is
  settled, whatever becomes of the handling.
* Direct sends: a key has one row for good; a row has the recipients asked for.
* Reconfiguration: nothing published is closed; between calls exactly one
  configuration is alive; polling goes on; events are lost only to a call, and
  requests never.
* Transports: all recipients or none; the nil of a mail server means that it has
  the whole mail, any other nil that no refusal was read; a duplicate has a cause;
  a broker finds topic and payload where they are; a timeout ends the send.
* Admin page: at rest it shows the tables as they are; it goes back to an older
  state only when loads overlapped; calls share one token refresh.
* Matching: a pattern is a prefix or the name; rendering is a substitution.

`PROJECT.json` lists under "hazards" where in the code each of these can go
wrong, and which property watches it.

## 2. The modules

| module | models | theorems in |
|---|---|---|
| `DeliveryQueue` | deliveries table, ticks, edits, faults | `DeliveryQueueProofs`: however ticks overlap; `DeliveryQueueAloneProofs`: without overlap, and the refinement, with and without |
| `DeliveryLifecycle` | what a delivery promises: the abstract specification of the queue | |
| `EventConsumer` | `HandleEvent` for rules | `PipelineProofs` |
| `Pipeline` | consumer and queue composed | `PipelineProofs` |
| `Notification` | what the plugin promises of an event: the abstract specification of `Pipeline` | `PipelineProofs` |
| `DirectSend` | `handleDirectSend`, `handleSend`, the contacts they look up, up to the provider | `DirectSendProofs` |
| `Reconfigure` | the callback of Configure, loops, events and requests in hand | `ReconfigureProofs` |
| `Catalogue` | the providers, and what tells their sends apart | |
| `Transport` | `Registry.Send` and the five ways to talk to a service | `TransportProofs` |
| `Mqtt` | the length fields of a publication, and the broker that reads them | `TransportProofs` |
| `AdminPanel` | the page of `web/src/App.tsx` and what the server answers it | `AdminPanelProofs` |
| `Matching` | `Match`, `Render`, `Summary` | `MatchingProofs` |

Each `MC` module names the model values and sets its configurations use.
Definitions under a comment "Mutation" are deliberate bugs: each is put in the
place of the definition after it, or of the one it is named for, to see that a
property notices; no specification uses them.

### DeliveryQueue

A member of `Tickers` is one caller of `Poller.Tick`. Its `pc` goes

    idle -ReadConfig-> due -ReadDue-> fetch -FetchTarget-> send -HandOver-> handed
                                      fetch <-Mark- mark <-SendSucceeds, AnswerLost

with one action for each query or provider call. `batch` holds the rows *as they
were read*, so `Retry` decides by an attempts count that may be outdated, as
poll.go:59 does. `ReadDue` orders by creation and cuts at `BatchLimit`.
`HandOver` is the moment at which a provider takes the message over, and the
answer comes in another step, so that crashes, lost answers and other ticks fit
in between. `MarkIsLost` is the mark whose error poll.go:62 drops. `Detach`
is a tick whose store stops answering: `Manager.Start` cancelled its context, or
a reconfiguration closed its pool. `Crash` ends every tick and leaves the
tables. `UpsertTarget`, `DeleteTarget` and `PutAppConfig` come between any two
steps. `ReadConfig` may yield the default whatever is stored, because Tick drops
the error of that read.

`handed` and `faults` exist in the model only: they count hand-overs, and bound
crashes, lost answers and failed calls.

### EventConsumer

One handler for each event: `ListRules` (a snapshot), then for each match
`LookUp` and `Insert`, then `Acknowledge`. `LookUpFails` skips the target as
consumer.go:62 does; `InsertFails` returns an error, with the row written or
not. The host may hand a failed event over again. Handlers of different events
share the tables they read and nothing else.

### Pipeline and Notification

`Pipeline` is `EventConsumer` next to the queue: the row that a handler inserts
is in the queue in the same step, and the poller attempts it while the handler
that inserted it still runs, fails or is repeated. The queue is taken by what it
promises, `DeliveryLifecycle`, so that the composition stays small enough for TLC;
that `DeliveryQueue` implements it is checked with one tick and with two
(QueueAlone, QueueOverlap) and a theorem for any number (`QueueImplementsLifecycle`).

`DeliveryLifecycle` knows of ticks only how they look from the columns `status` and
`attempts`. `Attempt` is the attempt on a row that is queued. `Overtaken` is the
mark of a tick whose snapshot another one has outdated: it decides by the attempts
it read, an older number, and marks the row whatever its status, so that a row that
is settled can be settled anew or queued again. It exists where `Overrun` is
above 0; `Overrun` is how far attempts may pass the limit (`Room`), which is
`OverlapSlack` for the ticks of `DeliveryQueue`, and 0 for a single one.

`Notification` has two variables: the messages each handling still wants, and the
deliveries there are. A handling takes its messages one at a time, each becomes
one delivery or is waived; a delivery that is owed is settled. Where attempts may
overlap (`MayOverlap`, which is `Overrun > 0`) a settled delivery can change or be
owed again (`Reopen`), but not for ever: in the end it is settled for good. In the
refinement `wanted` is what is left of the two loops of `HandleEvent`, and a
delivery is a row with its status.

### DirectSend

A request is an event, an HTTP request or, for comparison, an event that meets a
rule. `ResolveTarget` reads a target by id or by name (names need not be unique:
any of its bearers), `ResolveRecipient` does one lookup of contacts,
`Enqueue` inserts with `ON CONFLICT` on the key, and may lose its answer, as may
`SendNow`.
`SendRow` and `FailRow` are the poller in one step, with the target as it is at
that time and `ApplyOverrides`. A "to" string is the set of its addresses.

The administrator switches, deletes and creates contacts, and `MoveContact` gives
a contact another user, kind or value, which the table refuses if another row
has the three already (store.go:313). `seen` records the states each contact was
in while a send looked contacts up: what a send that ran alone could have found.

### Reconfigure

Pool, store, registry, handler and loop are named by the call of Configure that
made them. A call goes through main.go:60-104 line by line: open, migrate,
publish three pointers, `Manager.Start` in two steps (cancel, start), swap the
pool, close the old one. Loops and arrivals read a pointer and use it in later
steps. An arrival is an event (`TakeEvent` reads the store pointer) or a request
to /send that is to be queued (`TakeRequest` takes the handler, which keeps the
store it was made with); an event whose target cannot be read is skipped, a
request is answered with the error. `AtATime` says how many calls of Configure
the host may make at once: nothing in the plugin keeps them apart, and
`overlapped` records that it happened. `last`, `overlapped` and `disturbed`
belong to the model.

### Catalogue, Transport and Mqtt

`Catalogue` names the 138 providers file by file and says of each how it talks
to its service (`KindOf`), whether it addresses the recipients a row brings
along, and whether it declares and whether it carries attachments. The sets say
which provider is which: `SendToNoProvider` and `AllOrNothing` depend on them, and
the theorems hold for any part of the catalogue.

`Transport` is all attempts of one delivery by one of them. `pc` is the command
whose answer the provider waits for: one request, a token and then a request,
the dialogue of `smtpSend`, that of `mqttPublish`, or a connection and a line.
The other side says yes or no, or the connection breaks before (`Break`) or
after the effect, or nothing happens for ever. `expired` is the timeout of
`Registry.Send`; only what takes the context can act on it (`HeedsContext`), and
`smtpSend` looks at it once (`CheckContext`). A name the registry does not know
fails at once (`SendToNoProvider`). Attachments without a name or data, which
every provider skips, are not attachments here. `unheard` is set where the other
side refuses or loses a message and the provider reads nothing that would say so.
`postJSON`, `postRaw` and `postForm` read the status alone and drop the body of a
2xx, so any service that is spoken to by a request can refuse in the body
(`RefusalUnheard`), WeChat among them, whose `errcode` is parsed and dropped;
`mqttPublish` reads the broker's answer to the connection without looking at it and
waits for none to the publication; a line is only written.

An MQTT delivery has the lengths of its topic and its payload. `Mqtt` encodes
them as `encMQTTString` and `encRemain` do, in bytes, and reads them as a broker
does; `Take` puts into the inbox whether topic and payload were found again.

### Matching

`Match` and `Render` as steps, one for each key that the loop over the Go map
takes, in any order. A letter is a tuple and a placeholder is one letter that
carries its key, so placeholders that arise where two pieces meet are left out.
`Summary` scans the six keys as the loop of the code does.

### AdminPanel

A member of `Slots` is one asynchronous function that runs in the page: a load, a
save, a run of the poller, a deletion, a contact sync. Its calls wait for a token,
are sent, have been served, are refused, or lose their answer after the effect. The
content of a list is the number of changes made to it, which is enough to tell an
older state from a newer one. `cached` and `stored` say whether the page has an
access token and a refresh token; `refreshes` counts the refreshes under way, which
`NeedToken` keeps at one. A call goes out with a token, or with the cookies alone
where there is none to be had. Whether it is served is up to the host, which decides
about tokens and cookies before the plugin sees the request, so that any call may be
served (`Serve`) or refused (`Refuse`). The forms, the search, the test button, the
rotation of the refresh token and the load of users, whose failure the page
tolerates, are left out; an edit of a row that is gone is one of the calls that are
refused.

## 3. The runs

| run | bounds | states | what it shows |
|---|---|---|---|
| QueueOverlap | 1 row, 2 ticks, limits 2 and 3 (0 reads as 3), 2 faults | 900,000 | the queue's invariants however two ticks overlap, how far they overspend; every row settles; implements `DeliveryLifecycle` |
| QueueAlone | 3 rows, batch of 2, 1 tick, limits 1 and 2, 1 fault | 480,000 | limit, terminal states, duplicates; implements `DeliveryLifecycle` |
| Consumer | 1 event handed over twice, 1 rule that names a target twice, 4 rows, limit 2, overrun 1, 1 fault | 173,000 | consumer and queue together: rows follow the rules, none is missing, every handling ends; implements `Notification` |
| ConsumerLoses | 1 rule, 1 target, 1 fault | violation | a failed read loses a delivery |
| Direct | 1 request of eleven shapes, sent up to twice, 1 target, 2 contacts | 1,820,000 | one row per key across repetitions; who is reached while contacts and target are edited |
| DirectToEveryone | 1 request, 2 users | violation | an empty user selects everyone |
| Reconfigure | 2 calls that may overlap, 1 event or request | 261,000 | nothing published is closed, one configuration at rest, what is lost, polling goes on |
| Transport | 138 providers and an unknown one, 2 recipients, 3 attempts, 3 faults, 6 topic and 4 payload lengths | 51,000 | all or nothing, what a nil means, duplicates have causes, publications are read, all but SMTP and MQTT time out |
| TransportSmtpHangs | SMTP, 3 attempts, 1 fault | violation | the timeout does not end an SMTP dialogue |
| Matching | names up to 3 letters, payloads of 3 keys | 257,000 | matching is by prefix, rendering is substitution |
| Panel | 2 functions at a time, 3 clicks, 2 lists, 2 users, 1 change elsewhere, 1 lost answer, refusals at will | 925,000 | the page catches up, goes back only when loads overlap, shares one refresh |
| PanelKeepsDeleted | the same, nothing lost, no change elsewhere | violation | a deleted row stays on the page |

The consumer runs inside `Pipeline` in run Consumer, so its own properties are
checked there as well. Type correctness of the queue and of direct sends is part
of the inductive invariants `QueueInv` and `KeysInv`, which QueueOverlap and
Direct check.

Why these bounds. *Queue*: rows share nothing but the order in a batch, so the races
are about one row and two ticks; limits 2 and 3 leave a retry before the last
attempt, changing the limit in both directions, and two faults combine two different
ones (a lost answer, then a crash). Three rows and a batch of two make a row wait
for a later batch. *Consumer*: a rule that names its target twice meets the queue
with two rows of one handling in every stage, and a second handling follows a fault
or a crash at each step; two attempts are one that is retried and one that is not,
and an overrun of one lets an overtaken tick change or requeue a row that is
settled. The order across several rules is theorem `RowsAreInOrder`, for any number
of them. *Direct*: one request, sent twice with edits in between, meets every order
of lookups and edits, and contacts of two users are what a lookup can confuse; that
any number of publishers can share a key is theorem `KeysAreShared`. *Reconfigure*:
of two calls the second replaces the first, fails, or overlaps with it in every way;
the safety properties are theorems for any number of calls, events and requests.
*Transport*: two recipients are refused in the middle, three attempts are the
default limit; the lengths lie on either side of a byte of the topic's length and of
each digit of the packet's; lengths from 2^28 on, for which `encRemain` writes a
fifth digit that no broker accepts, are left out, and all shorter ones are in
theorem `ReadBackUnlessTooLong`. *Panel*: two functions overlap in every way two
loads or a load and a save can, the third click follows one of them. *Matching*:
three letters are a star at the end, in the middle and alone.

The four violations (ConsumerLoses, DirectToEveryone, TransportSmtpHangs,
PanelKeepsDeleted) are the findings of `PROJECT.json`: each quotes the line of the
repository it disagrees with. The rules of a passing run hold with the code
as it is; where a property needs a condition to hold (no overlap, no fault, not
MQTT), the condition is written in it.

How far ticks can overspend. With T ticks a row has at most limit +
`OverlapSlack` attempts, (T-1) + T(T+1)/2 - 1: three more for two ticks.
`AttemptsBounded` checks it; the bound is reached, so it cannot be lowered.
It is a theorem for any number of ticks, from `OverspendInv`, the balance of
`DeliveryQueueProofs` that makes it inductive (section 4).

`CHECK_DEADLOCK FALSE` stands where the system may come to rest: requests,
calls, attempts, clicks or keys are used up.

### Fairness

* Queue: weak fairness of `Tick(Loop)` and of time (`BecomeDue`).
  `Manager.Start` runs Tick at every beat of a ticker, and `Registry.Send` sets
  a deadline for the calls that heed their context. SMTP and MQTT do not once
  they are connected: for those it is an assumption on the remote side, and
  TransportSmtpHangs shows that it is needed. The other ticks may stop
  for ever anywhere, the administrator need do nothing.
* Consumer: weak fairness of each handler, whose database calls return; none for
  the host, which may not call again. Pipeline adds the fairness of
  `DeliveryLifecycle`, that the poller comes to every row, which QueueAlone and
  QueueOverlap show of the queue; no tick need be overtaken. That rows are not
  reopened for ever is no assumption: attempts are counted and bounded.
* Reconfigure: weak fairness of a call and of the loops, strong fairness of
  `EndLoop`: Go's `select` may prefer a beat to a cancelled context, not for ever.
* Transport: weak fairness of the client, none of the other side.
* Direct sends, matching and the admin page have safety properties only: what
  they wait for is a publisher, a server or a user.

## 4. The proofs

`DeliveryQueueProofs` proves for all values of the constants, that is for any
number of rows, targets, overlapping ticks and faults:

* `TypeCorrect`, `DeliveredIsDelivered`, `NothingGivenUpEarly`,
* `AttemptsAreVersions`: a tick's snapshot is never ahead of the table, and while
  it is not outdated the row is still queued,
* `OnlyOutdatedTicksReopen`: a settled row changes only by the mark of a tick
  with an outdated snapshot,
* `QueueInvariant`: the inductive invariant `QueueInv` they follow from.

None of the properties is inductive by itself. The key is to read `attempts` as
the version of the row: every UPDATE counts it up, no other step does. Then a
snapshot with the current version was read from a queued row and nothing has
happened since, which gives `AttemptsVersionTheRow`; `TicksAreSound` adds that
what a tick is about to record as delivered was handed over, and that its limit
is one the configuration can give. `QueueInv` is checked by TLC as well.

`DeliveryQueueAloneProofs` assumes of most of its theorems that `Tickers` is
`{Loop}` and proves
`MaxAttemptsIsTheTotal`, `QueuedRowsCanBeAttempted` and `TerminalMeansTerminal`.
Two more invariants carry these: `UpToDate` (the only tick's snapshots are
current, and no row is in a batch twice) and `BelowLimit` (a row that is not
settled has attempts left).

`QueueImplementsLifecycle`, in the same module, needs no such assumption: with any
finite number of ticks every step is a step of `DeliveryLifecycle` or leaves status
and attempts alone. A mark from a snapshot that is current is an `Attempt`, any other
is `Overtaken` (`AttemptsVersionTheRow` tells them apart); that there is `Room` for
it is the bound on overspending below (`RoomStaysLeft`), and with a single tick, where
`Overrun` is 0, `BelowLimit`.

Two more theorems count hand-overs. `HandOversAreCounted` holds however many ticks
overlap: a hand-over is counted in `attempts`, or its answer is still awaited, or
it was lost to a fault. Its invariant `AccountInv` is stronger by the ticks that
are cut off (`Detach`) and may hand a row over once more, which are charged to the
fault in advance; `TickPays` is the balance of one step. `OncePlusFaults` is the
sharper count without overlap, one hand-over and one for each fault, from
`OnceInv`: all hand-overs but one have cost a fault, and that one too unless it is
recorded or can still be.

`AttemptsStayBounded` is the bound on overspending, for any number of ticks. Near
the limit of a row (one attempt is left, or none) every new snapshot makes its
tick settle the row, so that only the ticks with an older snapshot can queue it
again, each once. `MarksLeft` counts the marks that may still come: with k such
requeuers, one for each of them, and after each the marks of all who are free to
read the row again, T-k+1, then T-k+2, up to T; and before that the marks of those
who have read it. `OverspendIsAccounted` says that the attempts made and the marks
left stay within the bound. The ticks need not be ordered by how outdated they
are: a requeue takes one off k and brings in no more than its term of the sum, which
`MarksLeft` had counted already.

The assumptions are those of `DeliveryQueue`: rows are numbered, the loop is a
ticker, the default limit and the batch limit are positive; and, where ticks are
counted (`HandOversAreCounted`, `AttemptsStayBounded`, `QueueImplementsLifecycle`),
that they are finitely many. `OverspendIsAccounted` names the highest limit that can
be configured and assumes that there is one, as there is for an integer of the
database.

`PipelineProofs` proves of the consumer, for any number of rules, targets,
concurrent events, handlings and faults:

* `ConsumerIsTyped`;
* `RowsAreInOrder`: the rows of a handling are in the order of rules and targets,
  none twice. It needs that what a handler still has to do comes after what it has
  done (`TodoIsAhead`) and that no row is of a handling that has not begun;
* `AcknowledgedIsQueued`: without a fault, an acknowledged event has a row for
  each match whose target was on. The invariant is about every handler under way:
  what it has come past is in a row or was off (`PassedIsQueued`).

and of consumer and queue together, for any number of rows as well:

* `PipelineRunsTheConsumer`: the behaviours of `Pipeline` are behaviours of
  `EventConsumer`, so all of the above holds next to the queue;
* `PipelineKeepsItsPromise`: they are behaviours of `Notification`, whatever is
  handled, attempted, edited or broken off in between: a match becomes at most one
  delivery, and one that is settled is touched again only if `Overrun` is above 0, by
  the mark of an overtaken tick. A row of the consumer is a
  delivery of the abstract specification; that two rows are never one delivery
  follows from the order of rows (`RowsAreDistinct`), and that the fate of one row is
  the fate of one delivery with it. `PipeInv` adds that exactly the first
  `Len(rows)` rows are in the queue. `MaxRows` bounds what is inserted, as a guard
  of `Enqueue`.

`ReconfigureProofs` proves for any number of calls of Configure, overlapping or
not, and of arrivals:

* `WiringIsTyped`, `PublishedIsOpen`, `AtRestThereIsOne`, `NothingElseIsLost`.

`PoolInv` accounts for every open pool: it is being prepared, published by
`poolPtr`, or about to be closed by exactly one call. `SerialInv` says what each
pointer is at each line of a call while none have overlapped. `ArrivalsInv` says
which arrivals can hold a store that is closed: events a call came across.

`TransportProofs` proves for any recipients, attempts, faults and lengths:

* `TransportIsTyped`, `NoOneIsLeftOut`, and `NilIsAccepted`, which says what a nil is
  worth: by SMTP, that the server has the mail with its attachments; by any other
  provider, that the message was taken or nothing was read that could say no; by
  Discord never that an attachment could not be decoded. From `TransportInv`, which
  adds that a mail server has agreed to all recipients before it gets the message
  and has accepted it before `smtpSend` comes to its end, and which provider can be
  at which command;
* `DuplicatesCostFaults`: from `CountInv`, a balance of messages taken and faults
  for each place in the dialogue, where a timeout that has run out is a fault of
  the attempt under way;
* `StringsAreReadBack`: a broker reads the length of a string modulo 65536, and so
  finds it again exactly if it is shorter than that;
* `ReadBackUnlessTooLong`: `encRemain` writes what a broker's decoder reads back,
  up to the four digits MQTT allows, so that a publication is found again exactly if
  its topic is shorter than 65536; `PublicationsAreReadBack`: every publication that
  is taken is one the broker reads, or its topic is too long.

The digits of a length are a recursive function. That it is the function its
definition describes, and that reading undoes writing, are shown from the least
length for which it would not be so (`LeastNumber`, from the library's theorem that
the order of the naturals is well-founded), which takes the place of induction.
`LengthsAssumption` keeps a packet below 2^28 bytes.

`AdminPanelProofs` proves for any number of functions of the page at once, lists,
users, clicks and changes by others:

* `ThePageCatchesUp`: from `UpToDate`, that the load which began last brings what the
  table holds, but for changes that another load will follow;
* `OneRefreshForAll`: from `Waiting`, who waits waits for a refresh under way;
* `OnlyOverlapGoesBack`: from `Alone`, a load that was never next to another brings
  nothing older than what is shown.

* `PanelIsTyped`: the types with their bounds, if functions, lists and users are
  finitely many. The bounds are not the guards': only clicks are bounded there. The
  invariant `Paid` says that a click pays for what follows from it, one load, at once
  or when its change is made, and the calls of its change, one or one for each user;
  so the loads begun and the functions that will begin one are no more than the
  clicks, and a list has changed no more often than clicks and others account for.

Each step of the page changes one function and at most one list; `StepEffect` says
so once, and the invariants are proved from it.

`MatchingProofs` proves for any letters, templates, keys, values and lengths:

* `RulesAreUsedByPattern`: a rule is used exactly for the events its pattern
  describes;
* `RenderingIsSubstitution`: if neither the event nor a value prints a placeholder,
  the text is the template with all placeholders replaced at once. In the loop, the
  text is the template with the letters put in but for the keys that are left
  (`Rendered`); a turn takes one key off (`LoopTurns`), because replacing in a text
  that is put together of pieces is replacing in each piece (`ReplacedOfFlat`), and in
  a piece that was put in there is nothing left to replace. The lemmas on
  `FlattenSeq` and `Summary`, both recursive functions, are shown from the least
  length for which they would not hold.

The assumptions are that names have a bounded length, that the star is a letter, and
that values and templates are sequences (`TextAssumption`).

`DirectSendProofs` proves of direct sends, for any number of requests, targets
and contacts and whatever the requests say:

* `SendsAreTyped`: every reachable state is well typed, a row has a target and a
  "to" that consists of addresses;
* `KeysAreShared`: requests with one key share one row for good, and every
  request that is answered "queued" is answered with that row;
* `KeysInvariant`: the inductive invariant `KeysInv` they follow from, which TLC
  checks in run Direct;
* `TheAskedAreReached` and `EventsFollowTheTarget`: who is reached, while contacts
  and targets are edited between the lookups.

The types are not inductive alone: that a row has a target needs that a handler
which looks up recipients has found one. Nor are the keys: that the row a
request finds under its key is an answer to it needs that every row keeps the
key of the request it came from. The proof goes through the effect of `Enqueue`
(`EnqueueEffect`: a new row and no other has the key, or nothing changes), and
each other action either leaves rows and answers alone, changes a status, or
answers without a row. Who is reached follows from two more invariants:
`GatheredInv` says how far a handler has come, that every reference before the
one it is at is served and that nothing is gathered that was not asked for;
`FollowInv` says of each row what its sends will follow. These two theorems
assume of the requests (`RequestsAreWellSaid`) that a reference of kind user
names a user, without which they are false, as DirectToEveryone shows; that an
event that meets a rule names no one; and that only HTTP knows send_now. The
other assumptions are that recipients are addresses (`ShapesAssumption`,
`ContactsAssumption`) and that the bound on repetitions is a number
(`TriesAssumption`).

Model-checked only: `EveryRowSettles`, `EveryRunEnds`, `PollingResumes`,
`SendsTimeOut` and the fairness of `DeliveryLifecycle` and `Notification`. Liveness
under fairness is out of the prover's reach. Every safety property of a passing run
is a theorem as well; of `ImplementsLifecycle` and `ImplementsNotification` the
theorems state all but the fairness.

## 5. What is not modelled

* User preferences: stored and read back, nothing consults them.
* Access checks and the translation of HTTP requests: no state.
* The bodies of requests, one per service. What a service says in the body of a 2xx
  answer no provider looks at but for a token; `Transport` lets every one of them
  refuse that way.
* The splitting of address lists at commas (`splitCSV`): the models take a "to" as
  the set of its addresses. Base64: Go's library.
* Half-applied migrations: decided by golang-migrate.
* The pages and forms that docs, prerendering and provider descriptions serve: text
  that is read and handed out.
* When an access token runs out, which the host decides and the page never notices
  (App.tsx:48): `AdminPanel` lets any call be refused at any time.
* What is typed into the admin page's forms. The event publisher: unused.
* Wording of titles, bodies and log lines.

Other places where text and code part, seen while modelling and not runs:
overlapping ticks queue a settled row again (`ReopenedOnlyByOutdatedTick` says
when; docs/delivery-queue.md:10 gives rows one way only, line 74 knows that no
row is locked), exceed `max_attempts` (docs/operations.md:65) and leave
queued rows with no attempts left (docs/debugging.md:39); a rule that names a
deleted target writes no row (docs/operations.md:36 says it does); a queued HTTP
send freezes the target's "to" (docs/direct-send.md:57); an event's payload can
carry a `target_config` into a rule's row (docs/delivery-queue.md:52);
`mqttPublish` does not look at the broker's answer (final_parity.go:184); a mail
whose attachment cannot be decoded goes out empty (provider.go:456); Viber
declares dynamic recipients and reads "receiver" only (social_chat.go:74); a
refusal in the body of a 2xx counts as delivered (provider.go:313-322; WeChat's
`errcode` is parsed and dropped, final_parity.go:159); send_now ignores the
idempotency key (server.go:211), which docs/direct-send.md:63 offers to make
publishers safe to retry.

## 6. Plan

Done: the queue, the consumer, both composed, direct sends with their contacts,
reconfiguration with calls that overlap, matching, transports with the whole
catalogue and MQTT's lengths, the admin page; the safety properties of all of them
are theorems. The order was that of the damage: what loses or repeats messages
first.

Next:

1. The splitting of "to" strings and of CSV lists, which the models take as sets of
   addresses.
2. How often a message goes out by send_now: a count like `HandOversAreAccounted`.
