# Event tracer: specifications and proofs

TLA+ models of the event-driven order system in `src/`, the TLC
configurations that check them on small instances, and theorems about them
that TLAPS checks for every value of the constants.

`PROJECT.json` maps every definition of a model to the lines it stands for and
lists the runs, the hazards, the findings and the theorems.

## 1. The system

| part | keeps | does | talks to |
|---|---|---|---|
| api-gateway, orders | nothing | `POST /orders` validates the body, mints an order id and produces `order.create`; `POST /orders/:id/redeliver` produces `order.redeliver` | Kafka |
| api-gateway, control | nothing | turns a click into a pause or resume command on `control.consumer` | Kafka |
| order-service | orders, outbox | creates an order once per order id; copies an order's event into the outbox again on a redeliver | DB, Kafka |
| payment-service | payments, outbox | charges an order once; a POISON item makes the handler throw, a FAIL item declines | DB, Kafka, DLQ |
| shipping-service, refund-service | shipments, refunds, outbox | act once on a paid, respectively declined, order | DB, Kafka |
| notification-service | notifications, outbox | announces each of five events once, keyed by the event's id | DB, Kafka |
| outbox relay (`libs/outbox`) | a `draining` flag | every second publishes the oldest 50 unpublished rows one by one and marks each after the broker took it | DB, Kafka |
| retry and dead letters (`libs/kafka/dlq.ts`) | nothing | three attempts of a handler, then a message to `<topic>.DLQ` | Kafka |
| consumer control (`libs/kafka/consumer-control.ts`) | a `paused` flag | pauses and resumes the domain topics of its service's consumer | Kafka |
| event-monitor, status and lag | the set of paused services, a `polling` flag | every two seconds: membership, pauses and lag of each group, sent to the browsers | Kafka admin, sockets |
| event-monitor, timeline and replay | a `replaying` flag | pushes every event to the browsers; a replay drains each topic up to a mark with a throwaway consumer | Kafka, sockets |
| frontend | the board (at most 500 cards), the status bar, the order form, one busy flag | wipes the board and asks for a replay; pause and resume buttons; orders by scenario; groups the board by order | gateway, monitor, sockets |

Every service has one instance, every topic one partition, and every service a
consumer group of its own. Services share nothing but topics: each writes its
business row and its outbox row in one transaction, and its relay publishes the
outbox row later. There is no coordinator: the saga of an order is whatever
the five services make of the topics.

What is hard here, and to test: a consumer may be handed a message again after
it committed its transaction; a relay may publish a row again after a crash
before the mark; a handler's answer may be lost when its work was done; two
timers, two browsers or two runs of a handler may overlap; the pause flag, the
monitor's set and the offsets are memories of one log that are lost separately;
ends of topics and offsets are read at different moments. `PROJECT.json` lists
these hazards by line, and what each part must get right:

- **saga**: whatever is delivered or published twice, one event per service and
  order, an outcome that follows from the items, shipped or refunded and never
  both, each event announced once; every order settles.
- **relay**: rows leave in the order they were written; a row is repeated only
  next to itself and only after a fault; every row leaves.
- **delivery**: an order is charged at most once and its message is done with
  only once it was charged or dead-lettered; no message blocks the partition.
- **control**: a flag follows the last command for its service; a resume always
  lands; the status tells who is paused.
- **lag**: never overstated, climbs while a service is paused or stopped, drains
  to 0.
- **replay**: one at a time, always answered, and what was wiped comes back.
- **gateway**: a 202 is true and one request makes one order.
- **dashboard**: an order it builds is one the gateway takes, its buttons come
  back, its groups keep their order, and the word for an order is true.

## 2. The modules

| module | models | abstract specification |
|---|---|---|
| `Saga` (with `MCSaga`) | gateway, five services, their databases, outboxes, relays, consumers, topics | `SagaContract` |
| `SagaBoard` | the timeline's grouping by order and the word it sums a saga up in, on top of `Saga` | |
| `OutboxRelay` | `OutboxRelay.drain`, await by await, with overlapping timer calls | `OutboxContract` |
| `PaymentDelivery` | one `order.created` in payment-service: `processWithDlq`, and the transaction as the SQL it issues | `DeliveryContract` |
| `ConsumerControl` | clicks, the control topic, each service's flag and domain topics, the monitor's set, its status and lag poll | |
| `Replay` (with `MCReplay`) | live pushes, boards, replays of all topics or of one, restarts of the monitor | |
| `Gateway` | `POST /orders` with repeated requests, through to the created order | |
| `Dashboard` (with `MCDashboard`) | a page: the order form, the busy flag, the gateway's validation, the filter and the groups of the timeline | |
| `*_proofs` | theorems about the module of that name | |

The models overlap where one abstracts the other. The saga has each handler's
transaction as one step, `PaymentDelivery` opens that step up. The saga has a
relay as "emit the oldest row, then mark it", `OutboxRelay` justifies that with
batches and overlapping calls: its contract is that the rows come out in
order, a row possibly several times in a row, which is what the saga's `Emit`
and `MarkFails` do.

### Saga

| variable | in the code |
|---|---|
| `sku[o]` | the item list of the client's request, by what it makes of the payment: `pays`, `declined`, `poison` |
| `log[t]` | Kafka topic `t` |
| `committed[s][t]`, `pos[s][t]` | the group's committed offset; the consumer's own position |
| `db[s]` | the rows of the service's business table, by the key its handler looks them up with (the order id, or the event id in notification-service) |
| `outbox[s]`, `published[s]` | the outbox table in `createdAt` order; how many of its rows have `publishedAt` |
| `inflight[s]` | the relay awaited the broker for the next row and has not saved the mark |
| `faults` | faults so far (a bound) |

A random `eventId` is modelled as the row it was minted for, so that two rows
have the same id exactly when one was copied from the other.

Actions: `PlaceOrder`, `AskRedeliver` (gateway), `ResendCommand` (a producer
retry); `CreateOrder`, `RedeliverOrder`, `HandleOrderCreated`, `PoisonFails`,
`OutageFails`, `HandlePaymentSucceeded`, `HandlePaymentFailed`, `Notify` (the
handlers); `Commit` (offsets), `Emit`, `Mark`, `MarkFails` (relay), `Restart`.
`SagaContract` is the saga of one order as a reader of the docs has it: created,
then paid or declined, then shipped or refunded, and an event announced only
when the order got there. `Saga` reads an order's stage off the
databases of all the services together (`StageOf`, `AnnouncedOf`).

`SagaBoard` adds no state. A group of the timeline may hold any set of the events
published for its order, because the monitor reads the topics in any order;
`sagaStatus` is the frontend's function on the types of such a set.

### OutboxRelay, PaymentDelivery

`OutboxRelay` has one action for each stretch of `drain` between two awaits,
and several calls of it at one time, as `@Interval` does not wait for the
promise. Every await may reject.

`PaymentDelivery` follows `handleOrderCreated` from the wrapper down to the
statements: `findOne`, the SELECT and then the INSERT or UPDATE of
`repository.save()` on an entity with a key, the outbox INSERT, COMMIT. Each may
fail, a COMMIT also after it took effect. A second run of the handler models a
group that was rebalanced while a handler still ran.

### ConsumerControl

One log of commands has two kinds of readers. A service applies a command
addressed to it to its flag, the monitor applies all of them to its set; each
commits offsets and restarts from them with an empty memory. The domain
topics that a pause holds back are here as well: a running service that is not
paused handles events (`Consume`) and commits what it handled. A group that
never committed on a topic joins it at its end (`Join`, and the two initial values
of `committed`).

The monitor's poll is in pieces, request by request: per service the membership is
awaited (`Describe`), then the set is read (`Decide`), then the ends of the
topics it watches are read one by one (`FetchHead`) and then all offsets
(`FetchOffsets`); any request may fail. When all services are inspected the
snapshot, status and lag, is sent (`Broadcast`). Everything else goes on meanwhile.
A click, in the bar (`BarClick`) or in a consumer's menu (`MenuClick`), acts on the
status last shown.

| variable | in the code |
|---|---|
| `paused[s]` | `ConsumerControl.paused` of service `s` |
| `at`, `done`, `monAt`, `monDone` | positions and committed offsets on `control.consumer` |
| `head`, `pos`, `committed` | ends, positions and committed offsets of the domain topics |
| `handled`, `since` | history: what was handled, and where the group came in |
| `watched` | the monitor's set of paused services |
| `polling`, `view`, `read`, `counted`, `lag` | what the running `poll()` holds in its local variables |
| `shown`, `backlog` | the last snapshot the browser got |

### Replay, Gateway, Dashboard

`Replay`: a request, of a browser (`Ask`) or of another caller of the endpoint
(`Call`, which may name a single topic), is `posted`, then refused or admitted,
and goes through `mark`, `drain` and `close` for each topic of its plan. While it
closes, its consumer still delivers. The timer ends the wait for a consumer that
stalled or is slow. A board is a capped sequence of cards, wiped when the browser
asks or clears it; dead letters come to it live and are never replayed. `busy[b]`
is the flag behind the disabled button, which the other calls of a page raise and lower
as well: a pause or resume, which the flag does not hold back, or an order. `others[b]`
counts those that are open (`OtherStarts`, `OtherEnds`); the end of one of them lowers
the flag whatever else is open, so that a second press can happen. `owed` is a
history variable: what the latest replay of a browser has to bring back, until the
browser loses its socket or clears the board or the replay gives up a topic. When
the monitor restarts (`MonitorRestarts`), the requests under way fail, the flag is
down again, the sockets drop, and the live consumer goes on at its commit or, in a
topic it never committed on, at the end.

`Gateway`: each POST of an idempotency key mints an order id; the send may
reject before or after the broker took it, and the 202 may be lost. At the
other end order-service dedupes by order id.

`Dashboard` is one page. The order form holds strings; a typed number is `<<n>>`
or, when it cannot be parsed, `<<>>`, and a word stands for any sku. `Coerce` is the
coercion of the form at the moment a scenario is clicked, with JavaScript's `||`,
`BodyForScenario` puts a sentinel sku in, `Valid` is the gateway's `CreateOrderDto`.
A sample that was asked for arrives by a timer and overwrites what was typed
since. (The fields are shown on demand in the code; in the model they can be typed into
at any time, which only adds behaviour.) Calls are numbered; each raises the one
`busy` flag when it goes out and lowers it when it ends (`Act`, `Settle`). The
pushes of the monitor come in any order and again. The grouped view is a Map in
insertion order over the events the filter leaves: `GroupOf` is the events of one
key, and a group stands where its first shown event stands (`Precedes`).

## 3. The runs

| run | instance | question |
|---|---|---|
| `SagaCore` | 1 order, order, payment, shipping and refund services, 1 redeliver, 1 fault | causes, single events, single outcome, the dashboard's word for it, refinement, settling |
| `SagaAnnounced` | 1 order, order, payment and notification services, 1 fault | announcements: once and always; commits are durable |
| `RelayDrains` | 4 rows, batches of 2, 2 overlapping calls, 3 faults | refinement, copies, progress |
| `DeliveryOne` | 1 run at a time, 3 attempts, 7 faults | refinement, letters, progress |
| `DeliveryTwo` (violation) | 2 runs, no fault | is the primary key a backstop? |
| `ControlRuns` | 1 service with a topic, 2 clicks, 2 events, 1 fault | do flags follow the log, are commits and the lag right, do resumes land, does the status agree? |
| `ControlForgets` (violation) | 2 services, 1 click, 1 fault | does the status survive a restart? |
| `LagBlind` (violation) | a service with 2 topics, one of them watched, 1 event each, 1 fault | is the lag the total of what waits? |
| `ReplayRuns` | 1 browser and a caller, 2 topics and 1 for dead letters, 2 events, 2 replays, 1 other call of the page at a time, a board of 3, 1 fault | exclusion, answers, rebuilding, with restarts of the monitor |
| `GatewayAccepts` | 2 keys, 3 POSTs, 2 faults | no false 202, one order per id |
| `GatewayTwice` (violation) | 1 key, 2 POSTs, 1 fault | is the idempotency key honoured? |
| `Dashboard` | 2 orders, 3 kinds of cards, a board of 3, 3 calls, numbers not typed, below and above zero | what is refused, how far the busy flag guards, do the buttons come back, do groups keep their order? |

Each property of a passing run has a mutant: a definition of the model changed
the way a bug in that code would, under which TLC finds the property violated.
The mutated forms stand before the definitions they replace, marked
"Mutation".

**Bounds.** All counters that only grow are bounded by a constant: redeliver
requests, faults, clicks, events, rows, POSTs and replays. They are chosen so
that the cases that matter happen. One order is enough for the saga, because no
handler reads rows of another order; what two orders share is the order of the
relay, which `RelayDrains` has (more rows than a batch, so a second batch
follows the first), and the offsets, which are the same for any message. One
fault means a restart, a failed mark or an outage at any step, and with a
redelivery on top the two kinds of duplicates meet. Seven faults are
two dead letters of an order that can be processed: three failed attempts, a rejected
send of the letter that the broker took, and three more failed attempts after the
redelivery, so that `LettersNeedFaults` is met with equality. Two clicks are a pause and a resume, or two pauses on a stale
status; one service is enough for the passing run, since services share only the log,
where a command for another one is skipped (`ControlForgets` has two). Two events in two
topics let one arrive during the replay of either. A board of three is
overflowed by two events that come both live and replayed, and has room for what
a replay alone brings; one browser and a caller are enough for two requests to
meet, because a browser does nothing to another one's board. One other call of the page
suffices to lower the flag under a replay; of the topics that can be asked for by themselves
the run has a domain topic and a dead letter topic (`Singles`). On the page, three
calls are an order, a pause that slips a second order past the flag, and its answer;
a board of three with two orders lets a group lose its first event
while another one stays. The safety theorems below have no bounds.

**Symmetry** is not used: most runs check liveness.

**Deadlock** is checked except where the system may come to rest (a saga whose
orders settled, a message acknowledged, no more requests); those configurations
say so.

### Fairness

Liveness is checked under weak fairness of what the code schedules by itself:

- a consumer that runs is handed the next message (kafkajs fetches in a loop),
  and what a handler awaits settles;
- the relay's timer (`@Interval(1000)`), the monitor's (`@Interval(2000)`) and
  the replay's 15 second timer fire;
- a group's dead member expires;
- a replay's consumer that is told to disconnect does so, even while it still
  has events to deliver;
- a fetch of the page ends: the services answer, the replay within its 15 seconds
  per topic, or the connection fails.

Nothing else is ever required to happen: no fault, no click, no request, no
second try of a client, no start of a stopped service. Offset commits are
required of a running group where the lag is about them (`ConsumerControl`) and not in
the saga, where liveness must not depend on them. Faults are finitely many, since
a relay or broker that fails for ever delivers nothing.

### What the runs show

Apart from the findings, the code does what it says under any order of steps the
models have. The parts where that was not obvious: redelivery, the relay's
copies and restarts meet three different dedupe keys (order id, order id,
event id) and each absorbs what reaches it, because a copied row keeps its
event id (`RedeliverWithFreshId` is the mutant that shows it); a resume is
received by a paused service, because the pause covers the domain topics only
(`ReadsUnlessPaused`); the lag is never overstated, because offsets are
read after the ends and only grow; a pause or resume that is answered lets one more
order or replay past the busy flag, and never two (`GuardSlips`); and each dead letter
of an order that can be processed takes as many errors as there are attempts, so that none
counts for two deliveries (`LettersNeedFaults`; `DeliverCarrying`, which keeps the count of
the delivery before, is the mutant that shows it).

Where a run is narrower than its property: `SagaAnnounced` has no redelivery, and `NotifiedOnce`
with redeliveries is the theorem `AnnouncedOnce`; `ControlRuns` has one service, so that commands
for somebody else occur in `ControlForgets` and in the theorem `ServiceFollowsItsCommands` only;
`LabelOnlyProgresses` is about events that are added, not about a wiped board or the cap;
`CommittedWasHandled` starts where a group came in; `StatusAgrees` is about a time without
restarts, and `BacklogShown` about topics that are watched and committed.

### Findings

- `DeliveryTwo`: the test suite calls the primary key of a payment "the
  concurrency backstop". `save()` first looks for the row and updates
  it if it is there: of two overlapping runs of the handler the second may
  overwrite the payment and write a second event.
- `ControlForgets`: the status `paused` comes from the monitor's own set, and
  that and the service's flag are lost in different restarts. After a restart of either the
  bar may be wrong for good. As long as nobody restarts, `StatusAgrees` holds.
- `GatewayTwice`: the `Idempotency-Key` is passed on and looked at by nobody. A
  repeated request makes a second order.
- `LagBlind`: the lag is said to be the total of a group's unconsumed messages, and
  is counted on a list of topics that leaves out `order.redeliver`: redeliver
  requests that wait for a stopped order-service do not show.

Other limits the models show, without a run of their own:

- A dead letter does not mean that "nothing was written" (`dlq.ts:33`): a copy of an
  order that was charged before can be dead-lettered in a database outage. An order
  that was dead-lettered in an outage, redelivered and shipped is still summed up as
  "dead-letter".
- Notifications of an order may go out in another order than its events, which are
  in different topics.
- A group skips what was published to a topic before it first joined it, and the
  lag ignores topics without a committed offset.
- Replayed copies still stack under events that are live during the replay, and on
  the boards of the other browsers, which nobody wiped (`page.tsx:52`).
  `eventKey` is meant to be unique because the type qualifies it (`events-meta.ts:34`);
  a redelivered or replayed copy has the same type as well.
- A browser that is refused a replay has wiped its board already.
- "Every action shares the same busy-guard" (`page.tsx:36`): pause and resume do
  not look at the flag, and the end of one enables the replay button under a running
  replay; pressing it wipes what was replayed so far.
- "Coerce the strings to a valid order" (`CommandPanel.tsx:59`): an amount below zero
  passes the coercion and is refused by the gateway. `RefusedForAmount` says that
  nothing else is.
- Groups are in "the order each saga first appeared" (`Timeline.tsx:237`) on the
  board as it is: when the cap drops a group's first event, the group moves behind
  others. `GroupsKeepOrder` says that nothing else moves it.

## 4. Theorems

All theorems hold for every value of the constants that the modules' `ASSUME`s
admit (natural numbers for bounds, at least one attempt or topic, deployed
services among the five). Each proof is by an inductive invariant; the lemma
`<Action>Inv` shows that one action preserves it.

- **`Saga_proofs`.** `IInv` adds to the safety properties what they rest on: every row
  belongs to the service that wrote it; every event in a topic is a row of its
  owner's outbox; business rows and outbox rows exist together; equal ids mean
  equal rows; offsets are ordered; what a consumer moved past is durable, not
  only what it committed. From it: `TypeCorrect`, `OneEvent`,
  `ShippedOrRefunded`, `ActsOnCause`, `AnnouncedOnce`, `MarkedAfterPublish`,
  `NothingLost`, and `SagaImplementsContract`, where each handler is either the
  contract's step of that service or a stutter. `NeverShippedAndRefunded` is
  not inductive: it needs that an order's payment events are all of one type,
  which needs that all its rows are copies of one row. Three groups of results go
  beyond the runs:
  - *Order and repetition.* `RelayedInOrder`: the messages of a topic are rows of its
    owner's outbox in the order of their writes (the strengthening bounds the rows by
    the relay's position). `RepeatsHaveACause`: in a run without faults an event is in
    its topic a second time only if its order was redelivered. It needs that equal
    rows exist only by a redelivery, and that all logged rows but the one in flight
    are marked. `LettersAreExplained`: without faults only a POISON order is
    dead-lettered.
  - *The saga at rest.* `RestMeansSettled` and `RestMeansTold`: once every deployed
    service has read its topics to the end and published its rows, every accepted
    order has its outcome, and exactly what happened to it was announced. They
    are the safety halves of `EveryOrderSettles` and `EveryEventNotified`: the system may
    be slow, but it cannot stop short. Their assumption is that the services concerned are
    deployed.
  - *What the contract means.* `ContractMeansTruth`: whatever keeps `SagaContract` tells
    the client only what happened and takes nothing back; `SagaTellsTheTruth` carries it
    to the five services through the refinement.
- **`SagaBoard_proofs`.** No invariant of its own: by that of `Saga_proofs` the
  types of an order's published events lie on one branch of the saga, and
  `sagaStatus` takes the latest of them. From it: `WordOnlyProgresses`, `WordTellsStage`,
  and, with the saga at rest, `WordTellsOutcome`.
- **`OutboxRelay_proofs`.** The marked rows are a prefix of the table, at most
  one call is past the guard, the row it is at is the oldest unmarked one, and
  copies and a published but unmarked row are paid for by faults. From it:
  `TypeCorrect`, `CopiesNeedFaults`, `RelayImplementsContract`, `MarkedAfterPublish`.
  `ContractMeansOrder` shows of the contract alone that no row overtakes
  another and none is passed over, and `RelayKeepsOrder` takes that to the relay through
  the refinement. `PublishesOldestUnmarked` is an action property: the row
  that goes to the broker is the oldest unmarked one at that moment, although it was read
  before several awaits.
- **`PaymentDelivery_proofs`.** Two invariants. `RunsInv` holds of any number of runs: a
  payment and its event exist together, one open transaction holds the row, and
  a letter has a reason. From it: `NothingGivenUp`, `OneWriterAtATime`; `TypeCorrect`
  holds of any number of runs as well.
  With one run at a time (`OneAtATime`, an assumption of the other theorems; `DeliveryTwo`
  refutes them without it) a handler past its check has not charged
  before, a run that returns has charged or sent a letter, and the faults so far have paid
  for the letters that were sent and for the failed attempts of the present delivery
  (`LettersEarned`). From it: `LettersAreFew`,
  `ChargedAtMostOnce`, `DeliveryImplementsContract`.
- **`ConsumerControl_proofs`.** Each flag is what the last command read for it
  says, committed offsets are behind, and a stopped or restarted process has cost a
  fault; the position of a running consumer has everything below it handled since it
  joined; an end that a poll has read is not beyond the topic. From it: `TypeCorrect`,
  `ServiceFollowsItsCommands`, `MonitorFollowsTheCommands`, `SameLogSameMemory`,
  `CommittedIsHandled`, `DrainedSkipsNothing`. The lag is bounded from above by
  `LagIsBounded` and from below by `LagMissesNothing`, although ends and offsets are
  read at different moments. `NoFalseAlarm` needs in addition that what a poll has
  decided on so far has its reason in the log.
- **`Replay_proofs`.** The flag is up exactly while a request runs, and with the
  type invariant and its bound on the boards this gives `TypeCorrect` and
  `OneReplayAtATime`. `ReplayRebuilds` (`Rebuilt`) needs in addition that what the
  latest request of a browser owes it in the topics the replay is through with is on its
  board, that what it owes in the present topic and has pushed is there too, and that
  nothing is owed beyond the mark; a board below its cap never dropped a card.
  `DisabledForACall` (the flag of a page is up only while a replay of its own is open or
  another call of the page is) and `RestMeansAnswered` (the safety half of
  `EveryReplayAnswered`) need that every request made is on record.
- **`Dashboard_proofs`.** The orders under way were all coerced, and the orders and
  replays under way are, beyond one, paid for by answered controls; if the flag is
  down they are even fewer. From it: `OnlyTheAmountIsRefused`, `TheGuardSlipsOnce`;
  `DisabledForACall` is the safety half of `ButtonsComeBack`. `GroupsStayInPlace`
  (`GroupsKeepOrder`) follows the first shown event of each group through a push and
  through the drop of the oldest card.
- **`Gateway_proofs`.** A request whose send resolved is in the topic with its
  own id and key, and an event exists only for a created order. From it:
  `TypeCorrect`, `AcceptedIsTrue`, `AnnouncedOnceOnly`. A second invariant says which
  ids are minted and which faults a repeated request has cost; from it: `FreshIds`,
  `RepeatsNeedFaults`, `RestMeansCreated` (the safety half of `AcceptedIsCreated`).

The invariants that the theorems add to those of the runs (`TopicsKeepOrder`,
`CopiesHaveACause`, `LettersHaveACause`, `SettledAtRest`, `AllToldAtRest`, `WordAtRest`,
`InOrder`, `NoGap`, `MarkedIsPublished`, `DoneForAReason`, `KeyIsRespected`, `IdsAreFresh`,
`OrdersNeedFaults`, `AcceptedAtRest`, `MemoriesAgree`, `StatusIsExplained`,
`DrainedIsHandled`, `LagNotUnderstated`, `AnsweredAtRest`, `BusyIsExplained`) stand in the modules
beside the checked ones and can be added to their configurations.

Only model-checked: the liveness properties (`EveryOrderSettles`,
`EveryEventNotified`, `EveryRowPublished`, `NeverBlocked`, `ResumeDrains`,
`BacklogShown`, `StatusAgrees`, `EveryReplayAnswered`, `AcceptedIsCreated`,
`ButtonsComeBack`), since the prover does not reason about fairness and
enabledness. Every other property of the passing runs is proved.

## 5. What is assumed and what is left out

- One instance per service and one partition per topic, as in the compose file
  and the topic set-up. `createdAt` orders the outbox rows as they were
  inserted. The databases are READ COMMITTED, and a transaction is atomic.
- In `Saga` and `Gateway` the groups have committed offsets from before; a first
  start is in `ConsumerControl`.
- `ConsumerControl.bind` is part of a start: no command reaches an unbound
  consumer, which subscribes after the application listens.
- An internal restart of the kafkajs consumer that forgets its pauses is the
  library's and is not modelled.
- In `Replay` the handling of an event by the live consumer and its broadcast are one
  step. Its commits are not followed: after a restart it goes on at any offset it may
  have committed, or at the end of a topic it committed nothing of.
- Not modelled: a redeliver request that is handled before its order is created (it
  is dropped on purpose), the two 400 guards of the control endpoints, wording of
  notifications, the hash that picks an outcome or a carrier, column naming,
  which event is selected, under the mouse or in the drawer, scrolling, the colours,
  captions and counters of the frontend (pure functions of the board), and its layout.

## 6. Plan

The order of work is by weight: the saga and the two mechanisms it stands on
(relay, delivery) first, then the control plane, the monitor and the gateway.
Then came what joins them: control and lag as one module, so that a pause, the backlog
it makes and the resume that drains it are one behaviour; restarts of the monitor
during a replay; the page. These are in place. What could still be added:

1. Retries around the handlers of the other services, and overlapping runs in the
   saga; both multiply the states of a model that is at the limit of a run.
2. The composition of `OutboxContract` with the saga's relay, as a refinement. A topic
   does not tell a copied row from its original, so it needs a history variable for
   the row behind each message; `RelayedInOrder` and `RepeatsHaveACause` say of the
   messages what the refinement would say of the rows.
3. The page's selection beside the board (the spotlight of an order that left it).
