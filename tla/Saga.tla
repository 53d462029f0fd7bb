-------------------------------- MODULE Saga --------------------------------
(***************************************************************************)
(* The order saga: the gateway, the five services with their databases and *)
(* outboxes, and the Kafka topics between them.  A handler's database      *)
(* transaction is one step; offsets, relays and restarts are steps of      *)
(* their own, so every interleaving and every redelivery is explored.      *)
(* A topic has one partition and a service one instance, as deployed.      *)
(***************************************************************************)
EXTENDS Naturals, Sequences

CONSTANTS
    Orders,        \* order ids (a fresh UUID per POST)
    Deployed,      \* the services that run; the others were never started
    MaxRedeliver,  \* bound: redeliver requests
    MaxFaults      \* bound: restarts, failed marks, outages, duplicate sends

Services == {"order", "payment", "shipping", "refund", "notification"}

ASSUME SagaAssumption ==
    /\ Deployed \subseteq Services
    /\ MaxRedeliver \in Nat
    /\ MaxFaults \in Nat

CommandTopics == {"order.create", "order.redeliver"}

\* The topics notification-service listens on.
NotifiedTopics == {"order.created", "payment.succeeded", "payment.failed",
                   "shipment.created", "refund.initiated"}

EventTopics == NotifiedTopics \union {"notification.sent"}

Topics == CommandTopics \union EventTopics \union {"order.created.DLQ"}

\* What the items of an order make of its payment.  "pays" and "declined" are
\* the simulator's verdict (or a FAIL sku); "poison" is a POISON sku.
Skus == {"pays", "declined", "poison"}

\* The service that writes events of type t to its outbox.
Owner(t) ==
    CASE t = "order.created" -> "order"
      [] t \in {"payment.succeeded", "payment.failed"} -> "payment"
      [] t = "shipment.created" -> "shipping"
      [] t = "refund.initiated" -> "refund"
      [] t = "notification.sent" -> "notification"

\* The topics the handlers of a service are bound to; its group subscribes to
\* them.  Order-service listens to commands only, never to events.
PaymentTopics == {"order.created"}
ShippingTopics == {"payment.succeeded"}
RefundTopics == {"payment.failed"}

Subscribed(s) ==
    CASE s = "order" -> CommandTopics
      [] s = "payment" -> PaymentTopics
      [] s = "shipping" -> ShippingTopics
      [] s = "refund" -> RefundTopics
      [] s = "notification" -> NotifiedTopics

\* A message: its eventId, type, correlationId and, for notification.sent, the
\* type it was triggered by.  A random eventId is the row it was minted for.
Ids == (Services \union {"gateway"}) \X Nat
Message == [id: Ids, type: Topics, order: Orders, cause: Topics \union {"none"}]

Command(t, o) ==
    [id |-> <<"gateway", 0>>, type |-> t, order |-> o, cause |-> "none"]

VARIABLES
    \* the request
    sku,        \* sku[o]: the items the client ordered, "unplaced" before
    \* the broker
    log,        \* log[t]: the messages of topic t
    committed,  \* committed[s][t]: the offset the group of s committed
    \* each service's database
    db,         \* db[s]: the keys of the business rows (the dedupe keys)
    outbox,     \* outbox[s]: the outbox rows, oldest first
    published,  \* published[s]: how many rows are marked published
    \* each service's process
    pos,        \* pos[s][t]: the offset the consumer reads next
    inflight,   \* inflight[s]: the next row was emitted and is not yet marked
    \* the environment
    faults      \* how many faults happened

vars == <<sku, log, committed, db, outbox, published, pos, inflight, faults>>

Init ==
    /\ sku = [o \in Orders |-> "unplaced"]
    /\ log = [t \in Topics |-> <<>>]
    /\ committed = [s \in Services |-> [t \in Topics |-> 0]]
    /\ db = [s \in Services |-> {}]
    /\ outbox = [s \in Services |-> <<>>]
    /\ published = [s \in Services |-> 0]
    /\ pos = [s \in Services |-> [t \in Topics |-> 0]]
    /\ inflight = [s \in Services |-> FALSE]
    /\ faults = 0

Fault == /\ faults < MaxFaults
         /\ faults' = faults + 1

Produce(t, m) == log' = [log EXCEPT ![t] = Append(@, m)]

-----------------------------------------------------------------------------
(* The gateway: turns requests into commands. *)

PlaceOrder(o) ==
    /\ sku[o] = "unplaced"
    /\ \E k \in Skus: sku' = [sku EXCEPT ![o] = k]
    /\ Produce("order.create", Command("order.create", o))
    /\ UNCHANGED <<committed, db, outbox, published, pos, inflight, faults>>

\* The gateway's producer retries a send whose acknowledgement was lost.
ResendCommand(o) ==
    /\ sku[o] # "unplaced"
    /\ Fault
    /\ Produce("order.create", Command("order.create", o))
    /\ UNCHANGED <<sku, committed, db, outbox, published, pos, inflight>>

\* Any id is accepted, also one no order has.
AskRedeliver(o) ==
    /\ Len(log["order.redeliver"]) < MaxRedeliver
    /\ Produce("order.redeliver", Command("order.redeliver", o))
    /\ UNCHANGED <<sku, committed, db, outbox, published, pos, inflight, faults>>

-----------------------------------------------------------------------------
(* The consumers.  A handler that returns advances the consumer. *)

HasNext(s, t) == s \in Deployed /\ pos[s][t] < Len(log[t])

NextMessage(s, t) == log[t][pos[s][t] + 1]

Advance(s, t) == pos' = [pos EXCEPT ![s][t] = @ + 1]

\* Mutation: no idempotency check.
SaveAlways(s, key, type, m, cause) ==
    /\ db' = [db EXCEPT ![s] = @ \union {key}]
    /\ outbox' = [outbox EXCEPT ![s] =
            Append(@, [id |-> <<s, Len(@) + 1>>, type |-> type,
                       order |-> m.order, cause |-> cause])]

\* One transaction: skip a key that has a row, else write the row and its event.
SaveOnce(s, key, type, m, cause) ==
    \/ /\ key \in db[s]
       /\ UNCHANGED <<db, outbox>>
    \/ /\ key \notin db[s]
       /\ db' = [db EXCEPT ![s] = @ \union {key}]
       /\ outbox' = [outbox EXCEPT ![s] =
            Append(@, [id |-> <<s, Len(@) + 1>>, type |-> type,
                       order |-> m.order, cause |-> cause])]

Consumed(s, t) ==
    /\ Advance(s, t)
    /\ UNCHANGED <<sku, log, committed, published, inflight, faults>>

CreateOrder ==
    /\ HasNext("order", "order.create")
    /\ LET m == NextMessage("order", "order.create")
       IN  SaveOnce("order", m.order, "order.created", m, "none")
    /\ Consumed("order", "order.create")

\* Mutation: the copy gets an eventId of its own.
RedeliverWithFreshId ==
    /\ HasNext("order", "order.redeliver")
    /\ LET m == NextMessage("order", "order.redeliver")
       IN  IF m.order \in db["order"]
           THEN SaveAlways("order", m.order, "order.created", m, "none")
           ELSE UNCHANGED <<db, outbox>>
    /\ Consumed("order", "order.redeliver")

\* The first order.created row of the order, copied with the same envelope.
RedeliverOrder ==
    /\ HasNext("order", "order.redeliver")
    /\ LET m == NextMessage("order", "order.redeliver")
           rows == {i \in DOMAIN outbox["order"] :
                        outbox["order"][i].order = m.order}
       IN  \/ /\ rows = {}
              /\ UNCHANGED outbox
           \/ \E first \in rows :
              /\ \A i \in rows : first <= i
              /\ outbox' = [outbox EXCEPT !["order"] =
                                Append(@, @[first])]
    /\ Consumed("order", "order.redeliver")
    /\ UNCHANGED db

\* Mutation: the FAIL sku is overlooked.
PaymentAlwaysSucceeds(o) == "payment.succeeded"

\* Mutation: the outcome names a topic no one declared.
PaymentToOtherTopic(o) ==
    IF sku[o] = "declined" THEN "payment.declined" ELSE "payment.succeeded"

PaymentType(o) ==
    IF sku[o] = "declined" THEN "payment.failed" ELSE "payment.succeeded"

\* Mutation: a POISON order is processed like any other.
HandlePoisonToo ==
    /\ HasNext("payment", "order.created")
    /\ LET m == NextMessage("payment", "order.created")
       IN  SaveOnce("payment", m.order, PaymentType(m.order), m, "none")
    /\ Consumed("payment", "order.created")

\* Mutation: each delivery is charged anew, with an outcome of its own.
ChargeEachDelivery ==
    /\ HasNext("payment", "order.created")
    /\ LET m == NextMessage("payment", "order.created")
       IN  \E type \in {"payment.succeeded", "payment.failed"} :
            SaveAlways("payment", m.order, type, m, "none")
    /\ Consumed("payment", "order.created")

\* Mutation: the event is written outside the transaction of the payment.
EventWithoutPayment ==
    /\ HasNext("payment", "order.created")
    /\ LET m == NextMessage("payment", "order.created")
       IN  /\ sku[m.order] # "poison"
           /\ outbox' = [outbox EXCEPT !["payment"] =
                Append(@, [id |-> <<"payment", Len(@) + 1>>, type |-> PaymentType(m.order),
                           order |-> m.order, cause |-> "none"])]
           /\ UNCHANGED db
    /\ Consumed("payment", "order.created")

HandleOrderCreated ==
    /\ HasNext("payment", "order.created")
    /\ LET m == NextMessage("payment", "order.created")
       IN  /\ sku[m.order] # "poison"
           /\ SaveOnce("payment", m.order, PaymentType(m.order), m, "none")
    /\ Consumed("payment", "order.created")

\* Every attempt of the handler threw: the message goes to the DLQ and is done.
DeadLetter ==
    /\ LET m == NextMessage("payment", "order.created")
       IN  Produce("order.created.DLQ", m)
    /\ Advance("payment", "order.created")
    /\ UNCHANGED <<sku, committed, db, outbox, published, inflight>>

\* A POISON order throws on every attempt ...
PoisonFails ==
    /\ HasNext("payment", "order.created")
    /\ sku[NextMessage("payment", "order.created").order] = "poison"
    /\ DeadLetter
    /\ UNCHANGED faults

\* ... and any other one while the database is out for all attempts.
OutageFails ==
    /\ HasNext("payment", "order.created")
    /\ sku[NextMessage("payment", "order.created").order] # "poison"
    /\ DeadLetter
    /\ Fault

HandlePaymentSucceeded ==
    /\ HasNext("shipping", "payment.succeeded")
    /\ LET m == NextMessage("shipping", "payment.succeeded")
       IN  SaveOnce("shipping", m.order, "shipment.created", m, "none")
    /\ Consumed("shipping", "payment.succeeded")

HandlePaymentFailed ==
    /\ HasNext("refund", "payment.failed")
    /\ LET m == NextMessage("refund", "payment.failed")
       IN  SaveOnce("refund", m.order, "refund.initiated", m, "none")
    /\ Consumed("refund", "payment.failed")

\* Mutation: notifications are deduped by order.
NotifyPerOrder(t) ==
    /\ HasNext("notification", t)
    /\ LET m == NextMessage("notification", t)
       IN  SaveOnce("notification", m.order, "notification.sent", m, m.type)
    /\ Consumed("notification", t)

\* Mutation: no idempotency check in notification-service.
NotifyAlways(t) ==
    /\ HasNext("notification", t)
    /\ LET m == NextMessage("notification", t)
       IN  SaveAlways("notification", m.id, "notification.sent", m, m.type)
    /\ Consumed("notification", t)

\* Mutation: a failed notification is swallowed.
NotifyOrSwallow(t) ==
    /\ HasNext("notification", t)
    /\ LET m == NextMessage("notification", t)
       IN  \/ SaveOnce("notification", m.id, "notification.sent", m, m.type)
           \/ UNCHANGED <<db, outbox>>
    /\ Consumed("notification", t)

Notify(t) ==
    /\ HasNext("notification", t)
    /\ LET m == NextMessage("notification", t)
       IN  SaveOnce("notification", m.id, "notification.sent", m, m.type)
    /\ Consumed("notification", t)

-----------------------------------------------------------------------------
(* What a process does besides its handlers. *)

\* The consumer commits the offsets of what it has handled.
Commit(s) ==
    /\ s \in Deployed
    /\ committed[s] # pos[s]
    /\ committed' = [committed EXCEPT ![s] = pos[s]]
    /\ UNCHANGED <<sku, log, db, outbox, published, pos, inflight, faults>>

\* Mutation: the produce is not awaited, so it may be lost.
EmitWithoutAwait(s) ==
    /\ s \in Deployed
    /\ ~inflight[s]
    /\ published[s] < Len(outbox[s])
    /\ LET m == outbox[s][published[s] + 1] IN Produce(m.type, m) \/ UNCHANGED log
    /\ inflight' = [inflight EXCEPT ![s] = TRUE]
    /\ UNCHANGED <<sku, committed, db, outbox, published, pos, faults>>

\* The relay publishes the oldest unpublished row ...
Emit(s) ==
    /\ s \in Deployed
    /\ ~inflight[s]
    /\ published[s] < Len(outbox[s])
    /\ LET m == outbox[s][published[s] + 1] IN Produce(m.type, m)
    /\ inflight' = [inflight EXCEPT ![s] = TRUE]
    /\ UNCHANGED <<sku, committed, db, outbox, published, pos, faults>>

\* ... and marks it after the broker took it.
Mark(s) ==
    /\ inflight[s]
    /\ published' = [published EXCEPT ![s] = @ + 1]
    /\ inflight' = [inflight EXCEPT ![s] = FALSE]
    /\ UNCHANGED <<sku, log, committed, db, outbox, pos, faults>>

\* The mark (or the acknowledgement) fails; the next tick tries again.
MarkFails(s) ==
    /\ inflight[s]
    /\ Fault
    /\ inflight' = [inflight EXCEPT ![s] = FALSE]
    /\ UNCHANGED <<sku, log, committed, db, outbox, published, pos>>

\* Mutation: the consumer starts again from the end of its topics.
RestartAtLatest(s) ==
    /\ s \in Deployed
    /\ Fault
    /\ pos' = [pos EXCEPT ![s] = [t \in Topics |->
                    IF t \in Subscribed(s) THEN Len(log[t]) ELSE 0]]
    /\ inflight' = [inflight EXCEPT ![s] = FALSE]
    /\ UNCHANGED <<sku, log, committed, db, outbox, published>>

\* A crash and the restart after it: the process state is lost.
Restart(s) ==
    /\ s \in Deployed
    /\ Fault
    /\ pos' = [pos EXCEPT ![s] = committed[s]]
    /\ inflight' = [inflight EXCEPT ![s] = FALSE]
    /\ UNCHANGED <<sku, log, committed, db, outbox, published>>

-----------------------------------------------------------------------------
Handler(s) ==
    \/ s = "order" /\ (CreateOrder \/ RedeliverOrder)
    \/ s = "payment" /\ (HandleOrderCreated \/ PoisonFails)
    \/ s = "shipping" /\ HandlePaymentSucceeded
    \/ s = "refund" /\ HandlePaymentFailed
    \/ s = "notification" /\ \E t \in NotifiedTopics : Notify(t)

Next ==
    \/ \E o \in Orders : PlaceOrder(o) \/ ResendCommand(o) \/ AskRedeliver(o)
    \/ \E s \in Services :
        Handler(s) \/ Commit(s) \/ Emit(s) \/ Mark(s) \/ MarkFails(s) \/ Restart(s)
    \/ OutageFails

\* A running process keeps consuming and its relay keeps ticking.  Faults are
\* never required to happen, nor are offsets ever required to be committed.
Fairness ==
    \A s \in Services : /\ WF_vars(Handler(s))
                        /\ WF_vars(Emit(s))
                        /\ WF_vars(Mark(s))

Spec == Init /\ [][Next]_vars
FairSpec == Spec /\ Fairness

-----------------------------------------------------------------------------
(* Properties. *)

\* The events of type t in topic log, whose correlation id is o.
Logged(t, o) == \E i \in DOMAIN log[t] : log[t][i].order = o

\* Every variable has its type.
TypeOK ==
    /\ sku \in [Orders -> Skus \union {"unplaced"}]
    /\ log \in [Topics -> Seq(Message)]
    /\ committed \in [Services -> [Topics -> Nat]]
    /\ db \in [Services -> SUBSET (Orders \union Ids)]
    /\ outbox \in [Services -> Seq(Message)]
    /\ published \in [Services -> Nat]
    /\ pos \in [Services -> [Topics -> Nat]]
    /\ inflight \in [Services -> BOOLEAN]
    /\ faults \in 0..MaxFaults

\* Whatever is redelivered or duplicated, an order's events of one service are
\* one event: it is not charged twice, not both paid and declined, not shipped
\* twice (the idempotency checks of the handlers, redeliver's copied envelope).
OneEventPerOrder ==
    \A s \in Services \ {"notification"}, t1, t2 \in EventTopics :
        Owner(t1) = s /\ Owner(t2) = s =>
            \A i \in DOMAIN log[t1], j \in DOMAIN log[t2] :
                log[t1][i].order = log[t2][j].order => log[t1][i] = log[t2][j]

\* An order is never both shipped and refunded.
NeverShippedAndRefunded ==
    ~ \E o \in Orders : o \in db["shipping"] /\ o \in db["refund"]

\* The client is told once of each event of an order, although notification-
\* service dedupes on the event's id and not on the order.
NotifiedOnce ==
    \A i, j \in DOMAIN outbox["notification"] :
        /\ outbox["notification"][i].order = outbox["notification"][j].order
        /\ outbox["notification"][i].cause = outbox["notification"][j].cause
        => i = j

\* What must be in the service's database once message m is behind it.
Effect(s, m) ==
    CASE s = "notification" ->
            \E i \in DOMAIN outbox[s] : /\ outbox[s][i].cause = m.type
                                        /\ outbox[s][i].order = m.order
      [] s = "payment" ->
            \/ \E i \in DOMAIN outbox[s] : outbox[s][i].order = m.order
            \/ \E i \in DOMAIN log["order.created.DLQ"] :
                    log["order.created.DLQ"][i] = m
      [] OTHER -> \E i \in DOMAIN outbox[s] : outbox[s][i].order = m.order

\* A message below a committed offset is never read again, so its effect (the
\* event the service owes for it, or the dead letter) is already durable.
\* Redeliver commands are the exception: they may be dropped.
CommittedIsDurable ==
    \A s \in Services : \A t \in Subscribed(s) \ {"order.redeliver"} :
        \A i \in 1..committed[s][t] : Effect(s, log[t][i])

\* A row marked published is in its topic: marking follows the broker's answer.
PublishedIsLogged ==
    \A s \in Services : \A j \in 1..published[s] :
        \E i \in DOMAIN log[outbox[s][j].type] :
            log[outbox[s][j].type][i] = outbox[s][j]

\* A service acts on an order only after the event that calls for it was
\* published, with the outcome the order's items call for.
Causality ==
    \A o \in Orders :
        /\ o \in db["order"] => sku[o] # "unplaced"
        /\ o \in db["payment"] =>
            sku[o] \in {"pays", "declined"} /\ Logged("order.created", o)
        /\ o \in db["shipping"] => sku[o] = "pays" /\ Logged("payment.succeeded", o)
        /\ o \in db["refund"] => sku[o] = "declined" /\ Logged("payment.failed", o)

\* The stage of an order and the events announced for it, as the databases of
\* the five services record them together.
StageOf(o) ==
    CASE o \in db["shipping"] -> "shipped"
      [] o \notin db["shipping"] /\ o \in db["refund"] -> "refunded"
      [] o \notin db["shipping"] \union db["refund"] /\ o \in db["payment"] ->
            IF sku[o] = "declined" THEN "declined" ELSE "paid"
      [] o \notin db["shipping"] \union db["refund"] \union db["payment"] ->
            IF o \in db["order"] THEN "created" ELSE "none"

AnnouncedOf(o) ==
    {t \in NotifiedTopics : \E i \in DOMAIN outbox["notification"] :
        outbox["notification"][i].order = o /\ outbox["notification"][i].cause = t}

Contract == INSTANCE SagaContract WITH
    stage <- [o \in Orders |-> StageOf(o)],
    announced <- [o \in Orders |-> AnnouncedOf(o)]

\* No coordinator runs the saga, yet the five services together move each order
\* through its stages one at a time, never back and never astray.
ImplementsContract == Contract!Spec

-----------------------------------------------------------------------------
(* Liveness, under FairSpec with every service deployed. *)

Outcome(o) ==
    \/ sku[o] = "pays" /\ Logged("shipment.created", o)
    \/ sku[o] = "declined" /\ Logged("refund.initiated", o)
    \/ Logged("order.created.DLQ", o)

\* Every accepted order reaches its outcome or is dead-lettered, whatever
\* restarts and outages occur on the way.
EveryOrderSettles ==
    \A o \in Orders : sku[o] # "unplaced" ~> Outcome(o)

\* Every event of the saga is announced to the client.
EveryEventNotified ==
    \A o \in Orders, t \in NotifiedTopics :
        Logged(t, o) ~> \E i \in DOMAIN log["notification.sent"] :
                            /\ log["notification.sent"][i].order = o
                            /\ log["notification.sent"][i].cause = t

-----------------------------------------------------------------------------
(* What the saga has achieved whenever it is at rest, in finite or infinite *)
(* behaviours and without any fairness.                                     *)

\* Every deployed service has handled all its messages and published its rows.
AtRest ==
    \A s \in Deployed : /\ \A t \in Subscribed(s) : pos[s][t] = Len(log[t])
                        /\ published[s] = Len(outbox[s])

\* The saga never comes to rest short of an outcome: no restart, redelivery or
\* outage makes a message be skipped, or a row be left out by its relay.
SettledAtRest ==
    AtRest => \A o \in Orders : sku[o] # "unplaced" => Outcome(o)

\* At rest the client was told exactly what happened to each order.
AllToldAtRest ==
    AtRest => \A o \in Orders : AnnouncedOf(o) = Contract!Happened(StageOf(o))

\* The relay's crashes repeat events but never reorder them: two messages of a
\* topic are two rows of its owner's outbox in the order they were written in.
TopicsKeepOrder ==
    \A t \in EventTopics : \A i, j \in DOMAIN log[t] : i <= j =>
        \E a, b \in DOMAIN outbox[Owner(t)] :
            /\ a <= b
            /\ outbox[Owner(t)][a] = log[t][i]
            /\ outbox[Owner(t)][b] = log[t][j]

\* In a run without faults the relays repeat nothing: an event is in its topic a
\* second time only if its order was redelivered.
CopiesHaveACause ==
    faults = 0 =>
        \A t \in EventTopics : \A i, j \in DOMAIN log[t] :
            log[t][i] = log[t][j] =>
                i = j \/ Logged("order.redeliver", log[t][i].order)

\* An order is dead-lettered only for what is in it, or in an outage.
LettersHaveACause ==
    faults = 0 =>
        \A o \in Orders : Logged("order.created.DLQ", o) => sku[o] = "poison"

-----------------------------------------------------------------------------
(* The inductive invariant behind the safety properties. *)

BusinessServices == Services \ {"notification"}

\* Every row is an event of the service that wrote it.
RowsAreOwned ==
    \A s \in Services : \A j \in DOMAIN outbox[s] :
        outbox[s][j].type \in EventTopics /\ Owner(outbox[s][j].type) = s

\* A topic of events holds what its owner's relay took from the outbox.
LoggedFromOutbox ==
    \A t \in EventTopics : \A i \in DOMAIN log[t] :
        /\ log[t][i].type = t
        /\ \E j \in DOMAIN outbox[Owner(t)] : outbox[Owner(t)][j] = log[t][i]

\* Business rows and outbox rows exist together, one event to an order.
RowsMatchKeys ==
    \A s \in BusinessServices :
        /\ \A j \in DOMAIN outbox[s] : outbox[s][j].order \in db[s]
        /\ \A k \in db[s] : \E j \in DOMAIN outbox[s] : outbox[s][j].order = k

OneRowPerOrder ==
    \A s \in BusinessServices : \A i, j \in DOMAIN outbox[s] :
        outbox[s][i].order = outbox[s][j].order => outbox[s][i] = outbox[s][j]

\* An eventId names one event.
IdsAreFresh ==
    \A s \in Services : \A j \in DOMAIN outbox[s] :
        /\ outbox[s][j].id[1] = s
        /\ outbox[s][j].id[2] <= j
        /\ \A i \in DOMAIN outbox[s] :
            outbox[s][i].id = outbox[s][j].id => outbox[s][i] = outbox[s][j]

\* A notification and the id it is deduped by come from one logged event.
Announces(row, m) == row.order = m.order /\ row.cause = m.type

NotificationsMatchIds ==
    LET rows == outbox["notification"]
        ids == db["notification"]
    IN  /\ \A j \in DOMAIN rows :
            \E t \in NotifiedTopics : \E i \in DOMAIN log[t] :
                Announces(rows[j], log[t][i]) /\ log[t][i].id \in ids
        /\ \A k \in ids :
            \E t \in NotifiedTopics : \E i \in DOMAIN log[t] :
                /\ log[t][i].id = k
                /\ \E j \in DOMAIN rows : Announces(rows[j], log[t][i])

\* Offsets only run ahead in one direction.
OffsetsOrdered ==
    \A s \in Services : \A t \in Topics :
        committed[s][t] <= pos[s][t] /\ pos[s][t] <= Len(log[t])

\* The relay never passes the end of the outbox.
RelayBounded ==
    \A s \in Services :
        /\ published[s] <= Len(outbox[s])
        /\ inflight[s] =>
            /\ published[s] < Len(outbox[s])
            /\ LET m == outbox[s][published[s] + 1]
               IN  \E i \in DOMAIN log[m.type] : log[m.type][i] = m

\* What a consumer has moved past is durable, committed or not.
ConsumedIsDurable ==
    \A s \in Services : \A t \in Subscribed(s) \ {"order.redeliver"} :
        \A i \in 1..pos[s][t] : Effect(s, log[t][i])

CommandsArePlaced ==
    \A i \in DOMAIN log["order.create"] :
        sku[log["order.create"][i].order] # "unplaced"

PaymentRowsFollowItems ==
    \A j \in DOMAIN outbox["payment"] :
        outbox["payment"][j].type = PaymentType(outbox["payment"][j].order)

\* The gateway produces the command of an order as it accepts it.
PlacedAreCommanded == \A o \in Orders : sku[o] # "unplaced" => Logged("order.create", o)

\* TopicsKeepOrder, and how far in the outbox the relay can be.
RelayKeepsOrder ==
    \A t \in EventTopics : \A i, j \in DOMAIN log[t] : i <= j =>
        \E a, b \in DOMAIN outbox[Owner(t)] :
            /\ a <= b /\ b <= published[Owner(t)] + 1
            /\ outbox[Owner(t)][a] = log[t][i]
            /\ outbox[Owner(t)][b] = log[t][j]

\* A service writes an event once, unless it was asked to redeliver the order.
RowsHaveACause ==
    \A s \in Services : \A a, b \in DOMAIN outbox[s] :
        outbox[s][a] = outbox[s][b] =>
            a = b \/ Logged("order.redeliver", outbox[s][a].order)

\* Without faults, what is in a topic is marked or is the row in flight.
LoggedIsMarked ==
    faults = 0 =>
        \A t \in EventTopics : \A i \in DOMAIN log[t] :
            \E a \in DOMAIN outbox[Owner(t)] :
                /\ outbox[Owner(t)][a] = log[t][i]
                /\ a <= published[Owner(t)] \/ inflight[Owner(t)]
                /\ a <= published[Owner(t)] + 1

CopiesInv == RowsHaveACause /\ LoggedIsMarked /\ CopiesHaveACause

IInv ==
    /\ TypeOK
    /\ RowsAreOwned
    /\ LoggedFromOutbox
    /\ RowsMatchKeys
    /\ OneRowPerOrder
    /\ IdsAreFresh
    /\ NotificationsMatchIds
    /\ NotifiedOnce
    /\ OffsetsOrdered
    /\ RelayBounded
    /\ PublishedIsLogged
    /\ ConsumedIsDurable
    /\ CommandsArePlaced
    /\ PaymentRowsFollowItems
    /\ Causality
=============================================================================
