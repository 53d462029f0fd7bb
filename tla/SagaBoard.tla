------------------------------ MODULE SagaBoard ------------------------------
(***************************************************************************)
(* What the dashboard makes of a saga: the timeline groups the events by   *)
(* order and sums each group up in a word.  The monitor reads the topics   *)
(* in any order, so a group may be any set of the events published so far. *)
(***************************************************************************)
EXTENDS Saga

\* Mutation: a payment is looked for before a shipment.
PaidBeforeShipped ==
    <<"order.created.DLQ", "refund.initiated", "payment.failed",
      "payment.succeeded", "shipment.created">>

\* The types that tell something of an outcome, the one that wins first.
Precedence ==
    <<"order.created.DLQ", "refund.initiated", "payment.failed",
      "shipment.created", "payment.succeeded">>

Word(type) ==
    CASE type = "order.created.DLQ" -> "dead-letter"
      [] type = "refund.initiated" -> "refunded"
      [] type = "payment.failed" -> "payment failed"
      [] type = "shipment.created" -> "shipped"
      [] type = "payment.succeeded" -> "paid"

\* The word for a group of events of these types.
sagaStatus(types) ==
    LET found == {i \in DOMAIN Precedence : Precedence[i] \in types}
    IN  IF found = {}
        THEN "in progress"
        ELSE Word(Precedence[CHOOSE i \in found : \A j \in found : i <= j])

\* The types of the events the group of an order may show.
GroupTypes(o) == {t \in EventTopics \union {"order.created.DLQ"} : Logged(t, o)}

-----------------------------------------------------------------------------
(* Properties. *)

\* The words a group may go through, as the saga itself proceeds.
MovesOn(before, after) ==
    \/ before = after
    \/ before = "in progress"
    \/ before = "paid" /\ after = "shipped"
    \/ before = "payment failed" /\ after = "refunded"
    \/ after = "dead-letter"

\* In whatever order the events of a saga arrive, each one leaves the word of
\* its group as it is or moves it on: a shipped order is never called declined,
\* nor a refunded one paid.
LabelOnlyProgresses ==
    \A o \in Orders : \A seen \in SUBSET GroupTypes(o) : \A t \in GroupTypes(o) :
        MovesOn(sagaStatus(seen), sagaStatus(seen \union {t}))

LabelOfStage(stage) ==
    CASE stage \in {"none", "created"} -> "in progress"
      [] stage = "declined" -> "payment failed"
      [] OTHER -> stage

\* Once the relays have published every row, the word of an order that was not
\* dead-lettered tells what the databases of the services hold of it.
LabelTellsStage ==
    (\A s \in Services : published[s] = Len(outbox[s])) =>
        \A o \in Orders :
            ~Logged("order.created.DLQ", o) =>
                sagaStatus(GroupTypes(o)) = LabelOfStage(StageOf(o))

\* Once the saga is at rest the word of an order tells its outcome.
WordAtRest ==
    AtRest => \A o \in Orders : sku[o] # "unplaced" =>
        sagaStatus(GroupTypes(o)) =
            IF Logged("order.created.DLQ", o) THEN "dead-letter" ELSE
            IF sku[o] = "pays" THEN "shipped" ELSE "refunded"
=============================================================================
