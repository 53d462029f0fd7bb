----------------------------- MODULE Saga_proofs -----------------------------
(***************************************************************************)
(* Proofs about Saga, for every set of orders, every set of deployed       *)
(* services and every bound on redeliveries and faults.                    *)
(***************************************************************************)
EXTENDS Saga, TLAPS

(* Type correctness. *)

LEMMA InitType == Init => TypeOK
  BY SagaAssumption DEF Init, TypeOK, Services

\* A message a consumer reads is one of its topic.
LEMMA NextMessageType ==
  ASSUME TypeOK, NEW s \in Services, NEW t \in Topics, HasNext(s, t)
  PROVE  /\ NextMessage(s, t) \in Message
         /\ pos[s][t] + 1 \in DOMAIN log[t]
  BY DEF TypeOK, HasNext, NextMessage

\* A topic stays a sequence of messages when one is produced to it.
LEMMA ProduceType ==
  ASSUME TypeOK, NEW t \in Topics, NEW m \in Message, Produce(t, m)
  PROVE  log' \in [Topics -> Seq(Message)]
  BY DEF TypeOK, Produce

LEMMA CommandType ==
  ASSUME NEW t \in CommandTopics, NEW o \in Orders
  PROVE  Command(t, o) \in Message
  BY DEF Command, Message, Ids, CommandTopics, Topics

\* The transaction of a handler keeps the database well typed.
LEMMA SaveOnceType ==
  ASSUME TypeOK, NEW s \in Services, NEW key \in Orders \union Ids,
         NEW type \in EventTopics, NEW m \in Message,
         NEW cause \in Topics \union {"none"},
         SaveOnce(s, key, type, m, cause)
  PROVE  /\ db' \in [Services -> SUBSET (Orders \union Ids)]
         /\ outbox' \in [Services -> Seq(Message)]
<1>1. CASE UNCHANGED <<db, outbox>>
  BY <1>1 DEF TypeOK
<1>2. CASE ~ UNCHANGED <<db, outbox>>
  <2> DEFINE row == [id |-> <<s, Len(outbox[s]) + 1>>, type |-> type,
                     order |-> m.order, cause |-> cause]
  <2>1. Len(outbox[s]) + 1 \in Nat
    BY DEF TypeOK
  <2>2. type \in Topics
    BY DEF EventTopics, Topics
  <2>3. row \in Message
    BY <2>1, <2>2 DEF Message, Ids
  <2>4. /\ db' = [db EXCEPT ![s] = @ \union {key}]
        /\ outbox' = [outbox EXCEPT ![s] = Append(@, row)]
    BY <1>2 DEF SaveOnce
  <2> QED
    BY <2>3, <2>4 DEF TypeOK
<1> QED
  BY <1>1, <1>2

LEMMA AdvanceType ==
  ASSUME TypeOK, NEW s \in Services, NEW t \in Topics, Advance(s, t)
  PROVE  pos' \in [Services -> [Topics -> Nat]]
  BY DEF TypeOK, Advance

LEMMA TypeStep == TypeOK /\ [Next]_vars => TypeOK'
<1> SUFFICES ASSUME TypeOK, [Next]_vars PROVE TypeOK'
  OBVIOUS
<1> USE SagaAssumption
<1>t. \A m \in Message : m.order \in Orders /\ m.id \in Ids /\ m.type \in Topics
  BY DEF Message
<1>1. ASSUME NEW o \in Orders, PlaceOrder(o) PROVE TypeOK'
  <2>1. log' \in [Topics -> Seq(Message)]
    BY <1>1, CommandType, ProduceType DEF PlaceOrder, CommandTopics, Topics
  <2> QED BY <1>1, <2>1 DEF PlaceOrder, TypeOK
<1>2. ASSUME NEW o \in Orders, ResendCommand(o) PROVE TypeOK'
  <2>1. log' \in [Topics -> Seq(Message)]
    BY <1>2, CommandType, ProduceType DEF ResendCommand, CommandTopics, Topics
  <2> QED BY <1>2, <2>1 DEF ResendCommand, TypeOK, Fault
<1>3. ASSUME NEW o \in Orders, AskRedeliver(o) PROVE TypeOK'
  <2>1. log' \in [Topics -> Seq(Message)]
    BY <1>3, CommandType, ProduceType DEF AskRedeliver, CommandTopics, Topics
  <2> QED BY <1>3, <2>1 DEF AskRedeliver, TypeOK
<1>4. CASE CreateOrder
  <2> DEFINE m == NextMessage("order", "order.create")
  <2>1. "order" \in Services /\ "order.create" \in Topics /\ "order.created" \in EventTopics
    BY DEF Services, Topics, CommandTopics, EventTopics, NotifiedTopics
  <2>2. m \in Message
    BY <1>4, <2>1, NextMessageType DEF CreateOrder
  <2>3. SaveOnce("order", m.order, "order.created", m, "none")
    BY <1>4 DEF CreateOrder
  <2>4. /\ db' \in [Services -> SUBSET (Orders \union Ids)]
        /\ outbox' \in [Services -> Seq(Message)]
    BY <1>t, <2>1, <2>2, <2>3, SaveOnceType
  <2>5. pos' \in [Services -> [Topics -> Nat]]
    BY <1>4, <2>1, AdvanceType DEF CreateOrder, Consumed
  <2> QED BY <1>4, <2>4, <2>5 DEF CreateOrder, Consumed, TypeOK
<1>5. CASE RedeliverOrder
  <2> DEFINE m == NextMessage("order", "order.redeliver")
  <2>1. "order" \in Services /\ "order.redeliver" \in Topics
    BY DEF Services, Topics, CommandTopics
  <2>2. outbox' \in [Services -> Seq(Message)]
    <3>1. CASE UNCHANGED outbox
      BY <3>1 DEF TypeOK
    <3>2. CASE ~ UNCHANGED outbox
      <4>1. PICK first \in DOMAIN outbox["order"] :
              outbox' = [outbox EXCEPT !["order"] = Append(@, outbox["order"][first])]
        BY <1>5, <3>2 DEF RedeliverOrder
      <4>2. outbox["order"] \in Seq(Message)
        BY <2>1 DEF TypeOK
      <4>3. Append(outbox["order"], outbox["order"][first]) \in Seq(Message)
        BY <4>2
      <4> QED BY <4>1, <4>3 DEF TypeOK
    <3> QED BY <3>1, <3>2
  <2>3. pos' \in [Services -> [Topics -> Nat]]
    BY <1>5, <2>1, AdvanceType DEF RedeliverOrder, Consumed
  <2> QED BY <1>5, <2>2, <2>3 DEF RedeliverOrder, Consumed, TypeOK
<1>6. CASE HandleOrderCreated
  <2> DEFINE m == NextMessage("payment", "order.created")
  <2>1. "payment" \in Services /\ "order.created" \in Topics /\ PaymentType(m.order) \in EventTopics
    BY DEF Services, Topics, EventTopics, NotifiedTopics, PaymentType
  <2>2. m \in Message
    BY <1>6, <2>1, NextMessageType DEF HandleOrderCreated
  <2>3. SaveOnce("payment", m.order, PaymentType(m.order), m, "none")
    BY <1>6 DEF HandleOrderCreated
  <2>4. /\ db' \in [Services -> SUBSET (Orders \union Ids)]
        /\ outbox' \in [Services -> Seq(Message)]
    BY <1>t, <2>1, <2>2, <2>3, SaveOnceType
  <2>5. pos' \in [Services -> [Topics -> Nat]]
    BY <1>6, <2>1, AdvanceType DEF HandleOrderCreated, Consumed
  <2> QED BY <1>6, <2>4, <2>5 DEF HandleOrderCreated, Consumed, TypeOK
<1>7. CASE DeadLetter /\ HasNext("payment", "order.created") /\ (UNCHANGED faults \/ Fault)
  <2> DEFINE m == NextMessage("payment", "order.created")
  <2>1. "payment" \in Services /\ "order.created" \in Topics /\ "order.created.DLQ" \in Topics
    BY DEF Services, Topics, EventTopics, NotifiedTopics
  <2>2. m \in Message
    BY <1>7, <2>1, NextMessageType
  <2>3. log' \in [Topics -> Seq(Message)]
    BY <1>7, <2>1, <2>2, ProduceType DEF DeadLetter
  <2>4. pos' \in [Services -> [Topics -> Nat]]
    BY <1>7, <2>1, AdvanceType DEF DeadLetter
  <2>5. faults' \in 0..MaxFaults
    BY <1>7 DEF TypeOK, Fault
  <2> QED BY <1>7, <2>3, <2>4, <2>5 DEF DeadLetter, TypeOK
<1>8. CASE HandlePaymentSucceeded
  <2> DEFINE m == NextMessage("shipping", "payment.succeeded")
  <2>1. /\ "shipping" \in Services /\ "payment.succeeded" \in Topics
        /\ "shipment.created" \in EventTopics
    BY DEF Services, Topics, EventTopics, NotifiedTopics
  <2>2. m \in Message
    BY <1>8, <2>1, NextMessageType DEF HandlePaymentSucceeded
  <2>3. SaveOnce("shipping", m.order, "shipment.created", m, "none")
    BY <1>8 DEF HandlePaymentSucceeded
  <2>4. /\ db' \in [Services -> SUBSET (Orders \union Ids)]
        /\ outbox' \in [Services -> Seq(Message)]
    BY <1>t, <2>1, <2>2, <2>3, SaveOnceType
  <2>5. pos' \in [Services -> [Topics -> Nat]]
    BY <1>8, <2>1, AdvanceType DEF HandlePaymentSucceeded, Consumed
  <2> QED BY <1>8, <2>4, <2>5 DEF HandlePaymentSucceeded, Consumed, TypeOK
<1>9. CASE HandlePaymentFailed
  <2> DEFINE m == NextMessage("refund", "payment.failed")
  <2>1. /\ "refund" \in Services /\ "payment.failed" \in Topics
        /\ "refund.initiated" \in EventTopics
    BY DEF Services, Topics, EventTopics, NotifiedTopics
  <2>2. m \in Message
    BY <1>9, <2>1, NextMessageType DEF HandlePaymentFailed
  <2>3. SaveOnce("refund", m.order, "refund.initiated", m, "none")
    BY <1>9 DEF HandlePaymentFailed
  <2>4. /\ db' \in [Services -> SUBSET (Orders \union Ids)]
        /\ outbox' \in [Services -> Seq(Message)]
    BY <1>t, <2>1, <2>2, <2>3, SaveOnceType
  <2>5. pos' \in [Services -> [Topics -> Nat]]
    BY <1>9, <2>1, AdvanceType DEF HandlePaymentFailed, Consumed
  <2> QED BY <1>9, <2>4, <2>5 DEF HandlePaymentFailed, Consumed, TypeOK
<1>10. ASSUME NEW t \in NotifiedTopics, Notify(t) PROVE TypeOK'
  <2> DEFINE m == NextMessage("notification", t)
  <2>1. /\ "notification" \in Services /\ t \in Topics
        /\ "notification.sent" \in EventTopics
    BY DEF Services, Topics, EventTopics
  <2>2. m \in Message
    BY <1>10, <2>1, NextMessageType DEF Notify
  <2>3. SaveOnce("notification", m.id, "notification.sent", m, m.type)
    BY <1>10 DEF Notify
  <2>4. /\ db' \in [Services -> SUBSET (Orders \union Ids)]
        /\ outbox' \in [Services -> Seq(Message)]
    BY <1>t, <2>1, <2>2, <2>3, SaveOnceType
  <2>5. pos' \in [Services -> [Topics -> Nat]]
    BY <1>10, <2>1, AdvanceType DEF Notify, Consumed
  <2> QED BY <1>10, <2>4, <2>5 DEF Notify, Consumed, TypeOK
<1>11. ASSUME NEW s \in Services, Commit(s) PROVE TypeOK'
  BY <1>11 DEF Commit, TypeOK
<1>12. ASSUME NEW s \in Services, Emit(s) PROVE TypeOK'
  <2> DEFINE m == outbox[s][published[s] + 1]
  <2>1. m \in Message
    BY <1>12 DEF Emit, TypeOK
  <2>2. log' \in [Topics -> Seq(Message)]
    BY <1>12, <1>t, <2>1, ProduceType DEF Emit
  <2> QED BY <1>12, <2>2 DEF Emit, TypeOK
<1>13. ASSUME NEW s \in Services, Mark(s) PROVE TypeOK'
  BY <1>13 DEF Mark, TypeOK
<1>14. ASSUME NEW s \in Services, MarkFails(s) PROVE TypeOK'
  BY <1>14 DEF MarkFails, TypeOK, Fault
<1>15. ASSUME NEW s \in Services, Restart(s) PROVE TypeOK'
  BY <1>15 DEF Restart, TypeOK, Fault
<1>16. CASE UNCHANGED vars
  BY <1>16 DEF vars, TypeOK
<1> QED
  BY <1>1, <1>2, <1>3, <1>4, <1>5, <1>6, <1>7, <1>8, <1>9, <1>10, <1>11, <1>12,
     <1>13, <1>14, <1>15, <1>16
     DEF Next, Handler, PoisonFails, OutageFails

\* Every reachable state is well typed.
THEOREM TypeCorrect == Spec => []TypeOK
  BY InitType, TypeStep, PTL DEF Spec
-----------------------------------------------------------------------------
(* What a step does to the databases and to the topics. *)

\* A transaction that writes: a new key and the row of its event.
Writes(s, key, type, order, cause) ==
    /\ key \notin db[s]
    /\ db' = [db EXCEPT ![s] = @ \union {key}]
    /\ outbox' = [outbox EXCEPT ![s] =
            Append(@, [id |-> <<s, Len(@) + 1>>, type |-> type,
                       order |-> order, cause |-> cause])]
    /\ UNCHANGED <<sku, log>>

\* The business handlers, with the message each one reacts to.
WritesBusiness ==
    \E s \in BusinessServices, type \in EventTopics, t \in Topics :
        /\ t \in Subscribed(s) \ {"order.redeliver"}
        /\ Owner(type) = s
        /\ \E i \in DOMAIN log[t] :
            LET o == log[t][i].order
            IN  /\ s = "payment" => type = PaymentType(o) /\ sku[o] # "poison"
                /\ Writes(s, o, type, o, "none")

CopiesRow ==
    \E j \in DOMAIN outbox["order"] :
        /\ outbox' = [outbox EXCEPT !["order"] = Append(@, @[j])]
        /\ Logged("order.redeliver", outbox["order"][j].order)
        /\ UNCHANGED <<sku, log, db>>

WritesNotification ==
    \E t \in NotifiedTopics : \E i \in DOMAIN log[t] :
        Writes("notification", log[t][i].id, "notification.sent",
               log[t][i].order, log[t][i].type)

LEMMA DatabaseCases ==
  ASSUME TypeOK, [Next]_vars
  PROVE  \/ UNCHANGED <<db, outbox>>
         \/ WritesBusiness
         \/ CopiesRow
         \/ WritesNotification
<1>1. CASE CreateOrder
  <2>1. /\ "order" \in Services /\ "order.create" \in Topics
        /\ "order" \in BusinessServices
        /\ "order.create" \in Subscribed("order") \ {"order.redeliver"}
        /\ "order.created" \in EventTopics /\ Owner("order.created") = "order"
    BY DEF Services, BusinessServices, Topics, CommandTopics, EventTopics,
           NotifiedTopics, Owner, Subscribed, PaymentTopics, ShippingTopics, RefundTopics
  <2>2. pos["order"]["order.create"] + 1 \in DOMAIN log["order.create"]
    BY <1>1, <2>1, NextMessageType DEF CreateOrder
  <2> DEFINE o == NextMessage("order", "order.create").order
  <2>3. UNCHANGED <<db, outbox>> \/ Writes("order", o, "order.created", o, "none")
    BY <1>1 DEF CreateOrder, SaveOnce, Writes, Consumed
  <2>4. ("order" = "payment") = FALSE
    OBVIOUS
  <2> QED BY <2>1, <2>2, <2>3, <2>4 DEF WritesBusiness, NextMessage
<1>2. CASE RedeliverOrder
  <2>1. "order" \in Services /\ "order.redeliver" \in Topics
    BY DEF Services, Topics, CommandTopics
  <2>2. pos["order"]["order.redeliver"] + 1 \in DOMAIN log["order.redeliver"]
    BY <1>2, <2>1, NextMessageType DEF RedeliverOrder
  <2>3. Logged("order.redeliver", NextMessage("order", "order.redeliver").order)
    BY <2>2 DEF Logged, NextMessage
  <2> QED BY <1>2, <2>3 DEF RedeliverOrder, CopiesRow, Consumed
<1>3. CASE HandleOrderCreated
  <2> DEFINE o == NextMessage("payment", "order.created").order
             type == PaymentType(o)
  <2>1. /\ "payment" \in Services /\ "order.created" \in Topics
        /\ "payment" \in BusinessServices
        /\ "order.created" \in Subscribed("payment") \ {"order.redeliver"}
        /\ type \in EventTopics /\ Owner(type) = "payment"
    BY DEF Services, BusinessServices, Topics, CommandTopics, EventTopics,
           NotifiedTopics, Owner, Subscribed, PaymentTopics, ShippingTopics, RefundTopics, PaymentType
  <2>2. pos["payment"]["order.created"] + 1 \in DOMAIN log["order.created"]
    BY <1>3, <2>1, NextMessageType DEF HandleOrderCreated
  <2>3. sku[o] # "poison"
    BY <1>3 DEF HandleOrderCreated
  <2>4. UNCHANGED <<db, outbox>> \/ Writes("payment", o, type, o, "none")
    BY <1>3 DEF HandleOrderCreated, SaveOnce, Writes, Consumed
  <2> QED BY <2>1, <2>2, <2>3, <2>4 DEF WritesBusiness, NextMessage
<1>4. CASE HandlePaymentSucceeded
  <2>1. /\ "shipping" \in Services /\ "payment.succeeded" \in Topics
        /\ "shipping" \in BusinessServices
        /\ "payment.succeeded" \in Subscribed("shipping") \ {"order.redeliver"}
        /\ "shipment.created" \in EventTopics /\ Owner("shipment.created") = "shipping"
    BY DEF Services, BusinessServices, Topics, CommandTopics, EventTopics,
           NotifiedTopics, Owner, Subscribed, PaymentTopics, ShippingTopics, RefundTopics
  <2>2. pos["shipping"]["payment.succeeded"] + 1 \in DOMAIN log["payment.succeeded"]
    BY <1>4, <2>1, NextMessageType DEF HandlePaymentSucceeded
  <2> DEFINE o == NextMessage("shipping", "payment.succeeded").order
  <2>3. UNCHANGED <<db, outbox>> \/ Writes("shipping", o, "shipment.created", o, "none")
    BY <1>4 DEF HandlePaymentSucceeded, SaveOnce, Writes, Consumed
  <2>4. ("shipping" = "payment") = FALSE
    OBVIOUS
  <2> QED BY <2>1, <2>2, <2>3, <2>4 DEF WritesBusiness, NextMessage
<1>5. CASE HandlePaymentFailed
  <2>1. /\ "refund" \in Services /\ "payment.failed" \in Topics
        /\ "refund" \in BusinessServices
        /\ "payment.failed" \in Subscribed("refund") \ {"order.redeliver"}
        /\ "refund.initiated" \in EventTopics /\ Owner("refund.initiated") = "refund"
    BY DEF Services, BusinessServices, Topics, CommandTopics, EventTopics,
           NotifiedTopics, Owner, Subscribed, PaymentTopics, ShippingTopics, RefundTopics
  <2>2. pos["refund"]["payment.failed"] + 1 \in DOMAIN log["payment.failed"]
    BY <1>5, <2>1, NextMessageType DEF HandlePaymentFailed
  <2> DEFINE o == NextMessage("refund", "payment.failed").order
  <2>3. UNCHANGED <<db, outbox>> \/ Writes("refund", o, "refund.initiated", o, "none")
    BY <1>5 DEF HandlePaymentFailed, SaveOnce, Writes, Consumed
  <2>4. ("refund" = "payment") = FALSE
    OBVIOUS
  <2> QED BY <2>1, <2>2, <2>3, <2>4 DEF WritesBusiness, NextMessage
<1>6. ASSUME NEW t \in NotifiedTopics, Notify(t)
      PROVE  UNCHANGED <<db, outbox>> \/ WritesNotification
  <2>1. "notification" \in Services /\ t \in Topics
    BY DEF Services, Topics, EventTopics
  <2>2. pos["notification"][t] + 1 \in DOMAIN log[t]
    BY <1>6, <2>1, NextMessageType DEF Notify
  <2> DEFINE m == NextMessage("notification", t)
  <2>3. \/ UNCHANGED <<db, outbox>>
        \/ Writes("notification", m.id, "notification.sent", m.order, m.type)
    BY <1>6 DEF Notify, SaveOnce, Writes, Consumed
  <2> QED BY <2>2, <2>3 DEF WritesNotification, NextMessage
<1> QED
  BY <1>1, <1>2, <1>3, <1>4, <1>5, <1>6
     DEF Next, Handler, PoisonFails, OutageFails, DeadLetter, vars, PlaceOrder,
         ResendCommand, AskRedeliver, Commit, Emit, Mark, MarkFails, Restart

\* A topic gains a command, a dead letter or the next row of an outbox.
EmitsRow ==
    \E s \in Services :
        /\ ~ inflight[s]
        /\ inflight' = [inflight EXCEPT ![s] = TRUE]
        /\ published[s] < Len(outbox[s])
        /\ LET m == outbox[s][published[s] + 1] IN Produce(m.type, m)
        /\ UNCHANGED <<published, pos>>

ProducesCommand ==
    \E t \in CommandTopics, o \in Orders :
        /\ Produce(t, Command(t, o))
        /\ t = "order.create" => sku'[o] # "unplaced"
        /\ UNCHANGED <<published, inflight, pos>>

DeadLetters ==
    /\ PoisonFails \/ OutageFails
    /\ HasNext("payment", "order.created")
    /\ Produce("order.created.DLQ", NextMessage("payment", "order.created"))
    /\ Advance("payment", "order.created")
    /\ UNCHANGED <<published, inflight>>

LEMMA TopicCases ==
  ASSUME TypeOK, [Next]_vars
  PROVE  \/ UNCHANGED log
         \/ ProducesCommand /\ UNCHANGED <<db, outbox>>
         \/ EmitsRow /\ UNCHANGED <<sku, db, outbox>>
         \/ DeadLetters /\ UNCHANGED <<sku, db, outbox>>
<1>1. ASSUME NEW o \in Orders, PlaceOrder(o)
      PROVE  ProducesCommand /\ UNCHANGED <<db, outbox>>
  <2>1. sku'[o] # "unplaced" /\ "order.create" \in CommandTopics
    BY <1>1 DEF PlaceOrder, TypeOK, Skus, CommandTopics
  <2> QED BY <1>1, <2>1 DEF PlaceOrder, ProducesCommand
<1>2. ASSUME NEW o \in Orders, ResendCommand(o)
      PROVE  ProducesCommand /\ UNCHANGED <<db, outbox>>
  <2>1. sku'[o] # "unplaced" /\ "order.create" \in CommandTopics
    BY <1>2 DEF ResendCommand, CommandTopics
  <2> QED BY <1>2, <2>1 DEF ResendCommand, ProducesCommand
<1>3. ASSUME NEW o \in Orders, AskRedeliver(o)
      PROVE  ProducesCommand /\ UNCHANGED <<db, outbox>>
  <2>1. "order.redeliver" \in CommandTopics /\ "order.redeliver" # "order.create"
    BY DEF CommandTopics
  <2> QED BY <1>3, <2>1 DEF AskRedeliver, ProducesCommand
<1>4. ASSUME NEW s \in Services, Emit(s)
      PROVE  EmitsRow /\ UNCHANGED <<sku, db, outbox>>
  BY <1>4 DEF Emit, EmitsRow
<1>5. CASE PoisonFails \/ OutageFails
  BY <1>5 DEF PoisonFails, OutageFails, DeadLetter, DeadLetters
<1> QED
  BY <1>1, <1>2, <1>3, <1>4, <1>5
     DEF Next, Handler, vars, CreateOrder, RedeliverOrder, HandleOrderCreated,
         HandlePaymentSucceeded, HandlePaymentFailed, Notify, Consumed,
         Commit, Mark, MarkFails, Restart

\* The rows of the outboxes after row was appended to that of s.
LEMMA OutboxAppend ==
  ASSUME TypeOK, NEW s \in Services, NEW row \in Message,
         outbox' = [outbox EXCEPT ![s] = Append(@, row)]
  PROVE  /\ \A q \in Services : \A j \in DOMAIN outbox[q] :
              j \in DOMAIN outbox'[q] /\ outbox'[q][j] = outbox[q][j]
         /\ \A q \in Services : \A j \in DOMAIN outbox'[q] :
              \/ j \in DOMAIN outbox[q] /\ outbox'[q][j] = outbox[q][j]
              \/ q = s /\ j = Len(outbox[s]) + 1 /\ outbox'[q][j] = row
         /\ Len(outbox[s]) + 1 \in DOMAIN outbox'[s]
         /\ outbox'[s][Len(outbox[s]) + 1] = row
<1>1. outbox \in [Services -> Seq(Message)]
  BY DEF TypeOK
<1>2. outbox[s] \in Seq(Message)
  BY <1>1
<1>3. /\ \A j \in DOMAIN outbox[s] :
           /\ j \in DOMAIN Append(outbox[s], row)
           /\ Append(outbox[s], row)[j] = outbox[s][j]
      /\ \A j \in DOMAIN Append(outbox[s], row) :
           \/ j \in DOMAIN outbox[s] /\ Append(outbox[s], row)[j] = outbox[s][j]
           \/ j = Len(outbox[s]) + 1 /\ Append(outbox[s], row)[j] = row
      /\ Len(outbox[s]) + 1 \in DOMAIN Append(outbox[s], row)
      /\ Append(outbox[s], row)[Len(outbox[s]) + 1] = row
  BY <1>2
<1>4. /\ outbox'[s] = Append(outbox[s], row)
      /\ \A q \in Services : q # s => outbox'[q] = outbox[q]
  BY <1>1
<1> QED
  BY <1>3, <1>4, Zenon

\* The topics after m was produced to topic t.
LEMMA LogAppend ==
  ASSUME TypeOK, NEW t \in Topics, NEW m \in Message, Produce(t, m)
  PROVE  /\ \A u \in Topics : \A i \in DOMAIN log[u] :
              i \in DOMAIN log'[u] /\ log'[u][i] = log[u][i]
         /\ \A u \in Topics : \A i \in DOMAIN log'[u] :
              \/ i \in DOMAIN log[u] /\ log'[u][i] = log[u][i]
              \/ u = t /\ i = Len(log[t]) + 1 /\ log'[u][i] = m
         /\ Len(log[t]) + 1 \in DOMAIN log'[t]
         /\ log'[t][Len(log[t]) + 1] = m
<1>1. log \in [Topics -> Seq(Message)]
  BY DEF TypeOK
<1>2. log[t] \in Seq(Message)
  BY <1>1
<1>3. /\ \A j \in DOMAIN log[t] :
           j \in DOMAIN Append(log[t], m) /\ Append(log[t], m)[j] = log[t][j]
      /\ \A j \in DOMAIN Append(log[t], m) :
           \/ j \in DOMAIN log[t] /\ Append(log[t], m)[j] = log[t][j]
           \/ j = Len(log[t]) + 1 /\ Append(log[t], m)[j] = m
      /\ Len(log[t]) + 1 \in DOMAIN Append(log[t], m)
      /\ Append(log[t], m)[Len(log[t]) + 1] = m
  BY <1>2
<1>4. /\ log'[t] = Append(log[t], m)
      /\ \A u \in Topics : u # t => log'[u] = log[u]
  BY <1>1 DEF Produce
<1> QED
  BY <1>3, <1>4, Zenon

\* The row a transaction writes is a well-typed message.
LEMMA NewRowType ==
  ASSUME TypeOK, NEW s \in Services, NEW type \in Topics, NEW o \in Orders,
         NEW cause \in Topics \union {"none"}
  PROVE  [id |-> <<s, Len(outbox[s]) + 1>>, type |-> type,
          order |-> o, cause |-> cause] \in Message
<1>1. Len(outbox[s]) + 1 \in Nat
  BY DEF TypeOK
<1> QED
  BY <1>1 DEF Message, Ids

LEMMA LoggedType ==
  ASSUME TypeOK, NEW t \in Topics, NEW i \in DOMAIN log[t]
  PROVE  /\ log[t][i] \in Message
         /\ log[t][i].order \in Orders
         /\ log[t][i].type \in Topics
         /\ log[t][i].id \in Ids
<1>1. log[t][i] \in Message
  BY DEF TypeOK
<1> QED BY <1>1 DEF Message

LEMMA RowType ==
  ASSUME TypeOK, NEW s \in Services, NEW j \in DOMAIN outbox[s]
  PROVE  /\ outbox[s][j] \in Message
         /\ outbox[s][j].order \in Orders
         /\ outbox[s][j].type \in Topics
<1>1. outbox[s][j] \in Message
  BY DEF TypeOK
<1> QED BY <1>1 DEF Message

\* The names of the services and topics, for the steps that need only those.
LEMMA Names ==
  /\ BusinessServices \subseteq Services
  /\ "notification" \in Services /\ "notification" \notin BusinessServices
  /\ "order" \in BusinessServices /\ "payment" \in BusinessServices
  /\ NotifiedTopics \subseteq EventTopics /\ EventTopics \subseteq Topics
  /\ "notification.sent" \in EventTopics /\ Owner("notification.sent") = "notification"
  /\ CommandTopics \subseteq Topics /\ CommandTopics \intersect EventTopics = {}
  /\ "order.create" \in Topics
  /\ "order.created.DLQ" \in Topics
  /\ "order.created.DLQ" \notin EventTopics /\ "order.created.DLQ" \notin CommandTopics
  /\ \A t \in EventTopics : Owner(t) \in Services
  /\ \A t \in NotifiedTopics : Owner(t) \in BusinessServices
  /\ \A s \in Services : Subscribed(s) \subseteq Topics
  BY DEF BusinessServices, Services, NotifiedTopics, EventTopics, Topics,
         CommandTopics, Owner, Subscribed, PaymentTopics, ShippingTopics, RefundTopics

\* The four ways a transaction leaves the outboxes, each new row described.
LEMMA RowCases ==
  ASSUME TypeOK, [Next]_vars
  PROVE  \/ UNCHANGED <<db, outbox>>
         \/ \E s \in Services, row \in Message :
              /\ outbox' = [outbox EXCEPT ![s] = Append(@, row)]
              /\ \/ /\ s \in BusinessServices
                    /\ row.type \in EventTopics /\ Owner(row.type) = s
                    /\ row.id = <<s, Len(outbox[s]) + 1>>
                    /\ row.order \notin db[s]
                    /\ db' = [db EXCEPT ![s] = @ \union {row.order}]
                    /\ \E t \in Subscribed(s) \ {"order.redeliver"} :
                         \E i \in DOMAIN log[t] : log[t][i].order = row.order
                    /\ s = "payment" =>
                         row.type = PaymentType(row.order) /\ sku[row.order] # "poison"
                    /\ UNCHANGED <<sku, log>>
                 \/ /\ s = "order"
                    /\ \E j \in DOMAIN outbox[s] : row = outbox[s][j]
                    /\ Logged("order.redeliver", row.order)
                    /\ UNCHANGED <<sku, log, db>>
                 \/ /\ s = "notification"
                    /\ row.type = "notification.sent"
                    /\ row.id = <<s, Len(outbox[s]) + 1>>
                    /\ \E t \in NotifiedTopics : \E i \in DOMAIN log[t] :
                         /\ Announces(row, log[t][i])
                         /\ log[t][i].id \notin db[s]
                         /\ db' = [db EXCEPT ![s] = @ \union {log[t][i].id}]
                    /\ UNCHANGED <<sku, log>>
<1>1. CASE WritesBusiness
  <2>1. PICK s \in BusinessServices, type \in EventTopics, t \in Topics :
          /\ t \in Subscribed(s) \ {"order.redeliver"}
          /\ Owner(type) = s
          /\ \E i \in DOMAIN log[t] :
              LET o == log[t][i].order
              IN  /\ s = "payment" => type = PaymentType(o) /\ sku[o] # "poison"
                  /\ Writes(s, o, type, o, "none")
    BY <1>1 DEF WritesBusiness
  <2>2. PICK i \in DOMAIN log[t] :
          /\ s = "payment" => /\ type = PaymentType(log[t][i].order)
                              /\ sku[log[t][i].order] # "poison"
          /\ Writes(s, log[t][i].order, type, log[t][i].order, "none")
    BY <2>1
  <2> DEFINE o == log[t][i].order
             row == [id |-> <<s, Len(outbox[s]) + 1>>, type |-> type,
                     order |-> o, cause |-> "none"]
  <2>3. o \in Orders
    BY LoggedType
  <2>4. s \in Services /\ type \in Topics /\ row \in Message
    BY <2>3, Names, NewRowType
  <2>5. /\ row.type = type /\ row.order = o
        /\ row.id = <<s, Len(outbox[s]) + 1>>
    OBVIOUS
  <2>6. /\ outbox' = [outbox EXCEPT ![s] = Append(@, row)]
        /\ o \notin db[s]
        /\ db' = [db EXCEPT ![s] = @ \union {o}]
        /\ UNCHANGED <<sku, log>>
    BY <2>2 DEF Writes
  <2> HIDE DEF row
  <2> QED BY <2>1, <2>2, <2>4, <2>5, <2>6
<1>2. CASE CopiesRow
  <2>1. PICK j \in DOMAIN outbox["order"] :
          /\ outbox' = [outbox EXCEPT !["order"] = Append(@, outbox["order"][j])]
          /\ Logged("order.redeliver", outbox["order"][j].order)
          /\ UNCHANGED <<sku, log, db>>
    BY <1>2 DEF CopiesRow
  <2>2. "order" \in Services /\ outbox["order"][j] \in Message
    BY RowType, Names
  <2> QED BY <2>1, <2>2
<1>3. CASE WritesNotification
  <2>1. PICK t \in NotifiedTopics : \E i \in DOMAIN log[t] :
          Writes("notification", log[t][i].id, "notification.sent",
                 log[t][i].order, log[t][i].type)
    BY <1>3 DEF WritesNotification
  <2>2. PICK i \in DOMAIN log[t] :
          Writes("notification", log[t][i].id, "notification.sent",
                 log[t][i].order, log[t][i].type)
    BY <2>1
  <2> DEFINE s == "notification"
             row == [id |-> <<s, Len(outbox[s]) + 1>>, type |-> "notification.sent",
                     order |-> log[t][i].order, cause |-> log[t][i].type]
  <2>3. t \in Topics /\ s \in Services /\ "notification.sent" \in Topics
    BY Names
  <2>4. row \in Message
    BY <2>3, LoggedType, NewRowType
  <2>5. /\ row.type = "notification.sent"
        /\ row.id = <<s, Len(outbox[s]) + 1>>
        /\ Announces(row, log[t][i])
    BY DEF Announces
  <2>6. /\ outbox' = [outbox EXCEPT ![s] = Append(@, row)]
        /\ log[t][i].id \notin db[s]
        /\ db' = [db EXCEPT ![s] = @ \union {log[t][i].id}]
        /\ UNCHANGED <<sku, log>>
    BY <2>2 DEF Writes
  <2> HIDE DEF row
  <2> QED BY <2>3, <2>4, <2>5, <2>6
<1> QED
  BY <1>1, <1>2, <1>3, DatabaseCases

\* Rows, messages and keys stay, and an order's items do not change.
Grows ==
    /\ \A s \in Services : \A j \in DOMAIN outbox[s] :
        j \in DOMAIN outbox'[s] /\ outbox'[s][j] = outbox[s][j]
    /\ \A t \in Topics : \A i \in DOMAIN log[t] :
        i \in DOMAIN log'[t] /\ log'[t][i] = log[t][i]
    /\ \A s \in Services : db[s] \subseteq db'[s]
    /\ \A o \in Orders : sku[o] # "unplaced" => sku'[o] = sku[o]

LEMMA OnlyGrows ==
  ASSUME TypeOK, [Next]_vars
  PROVE  Grows
<1>1. \A s \in Services : \A j \in DOMAIN outbox[s] :
        j \in DOMAIN outbox'[s] /\ outbox'[s][j] = outbox[s][j]
  <2>1. CASE UNCHANGED outbox
    BY <2>1
  <2>2. ASSUME NEW s \in Services, NEW row \in Message,
               outbox' = [outbox EXCEPT ![s] = Append(@, row)]
        PROVE  \A q \in Services : \A j \in DOMAIN outbox[q] :
                 j \in DOMAIN outbox'[q] /\ outbox'[q][j] = outbox[q][j]
    BY <2>2, OutboxAppend
  <2> QED BY <2>1, <2>2, RowCases
<1>2. \A t \in Topics : \A i \in DOMAIN log[t] :
        i \in DOMAIN log'[t] /\ log'[t][i] = log[t][i]
  <2>1. CASE UNCHANGED log
    BY <2>1
  <2>2. ASSUME NEW t \in Topics, NEW m \in Message, Produce(t, m)
        PROVE  \A u \in Topics : \A i \in DOMAIN log[u] :
                 i \in DOMAIN log'[u] /\ log'[u][i] = log[u][i]
    BY <2>2, LogAppend
  <2>3. CASE ProducesCommand
    BY <2>2, <2>3, CommandType, Names DEF ProducesCommand
  <2>4. CASE EmitsRow
    <3>1. PICK s \in Services :
            /\ published[s] < Len(outbox[s])
            /\ LET m == outbox[s][published[s] + 1] IN Produce(m.type, m)
      BY <2>4 DEF EmitsRow
    <3>2. published[s] + 1 \in DOMAIN outbox[s]
      BY <3>1 DEF TypeOK
    <3> QED BY <2>2, <3>1, <3>2, RowType
  <2>5. CASE DeadLetters
    <3>1. "payment" \in Services /\ "order.created" \in Topics
      BY DEF Services, Topics, EventTopics, NotifiedTopics
    <3> QED BY <2>2, <2>5, <3>1, NextMessageType, Names DEF DeadLetters
  <2> QED BY <2>1, <2>3, <2>4, <2>5, TopicCases
<1>3. \A s \in Services : db[s] \subseteq db'[s]
  <2>1. ASSUME NEW q \in Services, NEW key, db' = [db EXCEPT ![q] = @ \union {key}]
        PROVE  \A s \in Services : db[s] \subseteq db'[s]
    BY <2>1 DEF TypeOK
  <2> QED BY <2>1, RowCases
<1>4. \A o \in Orders : sku[o] # "unplaced" => sku'[o] = sku[o]
  <2>1. ASSUME NEW p \in Orders, PlaceOrder(p)
        PROVE  \A o \in Orders : sku[o] # "unplaced" => sku'[o] = sku[o]
    BY <2>1 DEF PlaceOrder, TypeOK
  <2>2. (\A o \in Orders : ~ PlaceOrder(o)) => UNCHANGED sku
    BY DEF Next, Handler, PoisonFails, OutageFails, DeadLetter, vars, ResendCommand,
           AskRedeliver, Commit, Emit, Mark, MarkFails, Restart, CreateOrder,
           RedeliverOrder, HandleOrderCreated, HandlePaymentSucceeded,
           HandlePaymentFailed, Notify, Consumed
  <2> QED BY <2>1, <2>2
<1> QED BY <1>1, <1>2, <1>3, <1>4 DEF Grows

-----------------------------------------------------------------------------
(* The parts of the inductive invariant about the databases. *)

LEMMA RowsAreOwnedStep ==
  ASSUME TypeOK, [Next]_vars, RowsAreOwned
  PROVE  RowsAreOwned'
<1>1. CASE UNCHANGED outbox
  BY <1>1 DEF RowsAreOwned
<1>2. ASSUME NEW s \in Services, NEW row \in Message,
             outbox' = [outbox EXCEPT ![s] = Append(@, row)],
             row.type \in EventTopics, Owner(row.type) = s
      PROVE  RowsAreOwned'
  BY <1>2, OutboxAppend DEF RowsAreOwned
<1> QED
  BY <1>1, <1>2, RowCases, Names DEF RowsAreOwned

LEMMA IdsAreFreshStep ==
  ASSUME TypeOK, [Next]_vars, IdsAreFresh
  PROVE  IdsAreFresh'
<1>1. CASE UNCHANGED outbox
  BY <1>1 DEF IdsAreFresh
<1>2. ASSUME NEW s \in Services, NEW row \in Message,
             outbox' = [outbox EXCEPT ![s] = Append(@, row)],
             \/ row.id = <<s, Len(outbox[s]) + 1>>
             \/ \E j \in DOMAIN outbox[s] : row = outbox[s][j]
      PROVE  IdsAreFresh'
  <2> DEFINE n == Len(outbox[s]) + 1
  <2>1. /\ \A q \in Services : \A j \in DOMAIN outbox'[q] :
            \/ j \in DOMAIN outbox[q] /\ outbox'[q][j] = outbox[q][j]
            \/ q = s /\ j = n /\ outbox'[q][j] = row
    BY <1>2, OutboxAppend
  <2>2. n \in Nat /\ \A j \in DOMAIN outbox[s] : j \in Nat /\ j < n
    BY DEF TypeOK
  <2>3. row.id[1] = s /\ row.id[2] <= n
    <3>1. CASE row.id = <<s, n>>
      BY <2>2, <3>1
    <3>2. CASE \E j \in DOMAIN outbox[s] : row = outbox[s][j]
      <4>1. PICK j \in DOMAIN outbox[s] : row = outbox[s][j]
        BY <3>2
      <4>2. row.id[2] \in Nat
        BY DEF Message, Ids
      <4> QED BY <2>2, <4>1, <4>2 DEF IdsAreFresh
    <3> QED BY <1>2, <3>1, <3>2
  <2>4. \A i \in DOMAIN outbox[s] : outbox[s][i].id = row.id => outbox[s][i] = row
    <3>1. CASE row.id = <<s, n>>
      <4>1. \A i \in DOMAIN outbox[s] : outbox[s][i].id[2] \in Nat /\ outbox[s][i].id[2] < n
        <5>1. ASSUME NEW i \in DOMAIN outbox[s] PROVE outbox[s][i].id[2] \in Nat
          BY RowType DEF Message, Ids
        <5> QED BY <2>2, <5>1 DEF IdsAreFresh
      <4> QED BY <2>2, <3>1, <4>1
    <3>2. CASE \E j \in DOMAIN outbox[s] : row = outbox[s][j]
      BY <3>2 DEF IdsAreFresh
    <3> QED BY <1>2, <3>1, <3>2
  <2> HIDE DEF n
  <2> SUFFICES ASSUME NEW q \in Services, NEW j \in DOMAIN outbox'[q]
               PROVE  /\ outbox'[q][j].id[1] = q
                      /\ outbox'[q][j].id[2] <= j
                      /\ \A i \in DOMAIN outbox'[q] :
                          outbox'[q][i].id = outbox'[q][j].id => outbox'[q][i] = outbox'[q][j]
    BY DEF IdsAreFresh
  <2>5. outbox'[q][j].id[1] = q /\ outbox'[q][j].id[2] <= j
    BY <2>1, <2>3 DEF IdsAreFresh
  <2>6. ASSUME NEW i \in DOMAIN outbox'[q], outbox'[q][i].id = outbox'[q][j].id
        PROVE  outbox'[q][i] = outbox'[q][j]
    <3>1. CASE i \in DOMAIN outbox[q] /\ outbox'[q][i] = outbox[q][i]
      BY <2>1, <2>4, <2>6, <3>1 DEF IdsAreFresh
    <3>2. CASE q = s /\ i = n /\ outbox'[q][i] = row
      BY <2>1, <2>4, <2>6, <3>2 DEF IdsAreFresh
    <3> QED BY <2>1, <3>1, <3>2
  <2> QED BY <2>5, <2>6
<1> QED
  BY <1>1, <1>2, RowCases

LEMMA RowsMatchKeysStep ==
  ASSUME TypeOK, [Next]_vars, RowsMatchKeys
  PROVE  RowsMatchKeys'
<1>1. CASE UNCHANGED <<db, outbox>>
  BY <1>1 DEF RowsMatchKeys
<1>2. ASSUME NEW s \in Services, NEW row \in Message, NEW key,
             outbox' = [outbox EXCEPT ![s] = Append(@, row)],
             db' = [db EXCEPT ![s] = @ \union {key}],
             s \in BusinessServices => key = row.order
      PROVE  RowsMatchKeys'
  <2>1. \A q \in Services : db'[q] = IF q = s THEN db[q] \union {key} ELSE db[q]
    BY <1>2 DEF TypeOK
  <2>2. /\ \A q \in Services : \A j \in DOMAIN outbox[q] :
              j \in DOMAIN outbox'[q] /\ outbox'[q][j] = outbox[q][j]
        /\ \A q \in Services : \A j \in DOMAIN outbox'[q] :
              \/ j \in DOMAIN outbox[q] /\ outbox'[q][j] = outbox[q][j]
              \/ q = s /\ outbox'[q][j] = row
        /\ Len(outbox[s]) + 1 \in DOMAIN outbox'[s]
        /\ outbox'[s][Len(outbox[s]) + 1] = row
    <3>1. outbox' = [outbox EXCEPT ![s] = Append(@, row)]
      BY <1>2
    <3>2. \A q \in Services : \A j \in DOMAIN outbox[q] :
            j \in DOMAIN outbox'[q] /\ outbox'[q][j] = outbox[q][j]
      BY <3>1, OutboxAppend
    <3>3. \A q \in Services : \A j \in DOMAIN outbox'[q] :
            \/ j \in DOMAIN outbox[q] /\ outbox'[q][j] = outbox[q][j]
            \/ q = s /\ outbox'[q][j] = row
      BY <3>1, OutboxAppend
    <3>4. /\ Len(outbox[s]) + 1 \in DOMAIN outbox'[s]
          /\ outbox'[s][Len(outbox[s]) + 1] = row
      BY <3>1, OutboxAppend
    <3> QED BY <3>2, <3>3, <3>4
  <2> SUFFICES ASSUME NEW q \in BusinessServices
               PROVE  /\ \A j \in DOMAIN outbox'[q] : outbox'[q][j].order \in db'[q]
                      /\ \A k \in db'[q] : \E j \in DOMAIN outbox'[q] : outbox'[q][j].order = k
    BY DEF RowsMatchKeys
  <2>q. q \in Services
    BY DEF BusinessServices
  <2>o. /\ \A j \in DOMAIN outbox[q] : outbox[q][j].order \in db[q]
        /\ \A k \in db[q] : \E j \in DOMAIN outbox[q] : outbox[q][j].order = k
    BY DEF RowsMatchKeys
  <2>d. db'[q] = IF q = s THEN db[q] \union {key} ELSE db[q]
    BY <2>1, <2>q
  <2>3. ASSUME NEW j \in DOMAIN outbox'[q]
        PROVE  outbox'[q][j].order \in db'[q]
    <3>1. CASE j \in DOMAIN outbox[q] /\ outbox'[q][j] = outbox[q][j]
      BY <2>o, <2>d, <3>1
    <3>2. CASE q = s /\ outbox'[q][j] = row
      BY <1>2, <2>d, <3>2
    <3> QED BY <2>2, <2>3, <2>q, <3>1, <3>2
  <2>4. ASSUME NEW k \in db'[q]
        PROVE  \E j \in DOMAIN outbox'[q] : outbox'[q][j].order = k
    <3>1. CASE k \in db[q]
      BY <2>2, <2>o, <2>q, <3>1
    <3>2. CASE q = s /\ k = key
      BY <1>2, <2>2, <3>2
    <3> QED BY <2>d, <2>4, <3>1, <3>2
  <2> QED BY <2>3, <2>4
<1>3. ASSUME NEW row \in Message, NEW j \in DOMAIN outbox["order"], row = outbox["order"][j],
             outbox' = [outbox EXCEPT !["order"] = Append(@, row)], UNCHANGED db
      PROVE  RowsMatchKeys'
  <2>1. "order" \in Services
    BY Names
  <2>2. /\ \A q \in Services : \A i \in DOMAIN outbox[q] :
              i \in DOMAIN outbox'[q] /\ outbox'[q][i] = outbox[q][i]
        /\ \A q \in Services : \A i \in DOMAIN outbox'[q] :
              \E h \in DOMAIN outbox[q] : outbox'[q][i] = outbox[q][h]
    BY <1>3, <2>1, OutboxAppend
  <2> SUFFICES ASSUME NEW q \in BusinessServices
               PROVE  /\ \A i \in DOMAIN outbox'[q] : outbox'[q][i].order \in db'[q]
                      /\ \A k \in db'[q] : \E i \in DOMAIN outbox'[q] : outbox'[q][i].order = k
    BY DEF RowsMatchKeys
  <2>3. q \in Services /\ db'[q] = db[q]
    BY <1>3 DEF BusinessServices
  <2>4. \A i \in DOMAIN outbox'[q] : outbox'[q][i].order \in db[q]
    BY <2>2, <2>3 DEF RowsMatchKeys
  <2>5. \A k \in db[q] : \E i \in DOMAIN outbox'[q] : outbox'[q][i].order = k
    BY <2>2, <2>3 DEF RowsMatchKeys
  <2> QED BY <2>3, <2>4, <2>5
<1> QED
  BY <1>1, <1>2, <1>3, RowCases, Names

LEMMA OneRowPerOrderStep ==
  ASSUME TypeOK, [Next]_vars, RowsMatchKeys, OneRowPerOrder
  PROVE  OneRowPerOrder'
<1>1. CASE UNCHANGED outbox
  BY <1>1 DEF OneRowPerOrder
<1>2. ASSUME NEW s \in Services, NEW row \in Message,
             outbox' = [outbox EXCEPT ![s] = Append(@, row)],
             s \in BusinessServices => row.order \notin db[s]
                                       \/ \E j \in DOMAIN outbox[s] : row = outbox[s][j]
      PROVE  OneRowPerOrder'
  <2>1. \A q \in Services : \A j \in DOMAIN outbox'[q] :
            \/ j \in DOMAIN outbox[q] /\ outbox'[q][j] = outbox[q][j]
            \/ q = s /\ outbox'[q][j] = row
    BY <1>2, OutboxAppend
  <2>2. s \in BusinessServices =>
          \A i \in DOMAIN outbox[s] : outbox[s][i].order = row.order => outbox[s][i] = row
    BY <1>2, Names DEF RowsMatchKeys, OneRowPerOrder
  <2> QED BY <2>1, <2>2, Names DEF OneRowPerOrder
<1> QED
  BY <1>1, <1>2, RowCases, Names

\* Every order with a row somewhere was placed, so its items no longer change.
LEMMA SettledItems ==
  ASSUME TypeOK, [Next]_vars, Causality, NEW s \in BusinessServices,
         NEW o \in Orders, o \in db[s]
  PROVE  sku[o] # "unplaced" /\ sku'[o] = sku[o]
<1>1. sku[o] # "unplaced"
  BY DEF Causality, BusinessServices, Services
<1> QED
  BY <1>1, OnlyGrows DEF Grows

LEMMA PaymentRowsStep ==
  ASSUME TypeOK, [Next]_vars, RowsMatchKeys, Causality, PaymentRowsFollowItems
  PROVE  PaymentRowsFollowItems'
<1> USE DEF PaymentType
<1>1. ASSUME NEW j \in DOMAIN outbox["payment"]
      PROVE  sku'[outbox["payment"][j].order] = sku[outbox["payment"][j].order]
  <2>1. /\ outbox["payment"][j].order \in Orders
        /\ outbox["payment"][j].order \in db["payment"]
    BY Names, RowType DEF RowsMatchKeys
  <2> QED BY <2>1, SettledItems, Names
<1>2. CASE UNCHANGED outbox
  BY <1>1, <1>2 DEF PaymentRowsFollowItems, PaymentType
<1>3. ASSUME NEW s \in Services, NEW row \in Message,
             outbox' = [outbox EXCEPT ![s] = Append(@, row)],
             UNCHANGED sku,
             s = "payment" => row.type = PaymentType(row.order)
      PROVE  PaymentRowsFollowItems'
  <2>1. \A j \in DOMAIN outbox'["payment"] :
            \/ j \in DOMAIN outbox["payment"] /\ outbox'["payment"][j] = outbox["payment"][j]
            \/ "payment" = s /\ outbox'["payment"][j] = row
    BY <1>3, OutboxAppend, Names
  <2> QED BY <1>1, <1>3, <2>1 DEF PaymentRowsFollowItems, PaymentType
<1>4. "payment" # "order" /\ "payment" # "notification"
  OBVIOUS
<1> QED
  BY <1>2, <1>3, <1>4, RowCases

-----------------------------------------------------------------------------
(* The parts about the topics and the relays. *)

\* A topic of events grows only by a relay's next row.
LEMMA EventTopicCases ==
  ASSUME TypeOK, [Next]_vars, RowsAreOwned, NEW t \in EventTopics, NEW i \in DOMAIN log'[t]
  PROVE  \/ i \in DOMAIN log[t] /\ log'[t][i] = log[t][i]
         \/ /\ UNCHANGED <<sku, db, outbox>>
            /\ log'[t][i].type = t
            /\ \E j \in DOMAIN outbox[Owner(t)] : log'[t][i] = outbox[Owner(t)][j]
<1>0. t \in Topics
  BY Names
<1>1. CASE UNCHANGED log
  BY <1>1
<1>2. ASSUME NEW u \in Topics, NEW m \in Message, Produce(u, m), u \notin EventTopics
      PROVE  i \in DOMAIN log[t] /\ log'[t][i] = log[t][i]
  BY <1>0, <1>2, LogAppend
<1>3. CASE ProducesCommand
  BY <1>2, <1>3, CommandType, Names DEF ProducesCommand
<1>4. CASE DeadLetters
  <2>1. "payment" \in Services /\ "order.created" \in Topics
    BY DEF Services, Topics, EventTopics, NotifiedTopics
  <2> QED BY <1>2, <1>4, <2>1, NextMessageType, Names DEF DeadLetters
<1>5. CASE EmitsRow /\ UNCHANGED <<sku, db, outbox>>
  <2>1. PICK s \in Services :
          /\ published[s] < Len(outbox[s])
          /\ LET m == outbox[s][published[s] + 1] IN Produce(m.type, m)
    BY <1>5 DEF EmitsRow
  <2> DEFINE m == outbox[s][published[s] + 1]
  <2>2. published[s] + 1 \in DOMAIN outbox[s]
    BY <2>1 DEF TypeOK
  <2>3. m \in Message /\ m.type \in Topics /\ Owner(m.type) = s
    BY <2>2, RowType DEF RowsAreOwned
  <2>4. Produce(m.type, m)
    BY <2>1
  <2>5. \/ i \in DOMAIN log[t] /\ log'[t][i] = log[t][i]
        \/ t = m.type /\ log'[t][i] = m
    <3> HIDE DEF m
    <3> QED BY <1>0, <2>3, <2>4, LogAppend
  <2> QED BY <1>5, <2>2, <2>3, <2>5
<1> QED
  BY <1>1, <1>3, <1>4, <1>5, TopicCases

LEMMA LoggedFromOutboxStep ==
  ASSUME TypeOK, [Next]_vars, RowsAreOwned, LoggedFromOutbox
  PROVE  LoggedFromOutbox'
<1> SUFFICES ASSUME NEW t \in EventTopics, NEW i \in DOMAIN log'[t]
             PROVE  /\ log'[t][i].type = t
                    /\ \E j \in DOMAIN outbox'[Owner(t)] : outbox'[Owner(t)][j] = log'[t][i]
  BY DEF LoggedFromOutbox
<1>1. Owner(t) \in Services
  BY Names
<1>2. \A j \in DOMAIN outbox[Owner(t)] :
        j \in DOMAIN outbox'[Owner(t)] /\ outbox'[Owner(t)][j] = outbox[Owner(t)][j]
  BY <1>1, OnlyGrows DEF Grows
<1>3. CASE i \in DOMAIN log[t] /\ log'[t][i] = log[t][i]
  BY <1>2, <1>3 DEF LoggedFromOutbox
<1>4. CASE /\ log'[t][i].type = t
           /\ \E j \in DOMAIN outbox[Owner(t)] : log'[t][i] = outbox[Owner(t)][j]
  BY <1>2, <1>4
<1> QED
  BY <1>3, <1>4, EventTopicCases

\* How a step moves a relay.
LEMMA RelayCases ==
  ASSUME TypeOK, [Next]_vars
  PROVE  \/ UNCHANGED <<published, inflight>>
         \/ EmitsRow /\ UNCHANGED outbox
         \/ \E s \in Services :
              /\ inflight[s]
              /\ published' = [published EXCEPT ![s] = @ + 1]
              /\ inflight' = [inflight EXCEPT ![s] = FALSE]
              /\ UNCHANGED <<outbox, log>>
         \/ \E s \in Services :
              /\ inflight' = [inflight EXCEPT ![s] = FALSE]
              /\ UNCHANGED <<published, outbox, log>>
  BY DEF Next, Handler, PoisonFails, OutageFails, DeadLetter, vars, PlaceOrder,
         ResendCommand, AskRedeliver, Commit, Emit, EmitsRow, Mark, MarkFails, Restart,
         CreateOrder, RedeliverOrder, HandleOrderCreated, HandlePaymentSucceeded,
         HandlePaymentFailed, Notify, Consumed

\* Row n of the outbox of s is in its topic.
RowLogged(s, n) ==
    \E i \in DOMAIN log[outbox[s][n].type] : log[outbox[s][n].type][i] = outbox[s][n]

LEMMA RowLoggedStays ==
  ASSUME TypeOK, [Next]_vars, NEW s \in Services, NEW n \in DOMAIN outbox[s], RowLogged(s, n)
  PROVE  RowLogged(s, n)'
<1>1. outbox'[s][n] = outbox[s][n] /\ outbox[s][n].type \in Topics
  BY OnlyGrows, RowType DEF Grows
<1> QED
  BY <1>1, OnlyGrows DEF Grows, RowLogged

LEMMA OutboxLength ==
  ASSUME TypeOK, TypeOK', Grows, NEW s \in Services
  PROVE  /\ Len(outbox[s]) \in Nat /\ Len(outbox'[s]) \in Nat
         /\ Len(outbox[s]) <= Len(outbox'[s])
         /\ DOMAIN outbox[s] = 1..Len(outbox[s])
<1>1. outbox[s] \in Seq(Message) /\ outbox'[s] \in Seq(Message)
  BY DEF TypeOK
<1>2. \A j \in DOMAIN outbox[s] : j \in DOMAIN outbox'[s]
  BY DEF Grows
<1>3. DOMAIN outbox[s] = 1..Len(outbox[s]) /\ DOMAIN outbox'[s] = 1..Len(outbox'[s])
      /\ Len(outbox[s]) \in Nat /\ Len(outbox'[s]) \in Nat
  BY <1>1
<1> QED
  BY <1>2, <1>3

LEMMA LogLength ==
  ASSUME TypeOK, TypeOK', Grows, NEW t \in Topics
  PROVE  /\ Len(log[t]) \in Nat /\ Len(log'[t]) \in Nat
         /\ Len(log[t]) <= Len(log'[t])
         /\ DOMAIN log[t] = 1..Len(log[t])
         /\ DOMAIN log'[t] = 1..Len(log'[t])
<1>1. log[t] \in Seq(Message) /\ log'[t] \in Seq(Message)
  BY DEF TypeOK
<1>2. \A j \in DOMAIN log[t] : j \in DOMAIN log'[t]
  BY DEF Grows
<1>3. DOMAIN log[t] = 1..Len(log[t]) /\ DOMAIN log'[t] = 1..Len(log'[t])
      /\ Len(log[t]) \in Nat /\ Len(log'[t]) \in Nat
  BY <1>1
<1> QED
  BY <1>2, <1>3

LEMMA RelayStep ==
  ASSUME TypeOK, [Next]_vars, RelayBounded, PublishedIsLogged
  PROVE  RelayBounded' /\ PublishedIsLogged'
<1>t. TypeOK' /\ Grows
  BY TypeStep, OnlyGrows
<1>a. \A s \in Services : \A j \in 1..published[s] : RowLogged(s, j)
  BY DEF PublishedIsLogged, RowLogged
<1>b. \A s \in Services :
        /\ published[s] \in Nat
        /\ published[s] <= Len(outbox[s])
        /\ inflight[s] => /\ published[s] < Len(outbox[s])
                          /\ RowLogged(s, published[s] + 1)
  BY DEF RelayBounded, RowLogged, TypeOK
<1>c. SUFFICES ASSUME NEW s \in Services
      PROVE  /\ \A j \in 1..published'[s] : RowLogged(s, j)'
             /\ published'[s] <= Len(outbox'[s])
             /\ inflight'[s] => published'[s] < Len(outbox'[s])
             /\ \A n \in Nat : inflight'[s] /\ n = published'[s] + 1 => RowLogged(s, n)'
  <2>1. TypeOK' => \A s \in Services : published'[s] + 1 \in Nat
    BY DEF TypeOK
  <2> QED BY <1>t, <2>1 DEF RelayBounded, PublishedIsLogged, RowLogged
<1>l. /\ Len(outbox[s]) \in Nat /\ Len(outbox'[s]) \in Nat
      /\ Len(outbox[s]) <= Len(outbox'[s])
      /\ DOMAIN outbox[s] = 1..Len(outbox[s])
  BY <1>t, OutboxLength
<1>s. \A n \in 1..Len(outbox[s]) : RowLogged(s, n) => RowLogged(s, n)'
  BY <1>l, RowLoggedStays
<1>1. CASE published'[s] = published[s] /\ (inflight'[s] => inflight[s])
  <2>0. \A j \in 1..published[s] : j \in 1..Len(outbox[s]) /\ RowLogged(s, j)
    BY <1>a, <1>b, <1>l
  <2>1. \A j \in 1..published'[s] : RowLogged(s, j)'
    BY <1>1, <2>0, <1>s
  <2>2. published'[s] <= Len(outbox'[s])
    BY <1>1, <1>b, <1>l
  <2>3. inflight'[s] => published'[s] < Len(outbox'[s])
    BY <1>1, <1>b, <1>l
  <2>4. \A n \in Nat : inflight'[s] /\ n = published'[s] + 1 => RowLogged(s, n)'
    BY <1>1, <1>b, <1>l, <1>s
  <2> QED BY <2>1, <2>2, <2>3, <2>4
<1>2. CASE inflight[s] /\ published'[s] = published[s] + 1 /\ ~ inflight'[s]
  <2>0. \A j \in 1..(published[s] + 1) : j \in 1..Len(outbox[s]) /\ RowLogged(s, j)
    BY <1>2, <1>a, <1>b, <1>l
  <2>1. \A j \in 1..published'[s] : RowLogged(s, j)'
    BY <1>2, <2>0, <1>s
  <2>2. published'[s] <= Len(outbox'[s])
    BY <1>2, <1>b, <1>l
  <2> QED BY <1>2, <2>1, <2>2
<1>3. CASE /\ published'[s] = published[s] /\ published[s] < Len(outbox[s])
           /\ UNCHANGED outbox
           /\ LET m == outbox[s][published[s] + 1] IN Produce(m.type, m)
  <2> DEFINE n == published[s] + 1
  <2>1. n \in DOMAIN outbox[s]
    BY <1>3, <1>b, <1>l
  <2>2. outbox[s][n] \in Message /\ outbox[s][n].type \in Topics
    BY <2>1, RowType
  <2>3. RowLogged(s, n)'
    <3>1. Produce(outbox[s][n].type, outbox[s][n])
      BY <1>3
    <3>2. \E i \in DOMAIN log'[outbox[s][n].type] : log'[outbox[s][n].type][i] = outbox[s][n]
      BY <2>2, <3>1, LogAppend
    <3> QED BY <1>3, <3>2 DEF RowLogged
  <2>4. \A j \in 1..published[s] : j \in 1..Len(outbox[s]) /\ RowLogged(s, j)
    BY <1>a, <1>b, <1>l
  <2>5. \A j \in 1..published'[s] : RowLogged(s, j)'
    BY <1>3, <2>4, <1>s
  <2> QED BY <1>3, <1>b, <1>l, <2>3, <2>5
<1> QED
  <2>1. CASE UNCHANGED <<published, inflight>>
    BY <2>1, <1>1
  <2>2. CASE EmitsRow /\ UNCHANGED outbox
    <3>1. PICK q \in Services :
            /\ inflight' = [inflight EXCEPT ![q] = TRUE]
            /\ published[q] < Len(outbox[q])
            /\ LET m == outbox[q][published[q] + 1] IN Produce(m.type, m)
            /\ UNCHANGED published
      BY <2>2 DEF EmitsRow
    <3>2. CASE s = q
      BY <2>2, <3>1, <3>2, <1>3
    <3>3. CASE s # q
      <4>1. inflight'[s] = inflight[s]
        BY <3>1, <3>3 DEF TypeOK
      <4> QED BY <3>1, <4>1, <1>1
    <3> QED BY <3>2, <3>3
  <2>3. ASSUME NEW q \in Services, inflight[q],
               published' = [published EXCEPT ![q] = @ + 1],
               inflight' = [inflight EXCEPT ![q] = FALSE]
        PROVE  \/ published'[s] = published[s] /\ (inflight'[s] => inflight[s])
               \/ inflight[s] /\ published'[s] = published[s] + 1 /\ ~ inflight'[s]
    BY <2>3 DEF TypeOK
  <2>4. ASSUME NEW q \in Services, inflight' = [inflight EXCEPT ![q] = FALSE],
               UNCHANGED published
        PROVE  published'[s] = published[s] /\ (inflight'[s] => inflight[s])
    BY <2>4 DEF TypeOK
  <2> QED BY <1>1, <1>2, <2>1, <2>2, <2>3, <2>4, RelayCases

-----------------------------------------------------------------------------
(* The offsets. *)

LEMMA OffsetCases ==
  ASSUME TypeOK, [Next]_vars
  PROVE  \/ UNCHANGED <<pos, committed>>
         \/ \E s \in Services, t \in Topics :
              HasNext(s, t) /\ Advance(s, t) /\ UNCHANGED committed
         \/ \E s \in Services :
              committed' = [committed EXCEPT ![s] = pos[s]] /\ UNCHANGED pos
         \/ \E s \in Services :
              pos' = [pos EXCEPT ![s] = committed[s]] /\ UNCHANGED committed
<1>1. /\ "order" \in Services /\ "payment" \in Services /\ "shipping" \in Services
      /\ "refund" \in Services /\ "notification" \in Services
      /\ CommandTopics \subseteq Topics /\ NotifiedTopics \subseteq Topics
      /\ "order.create" \in Topics /\ "order.redeliver" \in Topics
      /\ "order.created" \in Topics /\ "payment.succeeded" \in Topics
      /\ "payment.failed" \in Topics
  BY DEF Services, Topics, EventTopics, NotifiedTopics, CommandTopics
<1>2. CASE CreateOrder \/ RedeliverOrder
  BY <1>1, <1>2 DEF CreateOrder, RedeliverOrder, Consumed
<1>3. CASE HandleOrderCreated \/ PoisonFails \/ OutageFails
  BY <1>1, <1>3 DEF HandleOrderCreated, PoisonFails, OutageFails, DeadLetter, Consumed
<1>4. CASE HandlePaymentSucceeded \/ HandlePaymentFailed
  BY <1>1, <1>4 DEF HandlePaymentSucceeded, HandlePaymentFailed, Consumed
<1>5. CASE \E t \in NotifiedTopics : Notify(t)
  BY <1>1, <1>5 DEF Notify, Consumed
<1> QED
  BY <1>2, <1>3, <1>4, <1>5
     DEF Next, Handler, vars, PlaceOrder, ResendCommand, AskRedeliver, Commit, Emit,
         Mark, MarkFails, Restart

LEMMA OffsetsStep ==
  ASSUME TypeOK, [Next]_vars, OffsetsOrdered
  PROVE  OffsetsOrdered'
<1> SUFFICES ASSUME NEW s \in Services, NEW t \in Topics
             PROVE  committed'[s][t] <= pos'[s][t] /\ pos'[s][t] <= Len(log'[t])
  BY DEF OffsetsOrdered
<1>1. /\ committed[s][t] \in Nat /\ pos[s][t] \in Nat
      /\ committed[s][t] <= pos[s][t] /\ pos[s][t] <= Len(log[t])
  BY DEF OffsetsOrdered, TypeOK
<1>2. /\ Len(log[t]) \in Nat /\ Len(log'[t]) \in Nat /\ Len(log[t]) <= Len(log'[t])
  BY TypeStep, OnlyGrows, LogLength
<1>3. CASE UNCHANGED <<pos, committed>>
  BY <1>1, <1>2, <1>3
<1>4. ASSUME NEW q \in Services, NEW u \in Topics, HasNext(q, u), Advance(q, u),
             UNCHANGED committed
      PROVE  committed'[s][t] <= pos'[s][t] /\ pos'[s][t] <= Len(log'[t])
  <2>1. pos'[s][t] = IF q = s /\ u = t THEN pos[s][t] + 1 ELSE pos[s][t]
    BY <1>4 DEF Advance, TypeOK
  <2>2. q = s /\ u = t => pos[s][t] < Len(log[t])
    BY <1>4 DEF HasNext
  <2> QED BY <1>1, <1>2, <1>4, <2>1, <2>2
<1>5. ASSUME NEW q \in Services, committed' = [committed EXCEPT ![q] = pos[q]], UNCHANGED pos
      PROVE  committed'[s][t] <= pos'[s][t] /\ pos'[s][t] <= Len(log'[t])
  <2>1. committed'[s] = IF q = s THEN pos[s] ELSE committed[s]
    BY <1>5 DEF TypeOK
  <2> QED BY <1>1, <1>2, <1>5, <2>1
<1>6. ASSUME NEW q \in Services, pos' = [pos EXCEPT ![q] = committed[q]], UNCHANGED committed
      PROVE  committed'[s][t] <= pos'[s][t] /\ pos'[s][t] <= Len(log'[t])
  <2>1. pos'[s] = IF q = s THEN committed[s] ELSE pos[s]
    BY <1>6 DEF TypeOK
  <2> QED BY <1>1, <1>2, <1>6, <2>1
<1> QED
  BY <1>3, <1>4, <1>5, <1>6, OffsetCases

-----------------------------------------------------------------------------
(* Messages: what their order and their id determine. *)

\* The events one service logged for one order are one event.
LEMMA SameOrderSameMessage ==
  ASSUME TypeOK, LoggedFromOutbox, OneRowPerOrder,
         NEW t1 \in EventTopics, NEW t2 \in EventTopics,
         Owner(t1) = Owner(t2), Owner(t1) \in BusinessServices,
         NEW i \in DOMAIN log[t1], NEW j \in DOMAIN log[t2],
         log[t1][i].order = log[t2][j].order
  PROVE  log[t1][i] = log[t2][j]
<1>1. PICK a \in DOMAIN outbox[Owner(t1)] : outbox[Owner(t1)][a] = log[t1][i]
  BY DEF LoggedFromOutbox
<1>2. PICK b \in DOMAIN outbox[Owner(t1)] : outbox[Owner(t1)][b] = log[t2][j]
  BY DEF LoggedFromOutbox
<1> QED
  BY <1>1, <1>2 DEF OneRowPerOrder

\* Two logged events with one id are one event.
LEMMA SameIdSameMessage ==
  ASSUME TypeOK, LoggedFromOutbox, IdsAreFresh,
         NEW t1 \in EventTopics, NEW t2 \in EventTopics,
         NEW i \in DOMAIN log[t1], NEW j \in DOMAIN log[t2],
         log[t1][i].id = log[t2][j].id
  PROVE  log[t1][i] = log[t2][j]
<1>0. Owner(t1) \in Services /\ Owner(t2) \in Services
  BY Names
<1>1. PICK a \in DOMAIN outbox[Owner(t1)] : outbox[Owner(t1)][a] = log[t1][i]
  BY DEF LoggedFromOutbox
<1>2. PICK b \in DOMAIN outbox[Owner(t2)] : outbox[Owner(t2)][b] = log[t2][j]
  BY DEF LoggedFromOutbox
<1>3. Owner(t1) = Owner(t2)
  BY <1>0, <1>1, <1>2 DEF IdsAreFresh
<1> QED
  BY <1>0, <1>1, <1>2, <1>3 DEF IdsAreFresh

LEMMA CommandsArePlacedStep ==
  ASSUME TypeOK, [Next]_vars, RowsAreOwned, CommandsArePlaced
  PROVE  CommandsArePlaced'
<1> DEFINE t == "order.create"
<1>1. SUFFICES ASSUME NEW i \in DOMAIN log'[t]
               PROVE  sku'[log'[t][i].order] # "unplaced"
  BY DEF CommandsArePlaced
<1>2. t \in Topics /\ t \notin EventTopics /\ t # "order.created.DLQ"
  BY DEF Topics, CommandTopics, EventTopics, NotifiedTopics
<1>3. ASSUME i \in DOMAIN log[t], log'[t][i] = log[t][i]
      PROVE  sku'[log'[t][i].order] # "unplaced"
  <2>1. log[t][i].order \in Orders
    BY <1>2, <1>3, LoggedType
  <2> QED BY <1>3, <2>1, OnlyGrows DEF CommandsArePlaced, Grows
<1>4. CASE ProducesCommand
  <2>1. PICK u \in CommandTopics, o \in Orders :
          /\ Produce(u, Command(u, o))
          /\ u = t => sku'[o] # "unplaced"
    BY <1>4 DEF ProducesCommand
  <2>2. u \in Topics /\ Command(u, o) \in Message
    BY CommandType, Names
  <2>3. \/ i \in DOMAIN log[t] /\ log'[t][i] = log[t][i]
        \/ u = t /\ log'[t][i] = Command(u, o)
    BY <1>2, <2>1, <2>2, LogAppend
  <2>4. Command(u, o).order = o
    BY DEF Command
  <2> QED BY <1>3, <2>1, <2>3, <2>4
<1>5. EmitsRow => log'[t] = log[t]
  <2> SUFFICES ASSUME EmitsRow PROVE log'[t] = log[t]
    OBVIOUS
  <2>1. PICK s \in Services :
          /\ published[s] < Len(outbox[s])
          /\ LET m == outbox[s][published[s] + 1] IN Produce(m.type, m)
    BY DEF EmitsRow
  <2>2. published[s] + 1 \in DOMAIN outbox[s]
    BY <2>1 DEF TypeOK
  <2>3. outbox[s][published[s] + 1].type \in EventTopics
    BY <2>2 DEF RowsAreOwned
  <2> QED BY <1>2, <2>1, <2>3 DEF Produce, TypeOK
<1>6. DeadLetters => log'[t] = log[t]
  BY <1>2 DEF DeadLetters, Produce, TypeOK
<1> QED
  BY <1>3, <1>4, <1>5, <1>6, TopicCases

-----------------------------------------------------------------------------
(* Causality. *)

LEMMA CausalityStep ==
  ASSUME TypeOK, [Next]_vars, RowsMatchKeys, LoggedFromOutbox, CommandsArePlaced,
         PaymentRowsFollowItems, Causality
  PROVE  Causality'
<1> DEFINE Holds(s, o) ==
      CASE s = "order" -> sku[o] # "unplaced"
        [] s = "payment" -> sku[o] \in {"pays", "declined"} /\ Logged("order.created", o)
        [] s = "shipping" -> sku[o] = "pays" /\ Logged("payment.succeeded", o)
        [] s = "refund" -> sku[o] = "declined" /\ Logged("payment.failed", o)
<1>t. /\ {"order.created", "payment.succeeded", "payment.failed"} \subseteq EventTopics
      /\ {"order.created", "payment.succeeded", "payment.failed"} \subseteq Topics
      /\ BusinessServices = {"order", "payment", "shipping", "refund"}
      /\ BusinessServices \subseteq Services
      /\ Owner("order.created") = "order"
      /\ Owner("payment.succeeded") = "payment" /\ Owner("payment.failed") = "payment"
  BY DEF EventTopics, NotifiedTopics, Topics, BusinessServices, Services, Owner
<1>1. \A s \in BusinessServices, o \in Orders : o \in db[s] => Holds(s, o)
  BY <1>t DEF Causality
<1>2. SUFFICES ASSUME NEW s \in BusinessServices, NEW o \in Orders, o \in db'[s]
               PROVE  Holds(s, o)'
  BY <1>t DEF Causality
<1>3. ASSUME Holds(s, o), sku'[o] = sku[o] PROVE Holds(s, o)'
  <2>1. \A t \in Topics : Logged(t, o) => Logged(t, o)'
    BY OnlyGrows DEF Grows, Logged
  <2> QED BY <1>3, <1>t, <2>1
<1>4. CASE o \in db[s]
  <2>1. sku'[o] = sku[o]
    BY <1>4, SettledItems
  <2> QED BY <1>1, <1>3, <1>4, <2>1
<1>5. CASE o \notin db[s]
  \* A logged event has a row, and the row a key.
  <2>1. \A t \in EventTopics : \A i \in DOMAIN log[t] :
          Owner(t) \in BusinessServices =>
            \E j \in DOMAIN outbox[Owner(t)] :
                /\ outbox[Owner(t)][j] = log[t][i]
                /\ log[t][i].type = t
                /\ log[t][i].order \in db[Owner(t)]
    BY DEF LoggedFromOutbox, RowsMatchKeys
  <2>2. PICK t \in Subscribed(s) \ {"order.redeliver"} :
          /\ \E i \in DOMAIN log[t] : log[t][i].order = o
          /\ s = "payment" => sku[o] # "poison"
          /\ UNCHANGED <<sku, log>>
    <3>1. PICK q \in Services, row \in Message :
            /\ q \in BusinessServices
            /\ db' = [db EXCEPT ![q] = @ \union {row.order}]
            /\ \E t \in Subscribed(q) \ {"order.redeliver"} :
                 \E i \in DOMAIN log[t] : log[t][i].order = row.order
            /\ q = "payment" => sku[row.order] # "poison"
            /\ UNCHANGED <<sku, log>>
      <4>1. \A key : db' = [db EXCEPT !["notification"] = @ \union {key}] => db'[s] = db[s]
        BY <1>t DEF TypeOK, BusinessServices
      <4>2. db' # db /\ \A key : db' # [db EXCEPT !["notification"] = @ \union {key}]
        BY <1>2, <1>5, <4>1
      <4> QED BY <4>2, RowCases
    <3>2. q = s /\ row.order = o
      BY <1>2, <1>5, <1>t, <3>1 DEF TypeOK
    <3> QED BY <3>1, <3>2
  <2>3. PICK i \in DOMAIN log[t] : log[t][i].order = o
    BY <2>2
  <2>4. Logged(t, o)
    BY <2>3 DEF Logged
  <2>5. Holds(s, o)
    <3>1. CASE s = "order"
      <4>1. t = "order.create"
        BY <2>2, <3>1 DEF Subscribed, PaymentTopics, ShippingTopics, RefundTopics, CommandTopics
      <4> QED BY <2>3, <3>1, <4>1 DEF CommandsArePlaced
    <3>2. CASE s = "payment"
      <4>1. t = "order.created"
        BY <2>2, <3>2 DEF Subscribed, PaymentTopics, ShippingTopics, RefundTopics
      <4>2. o \in db["order"]
        BY <1>t, <2>1, <2>3, <4>1
      <4>3. sku[o] # "unplaced" /\ sku[o] # "poison"
        BY <2>2, <3>2, <4>2 DEF Causality
      <4>4. sku[o] \in Skus \union {"unplaced"}
        BY DEF TypeOK
      <4> QED BY <2>4, <3>2, <4>1, <4>3, <4>4 DEF Skus
    <3>3. CASE s = "shipping"
      <4>1. t = "payment.succeeded"
        BY <2>2, <3>3 DEF Subscribed, PaymentTopics, ShippingTopics, RefundTopics
      <4>2. PICK j \in DOMAIN outbox["payment"] :
              /\ outbox["payment"][j] = log[t][i] /\ log[t][i].type = t
              /\ o \in db["payment"]
        BY <1>t, <2>1, <2>3, <4>1
      <4>3. PaymentType(o) = t
        BY <2>3, <4>2 DEF PaymentRowsFollowItems
      <4>4. sku[o] \in {"pays", "declined"} /\ sku[o] # "declined"
        BY <4>1, <4>2, <4>3 DEF Causality, PaymentType
      <4> QED BY <2>4, <3>3, <4>1, <4>4
    <3>4. CASE s = "refund"
      <4>1. t = "payment.failed"
        BY <2>2, <3>4 DEF Subscribed, PaymentTopics, ShippingTopics, RefundTopics
      <4>2. PICK j \in DOMAIN outbox["payment"] :
              /\ outbox["payment"][j] = log[t][i] /\ log[t][i].type = t
              /\ o \in db["payment"]
        BY <1>t, <2>1, <2>3, <4>1
      <4>3. PaymentType(o) = t
        BY <2>3, <4>2 DEF PaymentRowsFollowItems
      <4>4. sku[o] = "declined"
        BY <4>1, <4>3 DEF PaymentType
      <4> QED BY <2>4, <3>4, <4>1, <4>4
    <3> QED BY <1>t, <3>1, <3>2, <3>3, <3>4
  <2> QED BY <1>3, <2>2, <2>5
<1> QED
  BY <1>4, <1>5

-----------------------------------------------------------------------------
(* Notifications. *)

LEMMA NotificationsStep ==
  ASSUME TypeOK, [Next]_vars, LoggedFromOutbox, OneRowPerOrder, NotificationsMatchIds,
         NotifiedOnce
  PROVE  NotificationsMatchIds' /\ NotifiedOnce'
<1> DEFINE n == "notification"
<1>n. n \in Services /\ n \notin BusinessServices /\ n # "order"
  BY DEF Services, BusinessServices
\* The two halves of NotificationsMatchIds, by name.
<1> DEFINE Heard(row) ==
             \E t \in NotifiedTopics : \E i \in DOMAIN log[t] :
               Announces(row, log[t][i]) /\ log[t][i].id \in db[n]
           Told(k) ==
             \E t \in NotifiedTopics : \E i \in DOMAIN log[t] :
               /\ log[t][i].id = k
               /\ \E j \in DOMAIN outbox[n] : Announces(outbox[n][j], log[t][i])
<1>1. /\ \A j \in DOMAIN outbox[n] : Heard(outbox[n][j])
      /\ \A k \in db[n] : Told(k)
  BY DEF NotificationsMatchIds
<1>g. /\ \A j \in DOMAIN outbox[n] : j \in DOMAIN outbox'[n] /\ outbox'[n][j] = outbox[n][j]
      /\ \A t \in NotifiedTopics : \A i \in DOMAIN log[t] :
            i \in DOMAIN log'[t] /\ log'[t][i] = log[t][i]
      /\ db[n] \subseteq db'[n]
  BY <1>n, OnlyGrows, Names DEF Grows
<1>2. ASSUME NEW j \in DOMAIN outbox[n] PROVE Heard(outbox[n][j])'
  <2>0. PICK t \in NotifiedTopics : \E i \in DOMAIN log[t] :
          Announces(outbox[n][j], log[t][i]) /\ log[t][i].id \in db[n]
    BY <1>1
  <2>1. PICK i \in DOMAIN log[t] :
          Announces(outbox[n][j], log[t][i]) /\ log[t][i].id \in db[n]
    BY <2>0
  <2>2. i \in DOMAIN log'[t] /\ log'[t][i] = log[t][i] /\ outbox'[n][j] = outbox[n][j]
    BY <1>g
  <2> QED BY <1>g, <2>1, <2>2 DEF Announces
<1>3. ASSUME NEW k \in db[n] PROVE Told(k)'
  <2>0. PICK t \in NotifiedTopics : \E i \in DOMAIN log[t] :
          /\ log[t][i].id = k
          /\ \E j \in DOMAIN outbox[n] : Announces(outbox[n][j], log[t][i])
    BY <1>1
  <2>1. PICK i \in DOMAIN log[t] :
          /\ log[t][i].id = k
          /\ \E j \in DOMAIN outbox[n] : Announces(outbox[n][j], log[t][i])
    BY <2>0
  <2>2. PICK j \in DOMAIN outbox[n] : Announces(outbox[n][j], log[t][i])
    BY <2>1
  <2>3. /\ i \in DOMAIN log'[t] /\ log'[t][i] = log[t][i]
        /\ j \in DOMAIN outbox'[n] /\ outbox'[n][j] = outbox[n][j]
    BY <1>g
  <2> QED BY <2>1, <2>2, <2>3 DEF Announces
<1>4. CASE outbox'[n] = outbox[n] /\ db'[n] = db[n]
  <2>1. NotificationsMatchIds'
    BY <1>2, <1>3, <1>4 DEF NotificationsMatchIds
  <2> QED BY <1>4, <2>1 DEF NotifiedOnce
<1>5. ASSUME NEW row \in Message, NEW t \in NotifiedTopics, NEW i \in DOMAIN log[t],
             outbox' = [outbox EXCEPT ![n] = Append(@, row)],
             Announces(row, log[t][i]), log[t][i].id \notin db[n],
             db' = [db EXCEPT ![n] = @ \union {log[t][i].id}]
      PROVE  NotificationsMatchIds' /\ NotifiedOnce'
  <2> DEFINE last == Len(outbox[n]) + 1
  <2>1. /\ \A j \in DOMAIN outbox'[n] :
              \/ j \in DOMAIN outbox[n] /\ outbox'[n][j] = outbox[n][j]
              \/ j = last /\ outbox'[n][j] = row
        /\ last \in DOMAIN outbox'[n] /\ outbox'[n][last] = row
    <3>1. outbox' = [outbox EXCEPT ![n] = Append(@, row)]
      BY <1>5
    <3>2. \A j \in DOMAIN outbox'[n] :
              \/ j \in DOMAIN outbox[n] /\ outbox'[n][j] = outbox[n][j]
              \/ j = last /\ outbox'[n][j] = row
      BY <1>n, <3>1, OutboxAppend
    <3>3. last \in DOMAIN outbox'[n] /\ outbox'[n][last] = row
      BY <1>n, <3>1, OutboxAppend
    <3> QED BY <3>2, <3>3
  <2>2. db'[n] = db[n] \union {log[t][i].id}
    BY <1>5, <1>n DEF TypeOK
  <2> HIDE DEF last
  <2>3. ASSUME NEW j \in DOMAIN outbox'[n], outbox'[n][j] = row
        PROVE  Heard(outbox[n][j])'
    <3>1. i \in DOMAIN log'[t] /\ log'[t][i] = log[t][i]
      BY <1>g
    <3> QED BY <1>5, <2>2, <2>3, <3>1 DEF Announces
  <2>4. Told(log[t][i].id)'
    <3>1. i \in DOMAIN log'[t] /\ log'[t][i] = log[t][i]
      BY <1>g
    <3>2. log[t][i].id = log'[t][i].id /\ Announces(outbox'[n][last], log'[t][i])
      BY <1>5, <2>1, <3>1 DEF Announces
    <3>3. \E j \in DOMAIN outbox'[n] : Announces(outbox'[n][j], log'[t][i])
      BY <2>1, <3>2
    <3> QED BY <3>1, <3>2, <3>3 DEF Announces
  <2>5. NotificationsMatchIds'
    <3>1. ASSUME NEW j \in DOMAIN outbox'[n]
          PROVE  \E u \in NotifiedTopics : \E h \in DOMAIN log'[u] :
                   Announces(outbox'[n][j], log'[u][h]) /\ log'[u][h].id \in db'[n]
      BY <1>2, <2>1, <2>3 DEF Announces
    <3>2. ASSUME NEW k \in db'[n]
          PROVE  \E u \in NotifiedTopics : \E h \in DOMAIN log'[u] :
                   /\ log'[u][h].id = k
                   /\ \E j \in DOMAIN outbox'[n] : Announces(outbox'[n][j], log'[u][h])
      <4>1. log'[t][i].id = log[t][i].id
        BY <1>g
      <4>2. CASE k \in db[n]
        BY <1>3, <4>2
      <4>3. CASE k = log[t][i].id
        BY <2>4, <4>1, <4>3
      <4> QED BY <2>2, <3>2, <4>2, <4>3
    <3> QED BY <3>1, <3>2 DEF NotificationsMatchIds, Announces
  \* A second notification of the same event would need a second id for it.
  <2>6. ASSUME NEW j \in DOMAIN outbox[n],
               outbox[n][j].order = row.order, outbox[n][j].cause = row.cause
        PROVE  FALSE
    <3>0. PICK u \in NotifiedTopics : \E h \in DOMAIN log[u] :
            Announces(outbox[n][j], log[u][h]) /\ log[u][h].id \in db[n]
      BY <1>1
    <3>1. PICK h \in DOMAIN log[u] :
            Announces(outbox[n][j], log[u][h]) /\ log[u][h].id \in db[n]
      BY <3>0
    <3>2. /\ t \in EventTopics /\ u \in EventTopics /\ Owner(t) \in BusinessServices
      BY Names
    <3>3. log[u][h].type = log[t][i].type /\ log[u][h].order = log[t][i].order
      BY <1>5, <2>6, <3>1 DEF Announces
    <3>4. u = t
      BY <3>2, <3>3 DEF LoggedFromOutbox
    <3>5. log[u][h] = log[t][i]
      BY <3>2, <3>3, <3>4, SameOrderSameMessage
    <3> QED BY <1>5, <3>1, <3>5
  <2>7. NotifiedOnce'
    <3> SUFFICES ASSUME NEW a \in DOMAIN outbox'[n], NEW b \in DOMAIN outbox'[n],
                        outbox'[n][a].order = outbox'[n][b].order,
                        outbox'[n][a].cause = outbox'[n][b].cause
                 PROVE  a = b
      BY DEF NotifiedOnce
    <3>1. CASE a \in DOMAIN outbox[n] /\ outbox'[n][a] = outbox[n][a]
      BY <2>1, <2>6, <3>1 DEF NotifiedOnce
    <3>2. CASE a = last /\ outbox'[n][a] = row
      BY <2>1, <2>6, <3>2
    <3> QED BY <2>1, <3>1, <3>2
  <2> QED BY <2>5, <2>7
<1>6. ASSUME NEW s \in Services, s # n, NEW row \in Message, NEW key,
             outbox' = [outbox EXCEPT ![s] = Append(@, row)],
             db' = db \/ db' = [db EXCEPT ![s] = @ \union {key}]
      PROVE  NotificationsMatchIds' /\ NotifiedOnce'
  <2>1. outbox'[n] = outbox[n] /\ db'[n] = db[n]
    BY <1>6, <1>n DEF TypeOK
  <2> QED BY <1>4, <2>1
<1>7. CASE UNCHANGED <<db, outbox>>
  BY <1>4, <1>7
<1>8. CASE ~ UNCHANGED <<db, outbox>>
  <2>1. PICK s \in Services, row \in Message :
          /\ outbox' = [outbox EXCEPT ![s] = Append(@, row)]
          /\ \/ s \in BusinessServices /\ db' = [db EXCEPT ![s] = @ \union {row.order}]
             \/ s = "order" /\ db' = db
             \/ /\ s = n
                /\ \E t \in NotifiedTopics : \E i \in DOMAIN log[t] :
                     /\ Announces(row, log[t][i])
                     /\ log[t][i].id \notin db[s]
                     /\ db' = [db EXCEPT ![s] = @ \union {log[t][i].id}]
    BY <1>8, RowCases
  <2> QED BY <1>5, <1>6, <1>n, <2>1
<1> QED
  BY <1>7, <1>8

-----------------------------------------------------------------------------
(* Durability of what was consumed. *)

LEMMA EffectStays ==
  ASSUME TypeOK, [Next]_vars, NEW s \in Services, NEW m, Effect(s, m)
  PROVE  Effect(s, m)'
<1>1. \A j \in DOMAIN outbox[s] : j \in DOMAIN outbox'[s] /\ outbox'[s][j] = outbox[s][j]
  BY OnlyGrows DEF Grows
<1>2. \A i \in DOMAIN log["order.created.DLQ"] :
        /\ i \in DOMAIN log'["order.created.DLQ"]
        /\ log'["order.created.DLQ"][i] = log["order.created.DLQ"][i]
  BY OnlyGrows, Names DEF Grows
<1>3. CASE s = "notification"
  BY <1>1, <1>3 DEF Effect
<1>4. CASE s = "payment"
  BY <1>1, <1>2, <1>4 DEF Effect
<1>5. CASE s # "notification" /\ s # "payment"
  BY <1>1, <1>5 DEF Effect
<1> QED
  BY <1>3, <1>4, <1>5

\* A business handler leaves the event of the order behind, new or old.
LEMMA BusinessEffect ==
  ASSUME TypeOK, [Next]_vars, RowsMatchKeys, NEW s \in BusinessServices,
         NEW m \in Message, NEW type \in EventTopics,
         SaveOnce(s, m.order, type, m, "none")
  PROVE  Effect(s, m)'
<1>s. s \in Services /\ s # "notification" /\ m.order \in Orders /\ type \in Topics
  BY Names DEF BusinessServices, Message
<1>1. \E j \in DOMAIN outbox'[s] : outbox'[s][j].order = m.order
  <2>1. CASE m.order \in db[s]
    BY <1>s, <2>1, OnlyGrows DEF RowsMatchKeys, Grows
  <2>2. CASE m.order \notin db[s]
    <3> DEFINE row == [id |-> <<s, Len(outbox[s]) + 1>>, type |-> type,
                       order |-> m.order, cause |-> "none"]
    <3>1. outbox' = [outbox EXCEPT ![s] = Append(@, row)]
      BY <2>2 DEF SaveOnce
    <3>2. row \in Message /\ row.order = m.order
      BY <1>s, NewRowType
    <3> HIDE DEF row
    <3>3. Len(outbox[s]) + 1 \in DOMAIN outbox'[s] /\ outbox'[s][Len(outbox[s]) + 1] = row
      BY <1>s, <3>1, <3>2, OutboxAppend
    <3> QED BY <3>2, <3>3
  <2> QED BY <2>1, <2>2
<1> QED
  BY <1>s, <1>1 DEF Effect

LEMMA NotifyEffect ==
  ASSUME TypeOK, [Next]_vars, LoggedFromOutbox, IdsAreFresh, NotificationsMatchIds,
         NEW t \in NotifiedTopics, NEW i \in DOMAIN log[t], NEW m, m = log[t][i],
         SaveOnce("notification", m.id, "notification.sent", m, m.type)
  PROVE  Effect("notification", m)'
<1> DEFINE n == "notification"
<1>n. n \in Services /\ t \in EventTopics /\ t \in Topics /\ "notification.sent" \in Topics
  BY Names
<1>m. m \in Message /\ m.order \in Orders /\ m.type \in Topics
  BY <1>n, LoggedType
<1>1. \E j \in DOMAIN outbox'[n] : outbox'[n][j].cause = m.type /\ outbox'[n][j].order = m.order
  <2>1. CASE m.id \in db[n]
    <3>1. PICK u \in NotifiedTopics : \E h \in DOMAIN log[u] :
            /\ log[u][h].id = m.id
            /\ \E j \in DOMAIN outbox[n] : Announces(outbox[n][j], log[u][h])
      BY <2>1 DEF NotificationsMatchIds
    <3>2. PICK h \in DOMAIN log[u] :
            /\ log[u][h].id = m.id
            /\ \E j \in DOMAIN outbox[n] : Announces(outbox[n][j], log[u][h])
      BY <3>1
    <3>3. u \in EventTopics
      BY Names
    <3>4. log[u][h] = m
      BY <1>n, <3>2, <3>3, SameIdSameMessage
    <3>5. PICK j \in DOMAIN outbox[n] : Announces(outbox[n][j], m)
      BY <3>2, <3>4
    <3>6. j \in DOMAIN outbox'[n] /\ outbox'[n][j] = outbox[n][j]
      BY <1>n, OnlyGrows DEF Grows
    <3> QED BY <3>5, <3>6 DEF Announces
  <2>2. CASE m.id \notin db[n]
    <3> DEFINE row == [id |-> <<n, Len(outbox[n]) + 1>>, type |-> "notification.sent",
                       order |-> m.order, cause |-> m.type]
    <3>1. outbox' = [outbox EXCEPT ![n] = Append(@, row)]
      BY <2>2 DEF SaveOnce
    <3>2. row \in Message
      BY <1>n, <1>m, NewRowType
    <3>3. row.order = m.order /\ row.cause = m.type
      OBVIOUS
    <3> HIDE DEF row
    <3>4. Len(outbox[n]) + 1 \in DOMAIN outbox'[n] /\ outbox'[n][Len(outbox[n]) + 1] = row
      BY <1>n, <3>1, <3>2, OutboxAppend
    <3> QED BY <3>3, <3>4
  <2> QED BY <2>1, <2>2
<1> QED
  BY <1>1 DEF Effect

\* Message m was handled: its effect is there in the next state.
Handled(s, t, m) ==
    /\ HasNext(s, t) /\ Advance(s, t) /\ m = NextMessage(s, t)
    /\ t # "order.redeliver" => Effect(s, m)'

LEMMA ConsumeCases ==
  ASSUME TypeOK, [Next]_vars, LoggedFromOutbox, RowsMatchKeys, IdsAreFresh,
         NotificationsMatchIds, OffsetsOrdered
  PROVE  \/ \A s \in Services, t \in Topics : pos'[s][t] <= pos[s][t]
         \/ \E s \in Services, t \in Topics, m \in Message : Handled(s, t, m)
<1>t. /\ BusinessServices = {"order", "payment", "shipping", "refund"}
      /\ BusinessServices \subseteq Services /\ "notification" \in Services
      /\ {"order.create", "order.redeliver", "order.created", "payment.succeeded",
          "payment.failed", "order.created.DLQ"} \subseteq Topics
      /\ NotifiedTopics \subseteq Topics
      /\ {"order.created", "shipment.created", "refund.initiated"} \subseteq EventTopics
      /\ "order.redeliver" \notin NotifiedTopics
      /\ \A o : PaymentType(o) \in EventTopics
  BY DEF BusinessServices, Services, Topics, CommandTopics, EventTopics, NotifiedTopics,
         PaymentType
<1>1. CASE CreateOrder
  <2>1. PICK m \in Message : m = NextMessage("order", "order.create")
    BY <1>1, <1>t, NextMessageType DEF CreateOrder
  <2>2. SaveOnce("order", m.order, "order.created", m, "none")
    BY <1>1, <2>1 DEF CreateOrder
  <2>3. Effect("order", m)'
    BY <1>t, <2>2, BusinessEffect
  <2> QED BY <1>1, <1>t, <2>1, <2>3 DEF CreateOrder, Consumed, Handled
<1>2. CASE RedeliverOrder
  BY <1>2, <1>t, NextMessageType DEF RedeliverOrder, Consumed, Handled
<1>3. CASE HandleOrderCreated
  <2>1. PICK m \in Message : m = NextMessage("payment", "order.created")
    BY <1>3, <1>t, NextMessageType DEF HandleOrderCreated
  <2>2. SaveOnce("payment", m.order, PaymentType(m.order), m, "none")
    BY <1>3, <2>1 DEF HandleOrderCreated
  <2>3. Effect("payment", m)'
    BY <1>t, <2>2, BusinessEffect
  <2> QED BY <1>3, <1>t, <2>1, <2>3 DEF HandleOrderCreated, Consumed, Handled
<1>4. CASE PoisonFails \/ OutageFails
  <2>1. HasNext("payment", "order.created") /\ DeadLetter
    BY <1>4 DEF PoisonFails, OutageFails
  <2>2. PICK m \in Message : m = NextMessage("payment", "order.created")
    BY <1>t, <2>1, NextMessageType
  <2>3. Produce("order.created.DLQ", m)
    BY <2>1, <2>2 DEF DeadLetter
  <2>4. /\ Len(log["order.created.DLQ"]) + 1 \in DOMAIN log'["order.created.DLQ"]
        /\ log'["order.created.DLQ"][Len(log["order.created.DLQ"]) + 1] = m
    BY <1>t, <2>3, LogAppend
  <2>5. Effect("payment", m)'
    BY <2>4 DEF Effect
  <2> QED BY <1>t, <2>1, <2>2, <2>5 DEF DeadLetter, Handled
<1>5. CASE HandlePaymentSucceeded
  <2>1. PICK m \in Message : m = NextMessage("shipping", "payment.succeeded")
    BY <1>5, <1>t, NextMessageType DEF HandlePaymentSucceeded
  <2>2. SaveOnce("shipping", m.order, "shipment.created", m, "none")
    BY <1>5, <2>1 DEF HandlePaymentSucceeded
  <2>3. Effect("shipping", m)'
    BY <1>t, <2>2, BusinessEffect
  <2> QED BY <1>5, <1>t, <2>1, <2>3 DEF HandlePaymentSucceeded, Consumed, Handled
<1>6. CASE HandlePaymentFailed
  <2>1. PICK m \in Message : m = NextMessage("refund", "payment.failed")
    BY <1>6, <1>t, NextMessageType DEF HandlePaymentFailed
  <2>2. SaveOnce("refund", m.order, "refund.initiated", m, "none")
    BY <1>6, <2>1 DEF HandlePaymentFailed
  <2>3. Effect("refund", m)'
    BY <1>t, <2>2, BusinessEffect
  <2> QED BY <1>6, <1>t, <2>1, <2>3 DEF HandlePaymentFailed, Consumed, Handled
<1>7. ASSUME NEW t \in NotifiedTopics, Notify(t)
      PROVE  \E s \in Services, u \in Topics, m \in Message : Handled(s, u, m)
  <2>1. HasNext("notification", t) /\ t \in Topics
    BY <1>7, <1>t DEF Notify
  <2>2. PICK m \in Message : m = NextMessage("notification", t)
    BY <1>t, <2>1, NextMessageType
  <2>3. pos["notification"][t] + 1 \in DOMAIN log[t] /\ m = log[t][pos["notification"][t] + 1]
    BY <1>t, <2>1, <2>2, NextMessageType DEF NextMessage
  <2>4. SaveOnce("notification", m.id, "notification.sent", m, m.type)
    BY <1>7, <2>2 DEF Notify
  <2>5. Effect("notification", m)'
    BY <2>3, <2>4, NotifyEffect
  <2> QED BY <1>7, <1>t, <2>1, <2>2, <2>5 DEF Notify, Consumed, Handled
<1>8. ASSUME NEW q \in Services, Restart(q)
      PROVE  \A s \in Services, t \in Topics : pos'[s][t] <= pos[s][t]
  BY <1>8 DEF Restart, OffsetsOrdered, TypeOK
<1>9. CASE UNCHANGED pos
  BY <1>9 DEF TypeOK
<1> QED
  BY <1>1, <1>2, <1>3, <1>4, <1>5, <1>6, <1>7, <1>8, <1>9
     DEF Next, Handler, vars, PlaceOrder, ResendCommand, AskRedeliver, Commit, Emit,
         Mark, MarkFails

LEMMA ConsumedIsDurableStep ==
  ASSUME TypeOK, [Next]_vars, LoggedFromOutbox, RowsMatchKeys, IdsAreFresh,
         NotificationsMatchIds, OffsetsOrdered, ConsumedIsDurable
  PROVE  ConsumedIsDurable'
<1> SUFFICES ASSUME NEW s \in Services, NEW t \in Subscribed(s) \ {"order.redeliver"},
                    NEW i \in 1..pos'[s][t], NEW m, m = log'[t][i]
             PROVE  Effect(s, m)'
  BY DEF ConsumedIsDurable
<1>0. t \in Topics /\ t # "order.redeliver"
  BY Names
<1>1. /\ pos[s][t] \in Nat /\ pos'[s][t] \in Nat /\ pos[s][t] <= Len(log[t])
      /\ Len(log[t]) \in Nat /\ DOMAIN log[t] = 1..Len(log[t])
  <2>1. TypeOK' /\ Grows
    BY TypeStep, OnlyGrows
  <2>2. pos[s][t] \in Nat /\ pos'[s][t] \in Nat
    BY <1>0, <2>1 DEF TypeOK
  <2>3. pos[s][t] <= Len(log[t])
    BY <1>0 DEF OffsetsOrdered
  <2>4. Len(log[t]) \in Nat /\ DOMAIN log[t] = 1..Len(log[t])
    BY <1>0, <2>1, LogLength
  <2> QED BY <2>2, <2>3, <2>4
<1>2. \A h \in DOMAIN log[t] : log'[t][h] = log[t][h]
  BY <1>0, OnlyGrows DEF Grows
<1>3. CASE i <= pos[s][t]
  <2>1. i \in 1..pos[s][t] /\ i \in DOMAIN log[t]
    BY <1>1, <1>3
  <2>2. m = log[t][i] /\ Effect(s, m)
    BY <1>2, <2>1 DEF ConsumedIsDurable
  <2> QED BY <2>2, EffectStays
<1>4. CASE ~ (i <= pos[s][t])
  <2>1. PICK q \in Services, u \in Topics, msg \in Message : Handled(q, u, msg)
    <3>1. ~ (pos'[s][t] <= pos[s][t])
      BY <1>1, <1>4
    <3> QED BY <1>0, <3>1, ConsumeCases
  <2>2. pos'[s][t] = IF q = s /\ u = t THEN pos[s][t] + 1 ELSE pos[s][t]
    BY <1>0, <2>1 DEF Handled, Advance, TypeOK
  <2>3. q = s /\ u = t /\ i = pos[s][t] + 1
    BY <1>1, <1>4, <2>2
  <2>4. i \in DOMAIN log[t]
    BY <1>1, <2>1, <2>3 DEF Handled, HasNext
  <2>5. m = msg
    BY <1>2, <2>1, <2>3, <2>4 DEF Handled, NextMessage
  <2> QED BY <1>0, <2>1, <2>3, <2>5 DEF Handled
<1> QED
  BY <1>3, <1>4

-----------------------------------------------------------------------------
(* The inductive invariant and the theorems. *)

LEMMA InitInvariant == Init => IInv
<1> SUFFICES ASSUME Init PROVE IInv
  OBVIOUS
<1>1. TypeOK
  BY InitType
<1>2. /\ \A s \in Services : outbox[s] = <<>> /\ db[s] = {} /\ published[s] = 0
      /\ \A s \in Services : inflight[s] = FALSE
      /\ \A t \in Topics : log[t] = <<>>
      /\ \A s \in Services, t \in Topics : pos[s][t] = 0 /\ committed[s][t] = 0
  BY DEF Init
<1>3. \A s \in BusinessServices : s \in Services
  BY Names
<1>4. /\ \A t \in EventTopics : t \in Topics
      /\ "order.create" \in Topics /\ "order.created.DLQ" \in Topics
      /\ \A s \in Services : Subscribed(s) \subseteq Topics
  BY Names
<1>5. RowsAreOwned /\ IdsAreFresh /\ LoggedFromOutbox
  BY <1>2, <1>4 DEF RowsAreOwned, IdsAreFresh, LoggedFromOutbox
<1>6. RowsMatchKeys /\ OneRowPerOrder
  BY <1>2, <1>3 DEF RowsMatchKeys, OneRowPerOrder
<1>7. NotificationsMatchIds /\ NotifiedOnce /\ PaymentRowsFollowItems
  BY <1>2 DEF NotificationsMatchIds, NotifiedOnce, PaymentRowsFollowItems, Services
<1>8. OffsetsOrdered /\ RelayBounded /\ PublishedIsLogged
  BY <1>2 DEF OffsetsOrdered, RelayBounded, PublishedIsLogged
<1>9. ConsumedIsDurable
  BY <1>2, <1>4 DEF ConsumedIsDurable
<1>10. CommandsArePlaced
  BY <1>2, <1>4 DEF CommandsArePlaced
<1>11. Causality
  BY <1>2 DEF Causality, Services
<1> QED
  BY <1>1, <1>5, <1>6, <1>7, <1>8, <1>9, <1>10, <1>11 DEF IInv

LEMMA StepInvariant == IInv /\ [Next]_vars => IInv'
<1> SUFFICES ASSUME IInv, [Next]_vars PROVE IInv'
  OBVIOUS
<1>1. TypeOK' /\ RowsAreOwned' /\ RowsMatchKeys' /\ OneRowPerOrder' /\ IdsAreFresh'
  BY TypeStep, RowsAreOwnedStep, RowsMatchKeysStep, OneRowPerOrderStep,
     IdsAreFreshStep DEF IInv
<1>2. LoggedFromOutbox' /\ RelayBounded' /\ PublishedIsLogged' /\ OffsetsOrdered'
  BY LoggedFromOutboxStep, RelayStep, OffsetsStep DEF IInv
<1>3. NotificationsMatchIds' /\ NotifiedOnce' /\ ConsumedIsDurable'
  BY NotificationsStep, ConsumedIsDurableStep DEF IInv
<1>4. CommandsArePlaced' /\ PaymentRowsFollowItems' /\ Causality'
  BY CommandsArePlacedStep, PaymentRowsStep, CausalityStep DEF IInv
<1> QED
  BY <1>1, <1>2, <1>3, <1>4 DEF IInv

\* The inductive invariant, and with it every part of it, holds in every
\* reachable state.
THEOREM Invariance == Spec => []IInv
  BY InitInvariant, StepInvariant, PTL DEF Spec

\* An order's events of one service are one event, whatever is redelivered.
THEOREM OneEvent == Spec => []OneEventPerOrder
<1>1. IInv => OneEventPerOrder
  <2>1. \A s \in Services \ {"notification"} : s \in BusinessServices
    BY DEF BusinessServices
  <2> QED BY <2>1, SameOrderSameMessage DEF IInv, OneEventPerOrder
<1> QED
  BY <1>1, Invariance, PTL

\* No order is both shipped and refunded.
THEOREM ShippedOrRefunded == Spec => []NeverShippedAndRefunded
<1>1. IInv => NeverShippedAndRefunded
  BY DEF IInv, Causality, NeverShippedAndRefunded
<1> QED
  BY <1>1, Invariance, PTL

\* A service acts only on a published event that calls for it.
THEOREM ActsOnCause == Spec => []Causality
  BY Invariance, PTL DEF IInv

\* Each event of an order is announced once.
THEOREM AnnouncedOnce == Spec => []NotifiedOnce
  BY Invariance, PTL DEF IInv

\* A row marked published is in its topic.
THEOREM MarkedAfterPublish == Spec => []PublishedIsLogged
  BY Invariance, PTL DEF IInv

\* Nothing below a committed offset is lost.
THEOREM NothingLost == Spec => []CommittedIsDurable
<1>1. IInv => CommittedIsDurable
  <2> SUFFICES ASSUME IInv, NEW s \in Services,
                      NEW t \in Subscribed(s) \ {"order.redeliver"}, NEW i \in 1..committed[s][t]
               PROVE  Effect(s, log[t][i])
    BY DEF CommittedIsDurable
  <2>1. t \in Topics
    BY Names
  <2>2. i \in 1..pos[s][t]
    BY <2>1 DEF IInv, OffsetsOrdered, TypeOK
  <2> QED BY <2>2 DEF IInv, ConsumedIsDurable
<1> QED
  BY <1>1, Invariance, PTL

-----------------------------------------------------------------------------
(* The saga implements its contract. *)

\* The databases agree on how far an order is.
LEMMA StageOrder ==
  ASSUME IInv, NEW o \in Orders
  PROVE  /\ o \in db["shipping"] => o \in db["payment"] /\ sku[o] = "pays"
         /\ o \in db["refund"] => o \in db["payment"] /\ sku[o] = "declined"
         /\ o \in db["payment"] => o \in db["order"] /\ sku[o] \in {"pays", "declined"}
<1>t. /\ {"order.created", "payment.succeeded", "payment.failed"} \subseteq EventTopics
      /\ Owner("order.created") = "order" /\ "order" \in BusinessServices
      /\ Owner("payment.succeeded") = "payment" /\ Owner("payment.failed") = "payment"
      /\ "payment" \in BusinessServices
  BY DEF EventTopics, NotifiedTopics, Owner, BusinessServices, Services
<1>1. \A t \in EventTopics :
        Owner(t) \in BusinessServices /\ Logged(t, o) => o \in db[Owner(t)]
  <2>1. ASSUME NEW t \in EventTopics, Owner(t) \in BusinessServices, NEW i \in DOMAIN log[t]
        PROVE  log[t][i].order \in db[Owner(t)]
    BY <2>1 DEF IInv, LoggedFromOutbox, RowsMatchKeys
  <2> QED BY <2>1 DEF Logged
<1>2. /\ Logged("order.created", o) => o \in db["order"]
      /\ Logged("payment.succeeded", o) => o \in db["payment"]
      /\ Logged("payment.failed", o) => o \in db["payment"]
  BY <1>1, <1>t
<1> QED
  BY <1>2 DEF IInv, Causality

LEMMA StageCases ==
  ASSUME IInv, NEW o \in Orders
  PROVE  /\ o \in db["shipping"] => StageOf(o) = "shipped"
         /\ o \in db["refund"] => StageOf(o) = "refunded"
         /\ o \notin db["shipping"] /\ o \notin db["refund"] /\ o \in db["payment"] =>
              StageOf(o) = IF sku[o] = "declined" THEN "declined" ELSE "paid"
         /\ o \notin db["payment"] => StageOf(o) = IF o \in db["order"] THEN "created" ELSE "none"
<1>1. ~ (o \in db["shipping"] /\ o \in db["refund"])
  BY StageOrder
<1>2. o \notin db["payment"] => o \notin db["shipping"] /\ o \notin db["refund"]
  BY StageOrder
<1> QED
  BY <1>1, <1>2 DEF StageOf

\* A step that writes no business row leaves every stage as it is.
LEMMA StageStays ==
  ASSUME IInv, IInv', [Next]_vars, NEW o \in Orders,
         \A s \in BusinessServices : o \in db'[s] <=> o \in db[s]
  PROVE  StageOf(o)' = StageOf(o)
<1>1. BusinessServices = {"order", "payment", "shipping", "refund"}
  BY DEF BusinessServices, Services
<1>2. o \in db["payment"] => sku'[o] = sku[o]
  BY SettledItems, <1>1 DEF IInv
<1>3. /\ o \in db'["order"] <=> o \in db["order"]
      /\ o \in db'["payment"] <=> o \in db["payment"]
      /\ o \in db'["shipping"] <=> o \in db["shipping"]
      /\ o \in db'["refund"] <=> o \in db["refund"]
  BY <1>1
<1> QED
  BY <1>2, <1>3 DEF StageOf

\* The write of a business row moves its order one stage on.
LEMMA StageAdvances ==
  ASSUME IInv, IInv', [Next]_vars, NEW s \in BusinessServices, NEW o \in Orders,
         o \notin db[s], UNCHANGED sku,
         \A q \in BusinessServices : db'[q] = IF q = s THEN db[q] \union {o} ELSE db[q]
  PROVE  StageOf(o)' \in Contract!Successors(StageOf(o))
<1>1. BusinessServices = {"order", "payment", "shipping", "refund"}
  BY DEF BusinessServices, Services
<1>2. /\ o \in db["shipping"] => StageOf(o) = "shipped"
      /\ o \in db["refund"] => StageOf(o) = "refunded"
      /\ o \notin db["shipping"] /\ o \notin db["refund"] /\ o \in db["payment"] =>
              StageOf(o) = IF sku[o] = "declined" THEN "declined" ELSE "paid"
      /\ o \notin db["payment"] => StageOf(o) = IF o \in db["order"] THEN "created" ELSE "none"
  BY StageCases
<1>3. /\ o \in db'["shipping"] => StageOf(o)' = "shipped"
      /\ o \in db'["refund"] => StageOf(o)' = "refunded"
      /\ o \notin db'["shipping"] /\ o \notin db'["refund"] /\ o \in db'["payment"] =>
              StageOf(o)' = IF sku[o] = "declined" THEN "declined" ELSE "paid"
      /\ o \notin db'["payment"] => StageOf(o)' = IF o \in db'["order"] THEN "created" ELSE "none"
  <2>1. IInv' => /\ (o \in db["shipping"] => StageOf(o) = "shipped")'
                 /\ (o \in db["refund"] => StageOf(o) = "refunded")'
                 /\ (o \notin db["shipping"] /\ o \notin db["refund"] /\ o \in db["payment"] =>
                       StageOf(o) = IF sku[o] = "declined" THEN "declined" ELSE "paid")'
                 /\ (o \notin db["payment"] =>
                       StageOf(o) = IF o \in db["order"] THEN "created" ELSE "none")'
    BY StageCases, PTL
  <2> QED BY <2>1
<1>4. /\ o \in db["shipping"] => o \in db["payment"] /\ sku[o] = "pays"
      /\ o \in db["refund"] => o \in db["payment"] /\ sku[o] = "declined"
      /\ o \in db["payment"] => o \in db["order"] /\ sku[o] \in {"pays", "declined"}
  BY StageOrder
<1>5. /\ o \in db'["shipping"] => o \in db'["payment"] /\ sku[o] = "pays"
      /\ o \in db'["refund"] => o \in db'["payment"] /\ sku[o] = "declined"
      /\ o \in db'["payment"] => o \in db'["order"] /\ sku[o] \in {"pays", "declined"}
  <2>1. IInv' => /\ (o \in db["shipping"] => o \in db["payment"] /\ sku[o] = "pays")'
                 /\ (o \in db["refund"] => o \in db["payment"] /\ sku[o] = "declined")'
                 /\ (o \in db["payment"] => o \in db["order"] /\ sku[o] \in {"pays", "declined"})'
    BY StageOrder, PTL
  <2> QED BY <2>1
<1>6. CASE s = "order"
  <2>1. StageOf(o) = "none" /\ StageOf(o)' = "created"
    BY <1>1, <1>2, <1>3, <1>4, <1>6
  <2> QED BY <2>1 DEF Contract!Successors
<1>7. CASE s = "payment"
  <2>1. StageOf(o) = "created" /\ StageOf(o)' \in {"paid", "declined"}
    BY <1>1, <1>2, <1>3, <1>4, <1>5, <1>7
  <2> QED BY <2>1 DEF Contract!Successors
<1>8. CASE s = "shipping"
  <2>1. StageOf(o) = "paid" /\ StageOf(o)' = "shipped"
    BY <1>1, <1>2, <1>3, <1>4, <1>5, <1>8
  <2> QED BY <2>1 DEF Contract!Successors
<1>9. CASE s = "refund"
  <2>1. StageOf(o) = "declined" /\ StageOf(o)' = "refunded"
    BY <1>1, <1>2, <1>3, <1>4, <1>5, <1>9
  <2> QED BY <2>1 DEF Contract!Successors
<1> QED
  BY <1>1, <1>6, <1>7, <1>8, <1>9

\* A logged event has happened to its order.
LEMMA LoggedHappened ==
  ASSUME IInv, NEW o \in Orders, NEW t \in NotifiedTopics, NEW i \in DOMAIN log[t],
         log[t][i].order = o
  PROVE  t \in Contract!Happened(StageOf(o))
<1>1. /\ t \in EventTopics /\ Owner(t) \in BusinessServices
      /\ "payment" \in BusinessServices
      /\ Owner("order.created") = "order" /\ Owner("payment.succeeded") = "payment"
      /\ Owner("payment.failed") = "payment" /\ Owner("shipment.created") = "shipping"
      /\ Owner("refund.initiated") = "refund"
  BY DEF NotifiedTopics, EventTopics, Owner, BusinessServices, Services
<1>2. PICK j \in DOMAIN outbox[Owner(t)] :
        outbox[Owner(t)][j] = log[t][i] /\ log[t][i].type = t /\ o \in db[Owner(t)]
  BY <1>1 DEF IInv, LoggedFromOutbox, RowsMatchKeys
<1>3. Owner(t) = "payment" => PaymentType(o) = t
  BY <1>2 DEF IInv, PaymentRowsFollowItems
<1>4. /\ o \in db["shipping"] => o \in db["payment"] /\ sku[o] = "pays"
      /\ o \in db["refund"] => o \in db["payment"] /\ sku[o] = "declined"
      /\ o \in db["payment"] => o \in db["order"] /\ sku[o] \in {"pays", "declined"}
  BY StageOrder
<1>5. /\ o \in db["shipping"] => StageOf(o) = "shipped"
      /\ o \in db["refund"] => StageOf(o) = "refunded"
      /\ o \notin db["shipping"] /\ o \notin db["refund"] /\ o \in db["payment"] =>
              StageOf(o) = IF sku[o] = "declined" THEN "declined" ELSE "paid"
      /\ o \notin db["payment"] => StageOf(o) = IF o \in db["order"] THEN "created" ELSE "none"
  BY StageCases
<1>6. CASE t = "order.created"
  <2>1. StageOf(o) \in {"created", "paid", "declined", "shipped", "refunded"}
    BY <1>1, <1>2, <1>5, <1>6
  <2> QED BY <1>6, <2>1 DEF Contract!Happened
<1>7. CASE t = "payment.succeeded"
  <2>1. o \in db["payment"] /\ sku[o] # "declined"
    BY <1>1, <1>2, <1>3, <1>7 DEF PaymentType
  <2>2. StageOf(o) \in {"paid", "shipped"}
    BY <1>4, <1>5, <2>1
  <2> QED BY <1>7, <2>2 DEF Contract!Happened
<1>8. CASE t = "payment.failed"
  <2>1. o \in db["payment"] /\ sku[o] = "declined"
    BY <1>1, <1>2, <1>3, <1>8 DEF PaymentType
  <2>2. StageOf(o) \in {"declined", "refunded"}
    BY <1>4, <1>5, <2>1
  <2> QED BY <1>8, <2>2 DEF Contract!Happened
<1>9. CASE t = "shipment.created"
  BY <1>1, <1>2, <1>5, <1>9 DEF Contract!Happened
<1>10. CASE t = "refund.initiated"
  BY <1>1, <1>2, <1>5, <1>10 DEF Contract!Happened
<1> QED
  BY <1>6, <1>7, <1>8, <1>9, <1>10 DEF NotifiedTopics

LEMMA ContractInit == Init => Contract!Init
<1> SUFFICES ASSUME Init PROVE Contract!Init
  OBVIOUS
<1>1. \A s \in Services : db[s] = {} /\ outbox[s] = <<>>
  BY DEF Init
<1>2. \A o \in Orders : StageOf(o) = "none" /\ AnnouncedOf(o) = {}
  BY <1>1 DEF StageOf, AnnouncedOf, Services
<1> QED
  BY <1>2 DEF Contract!Init

LEMMA ContractStep ==
  ASSUME IInv, IInv', [Next]_vars
  PROVE  [Contract!Next]_(<<[o \in Orders |-> StageOf(o)], [o \in Orders |-> AnnouncedOf(o)]>>)
<1> DEFINE stage == [o \in Orders |-> StageOf(o)]
           announced == [o \in Orders |-> AnnouncedOf(o)]
           n == "notification"
           Simulated == [Contract!Next]_(<<stage, announced>>)
<1> SUFFICES Simulated
  OBVIOUS
<1>t. TypeOK /\ n \in Services /\ n \notin BusinessServices /\ n # "order"
  BY DEF IInv, Services, BusinessServices
<1>1. ASSUME outbox'[n] = outbox[n] PROVE announced' = announced
  BY <1>1 DEF AnnouncedOf
<1>2. ASSUME \A s \in BusinessServices : db'[s] = db[s] PROVE stage' = stage
  <2>1. \A o \in Orders : StageOf(o)' = StageOf(o)
    BY <1>2, StageStays
  <2> QED BY <2>1
<1>3. ASSUME UNCHANGED stage, UNCHANGED announced
      PROVE  Simulated
  BY <1>3
<1>a. ASSUME NEW o \in Orders, Contract!Advance(o) \/ Contract!Announce(o)
      PROVE  Simulated
  BY <1>a DEF Contract!Next
<1> HIDE DEF Simulated
<1>4. CASE UNCHANGED <<db, outbox>>
  BY <1>1, <1>2, <1>3, <1>4
<1>5. ASSUME NEW row \in Message, UNCHANGED db,
             outbox' = [outbox EXCEPT !["order"] = Append(@, row)]
      PROVE  Simulated
  <2>1. outbox'[n] = outbox[n]
    BY <1>5, <1>t DEF TypeOK
  <2> QED BY <1>1, <1>2, <1>3, <1>5, <2>1
<1>6. ASSUME NEW s \in BusinessServices, NEW row \in Message, UNCHANGED sku,
             row.order \notin db[s], db' = [db EXCEPT ![s] = @ \union {row.order}],
             outbox' = [outbox EXCEPT ![s] = Append(@, row)]
      PROVE  Simulated
  <2> DEFINE o == row.order
  <2>1. o \in Orders
    BY DEF Message
  <2>2. outbox'[n] = outbox[n]
    BY <1>6, <1>t DEF TypeOK
  <2>3. \A q \in BusinessServices : db'[q] = IF q = s THEN db[q] \union {o} ELSE db[q]
    BY <1>6, <1>t DEF TypeOK, BusinessServices
  <2>4. StageOf(o)' \in Contract!Successors(StageOf(o))
    BY <1>6, <2>1, <2>3, StageAdvances
  <2>5. \A p \in Orders : p # o => StageOf(p)' = StageOf(p)
    <3> SUFFICES ASSUME NEW p \in Orders, p # o PROVE StageOf(p)' = StageOf(p)
      OBVIOUS
    <3>1. \A q \in BusinessServices : p \in db'[q] <=> p \in db[q]
      BY <2>3
    <3> QED BY <3>1, StageStays
  <2>6. stage' = [stage EXCEPT ![o] = StageOf(o)']
    BY <2>1, <2>5
  <2>7. announced' = announced
    BY <1>1, <2>2
  <2>8. Contract!Advance(o)
    BY <2>1, <2>4, <2>6, <2>7 DEF Contract!Advance
  <2> QED BY <2>1, <2>8, <1>a
<1>7. ASSUME NEW row \in Message, NEW t \in NotifiedTopics, NEW i \in DOMAIN log[t],
             Announces(row, log[t][i]), NEW key, db' = [db EXCEPT ![n] = @ \union {key}],
             outbox' = [outbox EXCEPT ![n] = Append(@, row)]
      PROVE  Simulated
  <2> DEFINE o == row.order
  <2>1. o \in Orders /\ row.order = log[t][i].order /\ row.cause = t
    BY <1>7, Names DEF Message, Announces, IInv, LoggedFromOutbox
  <2>2. \A s \in BusinessServices : db'[s] = db[s]
    BY <1>7, <1>t DEF TypeOK, BusinessServices
  <2>3. /\ \A j \in DOMAIN outbox[n] : j \in DOMAIN outbox'[n] /\ outbox'[n][j] = outbox[n][j]
        /\ \A j \in DOMAIN outbox'[n] :
              \/ j \in DOMAIN outbox[n] /\ outbox'[n][j] = outbox[n][j]
              \/ j = Len(outbox[n]) + 1 /\ outbox'[n][j] = row
    <3>1. outbox' = [outbox EXCEPT ![n] = Append(@, row)]
      BY <1>7
    <3>2. \A j \in DOMAIN outbox[n] : j \in DOMAIN outbox'[n] /\ outbox'[n][j] = outbox[n][j]
      BY <1>t, <3>1, OutboxAppend
    <3>3. \A j \in DOMAIN outbox'[n] :
              \/ j \in DOMAIN outbox[n] /\ outbox'[n][j] = outbox[n][j]
              \/ j = Len(outbox[n]) + 1 /\ outbox'[n][j] = row
      BY <1>t, <3>1, OutboxAppend
    <3> QED BY <3>2, <3>3
  <2>4. \E j \in DOMAIN outbox'[n] : outbox'[n][j] = row
    <3>1. outbox' = [outbox EXCEPT ![n] = Append(@, row)]
      BY <1>7
    <3>2. /\ Len(outbox[n]) + 1 \in DOMAIN outbox'[n]
          /\ outbox'[n][Len(outbox[n]) + 1] = row
      BY <1>t, <3>1, OutboxAppend
    <3> QED BY <3>2
  <2>5. AnnouncedOf(o)' = AnnouncedOf(o) \union {t}
    BY <2>1, <2>3, <2>4 DEF AnnouncedOf
  <2>6. \A p \in Orders : p # o => AnnouncedOf(p)' = AnnouncedOf(p)
    BY <2>1, <2>3 DEF AnnouncedOf
  <2>7. announced' = [announced EXCEPT ![o] = @ \union {t}]
    BY <2>1, <2>5, <2>6
  <2>8. stage' = stage
    BY <1>2, <2>2
  <2>9. t \in Contract!Happened(StageOf(o))
    BY <2>1, LoggedHappened
  <2>10. CASE t \in AnnouncedOf(o)
    <3>1. AnnouncedOf(o)' = AnnouncedOf(o)
      BY <2>5, <2>10
    <3>2. announced' = announced
      BY <2>6, <3>1
    <3> QED BY <1>3, <2>8, <3>2
  <2>11. CASE t \notin AnnouncedOf(o)
    <3>1. Contract!Announce(o)
      BY <2>1, <2>7, <2>8, <2>9, <2>11 DEF Contract!Announce
    <3> QED BY <2>1, <3>1, <1>a
  <2> QED BY <2>10, <2>11
<1>8. CASE ~ UNCHANGED <<db, outbox>>
  <2>1. PICK s \in Services, row \in Message :
          /\ outbox' = [outbox EXCEPT ![s] = Append(@, row)]
          /\ UNCHANGED sku
          /\ \/ /\ s \in BusinessServices /\ row.order \notin db[s]
                /\ db' = [db EXCEPT ![s] = @ \union {row.order}]
             \/ s = "order" /\ UNCHANGED db
             \/ /\ s = n
                /\ \E t \in NotifiedTopics : \E i \in DOMAIN log[t] :
                     /\ Announces(row, log[t][i])
                     /\ db' = [db EXCEPT ![s] = @ \union {log[t][i].id}]
    BY <1>8, <1>t, RowCases
  <2>2. CASE s \in BusinessServices /\ row.order \notin db[s]
             /\ db' = [db EXCEPT ![s] = @ \union {row.order}]
    BY <1>6, <2>1, <2>2
  <2>3. CASE s = "order" /\ UNCHANGED db
    BY <1>5, <2>1, <2>3
  <2>4. CASE /\ s = n
             /\ \E t \in NotifiedTopics : \E i \in DOMAIN log[t] :
                  /\ Announces(row, log[t][i])
                  /\ db' = [db EXCEPT ![s] = @ \union {log[t][i].id}]
    BY <1>7, <2>1, <2>4
  <2> QED BY <2>1, <2>2, <2>3, <2>4
<1> QED
  BY <1>4, <1>8

\* The five services together implement the per-order contract.
THEOREM SagaImplementsContract == Spec => ImplementsContract
<1>1. Init => Contract!Init
  BY ContractInit
<1>2. IInv /\ IInv' /\ [Next]_vars =>
        [Contract!Next]_(<<[o \in Orders |-> StageOf(o)], [o \in Orders |-> AnnouncedOf(o)]>>)
  BY ContractStep
<1> QED
  BY <1>1, <1>2, Invariance, PTL DEF Spec, ImplementsContract, Contract!Spec

-----------------------------------------------------------------------------
(* The relay keeps the order of the outbox. *)

LEMMA RelayKeepsOrderStep ==
  ASSUME IInv, IInv', RelayKeepsOrder, [Next]_vars
  PROVE  RelayKeepsOrder'
<1>t. TypeOK /\ TypeOK' /\ RowsAreOwned /\ Grows /\ RelayBounded
  BY OnlyGrows DEF IInv
<1> SUFFICES ASSUME NEW t \in EventTopics, NEW i \in DOMAIN log'[t],
                    NEW j \in DOMAIN log'[t], i <= j
             PROVE  \E a, b \in DOMAIN outbox'[Owner(t)] :
                      /\ a <= b /\ b <= published'[Owner(t)] + 1
                      /\ outbox'[Owner(t)][a] = log'[t][i]
                      /\ outbox'[Owner(t)][b] = log'[t][j]
  BY DEF RelayKeepsOrder
<1> DEFINE s == Owner(t)
<1>1. t \in Topics /\ s \in Services
  BY Names
<1> HIDE DEF s
<1>2. \A a \in DOMAIN outbox[s] : a \in DOMAIN outbox'[s] /\ outbox'[s][a] = outbox[s][a]
  BY <1>1, <1>t DEF Grows
<1>3. published[s] \in Nat /\ published'[s] \in Nat /\ published[s] <= published'[s]
  <2>1. published[s] \in Nat /\ published'[s] \in Nat
    BY <1>1, <1>t DEF TypeOK
  <2>2. ASSUME NEW q \in Services, published' = [published EXCEPT ![q] = @ + 1]
        PROVE  published[s] <= published'[s]
    <3>1. published \in [Services -> Nat]
      BY <1>t DEF TypeOK
    <3>2. published'[s] = IF s = q THEN published[s] + 1 ELSE published[s]
      BY <1>1, <2>2, <3>1
    <3> QED BY <2>1, <3>2
  <2>3. UNCHANGED published => published[s] <= published'[s]
    BY <2>1
  <2>4. \/ UNCHANGED published
        \/ \E q \in Services : published' = [published EXCEPT ![q] = @ + 1]
    BY <1>t, RelayCases DEF EmitsRow
  <2> QED BY <2>1, <2>2, <2>3, <2>4
<1>4. ASSUME NEW p \in DOMAIN log[t], NEW r \in DOMAIN log[t], p <= r
      PROVE  \E a, b \in DOMAIN outbox[s] :
               /\ a <= b /\ b <= published[s] + 1
               /\ outbox[s][a] = log[t][p]
               /\ outbox[s][b] = log[t][r]
  BY <1>4 DEF RelayKeepsOrder, s
<1>n. /\ \A n \in DOMAIN log[t] : n \in Nat /\ log'[t][n] = log[t][n]
      /\ DOMAIN log[t] = 1..Len(log[t]) /\ Len(log[t]) \in Nat
      /\ DOMAIN outbox[s] \subseteq Nat
  BY <1>1, <1>t, LogLength, OutboxLength DEF Grows
<1>5. CASE i \in DOMAIN log[t] /\ j \in DOMAIN log[t]
  <2>1. PICK a \in DOMAIN outbox[s], b \in DOMAIN outbox[s] :
          /\ a <= b /\ b <= published[s] + 1
          /\ outbox[s][a] = log[t][i]
          /\ outbox[s][b] = log[t][j]
    BY <1>4, <1>5
  <2>2. b <= published'[s] + 1
    BY <1>3, <1>n, <2>1
  <2> QED BY <1>2, <1>5, <1>n, <2>1, <2>2 DEF s
<1>6. CASE ~ (i \in DOMAIN log[t] /\ j \in DOMAIN log[t])
  <2> DEFINE b == published[s] + 1
             m == outbox[s][b]
  <2>1. /\ b \in DOMAIN outbox[s] /\ published'[s] = published[s]
        /\ \A n \in DOMAIN log'[t] :
             n \in DOMAIN log[t] \/ (n = Len(log[t]) + 1 /\ log'[t][n] = m)
    <3>0. \A n \in DOMAIN log'[t] : n \in DOMAIN log[t] \/ n > Len(log[t])
      BY <1>1, <1>t, <1>n, LogLength
    <3>1. ASSUME NEW u \in Topics, NEW x \in Message, Produce(u, x)
          PROVE  /\ u = t
                 /\ \A n \in DOMAIN log'[t] :
                      n \in DOMAIN log[t] \/ (n = Len(log[t]) + 1 /\ log'[t][n] = x)
      <4>1. \A n \in DOMAIN log'[t] :
              \/ n \in DOMAIN log[t] /\ log'[t][n] = log[t][n]
              \/ t = u /\ n = Len(log[u]) + 1 /\ log'[t][n] = x
        BY <1>1, <3>1, <1>t, LogAppend, Zenon
      <4>2. u = t
        BY <1>6, <4>1
      <4> QED BY <4>1, <4>2
    <3>2. ~ UNCHANGED log
      BY <1>6
    <3>3. CASE ProducesCommand
      BY <3>1, <3>3, CommandType, Names DEF ProducesCommand
    <3>4. CASE DeadLetters
      <4>1. "payment" \in Services /\ "order.created" \in Topics
        BY DEF Services, Topics, EventTopics, NotifiedTopics
      <4> QED BY <1>t, <3>1, <3>4, <4>1, NextMessageType, Names DEF DeadLetters
    <3>5. CASE EmitsRow
      <4>1. PICK q \in Services :
              /\ published[q] < Len(outbox[q])
              /\ LET x == outbox[q][published[q] + 1] IN Produce(x.type, x)
              /\ UNCHANGED published
        BY <3>5 DEF EmitsRow
      <4> DEFINE x == outbox[q][published[q] + 1]
      <4>2. published[q] + 1 \in DOMAIN outbox[q]
        BY <1>t, <4>1 DEF TypeOK
      <4>3. x \in Message /\ x.type \in Topics /\ Owner(x.type) = q
        BY <1>t, <4>2, RowType DEF RowsAreOwned
      <4>4. Produce(x.type, x)
        BY <4>1
      <4>5. /\ x.type = t
            /\ \A n \in DOMAIN log'[t] :
                 n \in DOMAIN log[t] \/ (n = Len(log[t]) + 1 /\ log'[t][n] = x)
        <5> HIDE DEF x
        <5> QED BY <3>1, <4>3, <4>4
      <4>6. q = s
        BY <4>3, <4>5 DEF s
      <4> QED BY <4>1, <4>2, <4>5, <4>6
    <3> QED BY <1>t, <3>2, <3>3, <3>4, <3>5, TopicCases
  <2>2. j = Len(log[t]) + 1 /\ log'[t][j] = m
    <3>1. \A n \in DOMAIN log[t] : n <= Len(log[t])
      BY <1>n
    <3>2. i \notin DOMAIN log[t] => i = Len(log[t]) + 1
      BY <2>1
    <3>3. j \notin DOMAIN log[t] \/ i \notin DOMAIN log[t]
      BY <1>6
    <3>4. i \notin DOMAIN log[t] => j \notin DOMAIN log[t]
      BY <1>n, <3>1, <3>2
    <3> QED BY <2>1, <3>3, <3>4
  <2>3. outbox'[s][b] = m /\ b \in DOMAIN outbox'[s] /\ b <= b
    BY <1>2, <1>3, <2>1
  <2>4. CASE i \in DOMAIN log[t]
    <3>1. i <= i
      BY <1>n, <2>4
    <3>2. PICK a \in DOMAIN outbox[s] : a <= b /\ outbox[s][a] = log[t][i]
      <4>1. PICK a \in DOMAIN outbox[s], c \in DOMAIN outbox[s] :
              a <= c /\ c <= published[s] + 1 /\ outbox[s][a] = log[t][i]
        BY <1>4, <2>4, <3>1
      <4>2. a <= b
        BY <1>3, <1>n, <4>1
      <4> QED BY <4>1, <4>2
    <3> QED BY <1>2, <1>n, <2>1, <2>2, <2>3, <2>4, <3>2 DEF s
  <2>5. CASE i \notin DOMAIN log[t]
    <3>1. log'[t][i] = m
      BY <2>1, <2>5
    <3> QED BY <2>1, <2>2, <2>3, <3>1 DEF s
  <2> QED BY <2>4, <2>5
<1> QED
  BY <1>5, <1>6

\* Whatever crashes in between, the relay publishes events in the order they
\* were written in.
THEOREM RelayedInOrder == Spec => []TopicsKeepOrder
<1>1. Init => RelayKeepsOrder
  <2> SUFFICES ASSUME Init PROVE \A t \in EventTopics : DOMAIN log[t] = {}
    BY DEF RelayKeepsOrder
  <2>1. \A t \in EventTopics : log[t] = <<>>
    BY Names DEF Init
  <2> QED BY <2>1
<1>2. IInv /\ IInv' /\ RelayKeepsOrder /\ [Next]_vars => RelayKeepsOrder'
  BY RelayKeepsOrderStep
<1>3. RelayKeepsOrder => TopicsKeepOrder
  BY DEF RelayKeepsOrder, TopicsKeepOrder
<1> QED
  BY <1>1, <1>2, <1>3, Invariance, PTL DEF Spec

-----------------------------------------------------------------------------
(* The saga at rest. *)

\* An order that was placed has its command in the topic.
LEMMA PlacedAreCommandedStep ==
  ASSUME IInv, PlacedAreCommanded, [Next]_vars
  PROVE  PlacedAreCommanded'
<1>t. TypeOK /\ Grows /\ "order.create" \in Topics
  BY OnlyGrows, Names DEF IInv
<1> SUFFICES ASSUME NEW o \in Orders, sku'[o] # "unplaced" PROVE Logged("order.create", o)'
  BY DEF PlacedAreCommanded
<1>1. CASE sku[o] # "unplaced"
  BY <1>t, <1>1 DEF PlacedAreCommanded, Logged, Grows
<1>2. CASE sku[o] = "unplaced"
  <2>1. PlaceOrder(o)
    <3>1. ASSUME NEW p \in Orders, PlaceOrder(p) PROVE p = o
      BY <1>t, <1>2, <3>1 DEF PlaceOrder, TypeOK
    <3>2. (\A p \in Orders : ~ PlaceOrder(p)) => UNCHANGED sku
      BY DEF Next, Handler, PoisonFails, OutageFails, DeadLetter, vars, ResendCommand,
           AskRedeliver, Commit, Emit, Mark, MarkFails, Restart, CreateOrder,
           RedeliverOrder, HandleOrderCreated, HandlePaymentSucceeded,
           HandlePaymentFailed, Notify, Consumed
    <3> QED BY <1>2, <3>1, <3>2
  <2>2. Produce("order.create", Command("order.create", o))
    BY <2>1 DEF PlaceOrder
  <2>3. Command("order.create", o) \in Message /\ Command("order.create", o).order = o
    BY CommandType DEF Command, CommandTopics
  <2> QED BY <1>t, <2>2, <2>3, LogAppend DEF Logged
<1> QED
  BY <1>1, <1>2

LEMMA PlacedCommanded == Spec => []PlacedAreCommanded
<1>1. Init => PlacedAreCommanded
  BY DEF Init, PlacedAreCommanded
<1> QED
  BY <1>1, PlacedAreCommandedStep, Invariance, PTL DEF Spec

\* At rest every message of a deployed service has had its effect ...
LEMMA RestEffect ==
  ASSUME IInv, AtRest, NEW s \in Services, s \in Deployed,
         NEW t \in Subscribed(s) \ {"order.redeliver"}, NEW i \in DOMAIN log[t]
  PROVE  Effect(s, log[t][i])
<1>1. t \in Topics /\ log[t] \in Seq(Message)
  BY Names DEF IInv, TypeOK
<1>2. pos[s][t] = Len(log[t])
  BY DEF AtRest
<1>3. i \in 1..pos[s][t]
  BY <1>1, <1>2
<1> QED
  BY <1>3 DEF IInv, ConsumedIsDurable

\* ... and every row of it is in its topic.
LEMMA RestLogged ==
  ASSUME IInv, AtRest, NEW s \in Services, s \in Deployed, NEW j \in DOMAIN outbox[s]
  PROVE  /\ outbox[s][j].type \in EventTopics /\ Owner(outbox[s][j].type) = s
         /\ \E i \in DOMAIN log[outbox[s][j].type] :
              log[outbox[s][j].type][i] = outbox[s][j]
<1>1. outbox[s] \in Seq(Message)
  BY DEF IInv, TypeOK
<1>2. published[s] = Len(outbox[s])
  BY DEF AtRest
<1>3. j \in 1..published[s]
  BY <1>1, <1>2
<1> QED
  BY <1>3 DEF IInv, PublishedIsLogged, RowsAreOwned

\* Who listens to what, and who writes what.
LEMMA Wiring ==
  /\ "order.create" \in Subscribed("order") \ {"order.redeliver"}
  /\ "order.created" \in Subscribed("payment") \ {"order.redeliver"}
  /\ "payment.succeeded" \in Subscribed("shipping") \ {"order.redeliver"}
  /\ "payment.failed" \in Subscribed("refund") \ {"order.redeliver"}
  /\ NotifiedTopics \subseteq Subscribed("notification") \ {"order.redeliver"}
  /\ BusinessServices = {"order", "payment", "shipping", "refund"}
  /\ \A t \in EventTopics :
      /\ Owner(t) = "order" => t = "order.created"
      /\ Owner(t) = "shipping" => t = "shipment.created"
      /\ Owner(t) = "refund" => t = "refund.initiated"
      /\ Owner(t) = "notification" => t = "notification.sent"
  /\ "order.created" \in NotifiedTopics /\ Owner("order.created") = "order"
  /\ "payment.succeeded" \in NotifiedTopics /\ Owner("payment.succeeded") = "payment"
  /\ "payment.failed" \in NotifiedTopics /\ Owner("payment.failed") = "payment"
  /\ "shipment.created" \in NotifiedTopics /\ Owner("shipment.created") = "shipping"
  /\ "refund.initiated" \in NotifiedTopics /\ Owner("refund.initiated") = "refund"
  BY DEF Subscribed, CommandTopics, PaymentTopics, ShippingTopics, RefundTopics,
         NotifiedTopics, BusinessServices, Services, EventTopics, Owner

\* At rest a row of an order means an event of its type in the topic.
LEMMA RestKey ==
  ASSUME IInv, AtRest, BusinessServices \subseteq Deployed,
         NEW s \in BusinessServices, NEW o \in Orders, o \in db[s]
  PROVE  \E t \in EventTopics :
           /\ Owner(t) = s /\ Logged(t, o)
           /\ s = "payment" => t = PaymentType(o)
<1>0. s \in Services /\ s \in Deployed
  BY Names
<1>1. PICK j \in DOMAIN outbox[s] : outbox[s][j].order = o
  BY DEF IInv, RowsMatchKeys
<1>2. /\ outbox[s][j].type \in EventTopics /\ Owner(outbox[s][j].type) = s
      /\ Logged(outbox[s][j].type, o)
  BY <1>0, <1>1, RestLogged DEF Logged
<1>3. s = "payment" => outbox[s][j].type = PaymentType(o)
  BY <1>1 DEF IInv, PaymentRowsFollowItems
<1> QED
  BY <1>2, <1>3

LEMMA SettledState ==
  ASSUME IInv, PlacedAreCommanded, AtRest, BusinessServices \subseteq Deployed,
         NEW o \in Orders, sku[o] # "unplaced"
  PROVE  Outcome(o)
<1>w. /\ {"order", "payment", "shipping", "refund"} \subseteq Services
      /\ {"order", "payment", "shipping", "refund"} \subseteq Deployed
  BY Wiring, Names
<1>k. ASSUME NEW s \in BusinessServices \ {"payment"}, NEW t \in Topics,
             t \in Subscribed(s) \ {"order.redeliver"}, Logged(t, o)
      PROVE  o \in db[s]
  <2>1. PICK i \in DOMAIN log[t] : log[t][i].order = o
    BY <1>k DEF Logged
  <2>2. s \in Services /\ s \in Deployed /\ s # "notification" /\ s # "payment"
    BY Names
  <2>3. Effect(s, log[t][i])
    BY <1>k, <2>2, RestEffect
  <2> QED BY <2>1, <2>2, <2>3 DEF Effect, IInv, RowsMatchKeys
<1>1. o \in db["order"]
  BY <1>k, <1>w, Wiring, Names DEF PlacedAreCommanded
<1>2. Logged("order.created", o)
  BY <1>1, <1>w, RestKey, Wiring
<1>3. CASE Logged("order.created.DLQ", o)
  BY <1>3 DEF Outcome
<1>4. CASE ~ Logged("order.created.DLQ", o)
  <2>1. PICK i \in DOMAIN log["order.created"] : log["order.created"][i].order = o
    BY <1>2 DEF Logged
  <2>2. Effect("payment", log["order.created"][i])
    BY <1>w, RestEffect, Wiring
  <2>3. PICK j \in DOMAIN outbox["payment"] : outbox["payment"][j].order = o
    BY <2>1, <2>2, <1>4 DEF Effect, Logged
  <2>4. o \in db["payment"]
    BY <2>3, Wiring DEF IInv, RowsMatchKeys
  <2>5. sku[o] \in {"pays", "declined"}
    BY <2>4 DEF IInv, Causality
  <2>6. Logged(PaymentType(o), o)
    BY <2>4, RestKey, Wiring
  <2>7. CASE sku[o] = "pays"
    <3>1. Logged("payment.succeeded", o)
      BY <2>6, <2>7 DEF PaymentType
    <3>2. o \in db["shipping"]
      BY <1>k, <3>1, Wiring, Names
    <3>3. Logged("shipment.created", o)
      BY <3>2, RestKey, Wiring
    <3> QED BY <2>7, <3>3 DEF Outcome
  <2>8. CASE sku[o] = "declined"
    <3>1. Logged("payment.failed", o)
      BY <2>6, <2>8 DEF PaymentType
    <3>2. o \in db["refund"]
      BY <1>k, <3>1, Wiring, Names
    <3>3. Logged("refund.initiated", o)
      BY <3>2, RestKey, Wiring
    <3> QED BY <2>8, <3>3 DEF Outcome
  <2> QED BY <2>5, <2>7, <2>8
<1> QED
  BY <1>3, <1>4

\* With the business services running, a saga at rest has settled every order.
THEOREM RestMeansSettled ==
  ASSUME BusinessServices \subseteq Deployed
  PROVE  Spec => []SettledAtRest
<1>1. IInv /\ PlacedAreCommanded => SettledAtRest
  BY SettledState DEF SettledAtRest
<1> QED
  BY <1>1, Invariance, PlacedCommanded, PTL

\* What was announced has happened, and an event that was published is announced.
LEMMA AnnouncedHappened ==
  ASSUME IInv, NEW o \in Orders
  PROVE  AnnouncedOf(o) \subseteq Contract!Happened(StageOf(o))
<1> SUFFICES ASSUME NEW t \in AnnouncedOf(o) PROVE t \in Contract!Happened(StageOf(o))
  OBVIOUS
<1>1. PICK j \in DOMAIN outbox["notification"] :
        outbox["notification"][j].order = o /\ outbox["notification"][j].cause = t
  BY DEF AnnouncedOf
<1>2. PICK u \in NotifiedTopics : \E i \in DOMAIN log[u] :
        Announces(outbox["notification"][j], log[u][i])
  BY DEF IInv, NotificationsMatchIds
<1>3. PICK i \in DOMAIN log[u] : log[u][i].order = o /\ log[u][i].type = t
  BY <1>1, <1>2 DEF Announces
<1>4. u = t
  BY <1>3, Names DEF IInv, LoggedFromOutbox
<1> QED
  BY <1>3, <1>4, LoggedHappened

LEMMA AnnouncedAtRest ==
  ASSUME IInv, AtRest, "notification" \in Deployed, NEW o \in Orders,
         NEW t \in NotifiedTopics, Logged(t, o)
  PROVE  t \in AnnouncedOf(o)
<1>1. PICK i \in DOMAIN log[t] : log[t][i].order = o
  BY DEF Logged
<1>2. log[t][i].type = t
  BY Names DEF IInv, LoggedFromOutbox
<1>3. Effect("notification", log[t][i])
  BY RestEffect, Wiring, Names
<1> QED
  BY <1>1, <1>2, <1>3 DEF Effect, AnnouncedOf

LEMMA HappenedAtRest ==
  ASSUME IInv, AtRest, Services \subseteq Deployed, NEW o \in Orders,
         NEW t \in Contract!Happened(StageOf(o))
  PROVE  t \in NotifiedTopics /\ Logged(t, o)
<1>d. BusinessServices \subseteq Deployed
  BY Names
<1>1. /\ o \in db["shipping"] => o \in db["payment"] /\ sku[o] = "pays"
      /\ o \in db["refund"] => o \in db["payment"] /\ sku[o] = "declined"
      /\ o \in db["payment"] => o \in db["order"] /\ sku[o] \in {"pays", "declined"}
  BY StageOrder
<1>2. /\ o \in db["shipping"] => StageOf(o) = "shipped"
      /\ o \in db["refund"] => StageOf(o) = "refunded"
      /\ o \notin db["shipping"] /\ o \notin db["refund"] /\ o \in db["payment"] =>
              StageOf(o) = IF sku[o] = "declined" THEN "declined" ELSE "paid"
      /\ o \notin db["payment"] => StageOf(o) = IF o \in db["order"] THEN "created" ELSE "none"
  BY <1>1, StageCases
<1>3. /\ o \in db["order"] => Logged("order.created", o)
      /\ o \in db["payment"] => Logged(PaymentType(o), o)
      /\ o \in db["shipping"] => Logged("shipment.created", o)
      /\ o \in db["refund"] => Logged("refund.initiated", o)
  BY <1>d, RestKey, Wiring
<1>4. PaymentType(o) = IF sku[o] = "declined" THEN "payment.failed" ELSE "payment.succeeded"
  BY DEF PaymentType
<1>5. CASE o \in db["shipping"]
  BY <1>1, <1>2, <1>3, <1>4, <1>5, Wiring DEF Contract!Happened
<1>6. CASE o \in db["refund"]
  BY <1>1, <1>2, <1>3, <1>4, <1>6, Wiring DEF Contract!Happened
<1>7. CASE o \notin db["shipping"] /\ o \notin db["refund"] /\ o \in db["payment"]
  <2>1. CASE sku[o] = "declined"
    BY <1>1, <1>2, <1>3, <1>4, <1>7, <2>1, Wiring DEF Contract!Happened
  <2>2. CASE sku[o] = "pays"
    BY <1>1, <1>2, <1>3, <1>4, <1>7, <2>2, Wiring DEF Contract!Happened
  <2> QED BY <1>1, <1>7, <2>1, <2>2
<1>8. CASE o \notin db["payment"]
  BY <1>1, <1>2, <1>3, <1>8, Wiring DEF Contract!Happened
<1> QED
  BY <1>5, <1>6, <1>7, <1>8

\* With every service running, a saga at rest has told the client exactly what
\* happened to each order.
THEOREM RestMeansTold ==
  ASSUME Services \subseteq Deployed
  PROVE  Spec => []AllToldAtRest
<1>1. ASSUME IInv, AtRest, NEW o \in Orders
      PROVE  AnnouncedOf(o) = Contract!Happened(StageOf(o))
  <2>1. "notification" \in Deployed
    BY Names
  <2> QED BY <1>1, <2>1, AnnouncedHappened, AnnouncedAtRest, HappenedAtRest
<1>2. IInv => AllToldAtRest
  BY <1>1 DEF AllToldAtRest
<1> QED
  BY <1>2, Invariance, PTL

-----------------------------------------------------------------------------
(* Copies and dead letters have causes. *)

LEMMA RedeliverStays ==
  ASSUME TypeOK, [Next]_vars, NEW o, Logged("order.redeliver", o)
  PROVE  Logged("order.redeliver", o)'
<1>1. "order.redeliver" \in Topics
  BY DEF Topics, CommandTopics
<1> QED
  BY <1>1, OnlyGrows DEF Grows, Logged

\* A new row is one of a new order, a new announcement or an asked-for copy.
LEMMA RowsHaveACauseStep ==
  ASSUME IInv, IInv', RowsHaveACause, [Next]_vars
  PROVE  RowsHaveACause'
<1>t. TypeOK /\ TypeOK' /\ RowsMatchKeys /\ NotifiedOnce'
  BY DEF IInv
<1>r. \A o : Logged("order.redeliver", o) => Logged("order.redeliver", o)'
  BY <1>t, RedeliverStays
<1>1. CASE UNCHANGED outbox
  BY <1>1, <1>r DEF RowsHaveACause
<1>2. ASSUME NEW s \in Services, NEW row \in Message,
             outbox' = [outbox EXCEPT ![s] = Append(@, row)],
             \/ \A j \in DOMAIN outbox[s] : outbox[s][j] # row
             \/ Logged("order.redeliver", row.order)
      PROVE  RowsHaveACause'
  <2>1. \A q \in Services : \A j \in DOMAIN outbox'[q] :
            \/ j \in DOMAIN outbox[q] /\ outbox'[q][j] = outbox[q][j]
            \/ q = s /\ j = Len(outbox[s]) + 1 /\ outbox'[q][j] = row
    BY <1>2, <1>t, OutboxAppend
  <2> QED BY <1>2, <1>r, <2>1 DEF RowsHaveACause
<1>3. ASSUME NEW s \in BusinessServices, NEW row \in Message,
             outbox' = [outbox EXCEPT ![s] = Append(@, row)], row.order \notin db[s]
      PROVE  RowsHaveACause'
  <2>1. s \in Services
    BY Names
  <2>2. \A j \in DOMAIN outbox[s] : outbox[s][j] # row
    BY <1>3, <1>t DEF RowsMatchKeys
  <2> QED BY <1>2, <1>3, <2>1, <2>2
<1>4. ASSUME NEW row \in Message,
             outbox' = [outbox EXCEPT !["notification"] = Append(@, row)]
      PROVE  RowsHaveACause'
  <2> DEFINE n == Len(outbox["notification"]) + 1
  <2>1. "notification" \in Services
    BY Names
  <2>2. /\ n \in DOMAIN outbox'["notification"] /\ outbox'["notification"][n] = row
        /\ \A j \in DOMAIN outbox["notification"] :
             /\ j \in DOMAIN outbox'["notification"]
             /\ outbox'["notification"][j] = outbox["notification"][j]
    BY <1>4, <1>t, <2>1, OutboxAppend
  <2>3. \A j \in DOMAIN outbox["notification"] : j # n
    BY <1>t, <2>1 DEF TypeOK
  <2>4. \A j \in DOMAIN outbox["notification"] : outbox["notification"][j] # row
    <3> HIDE DEF n
    <3> QED BY <1>t, <2>2, <2>3 DEF NotifiedOnce
  <2> QED BY <1>2, <1>4, <2>1, <2>4
<1> QED
  BY <1>t, <1>1, <1>2, <1>3, <1>4, RowCases

\* While nothing has failed, a relay drops a row only to mark it.
LEMMA FaultFreeRelay ==
  ASSUME TypeOK, [Next]_vars, faults' = 0
  PROVE  /\ faults = 0
         /\ \/ UNCHANGED <<published, inflight>>
            \/ EmitsRow /\ UNCHANGED outbox
            \/ \E s \in Services :
                 /\ inflight[s]
                 /\ published' = [published EXCEPT ![s] = @ + 1]
                 /\ inflight' = [inflight EXCEPT ![s] = FALSE]
                 /\ UNCHANGED <<outbox, log>>
<1>1. faults \in Nat /\ ~Fault
  BY SagaAssumption DEF TypeOK, Fault
<1>2. UNCHANGED faults
  BY <1>1 DEF Next, Handler, PoisonFails, OutageFails, DeadLetter, vars, PlaceOrder,
         ResendCommand, AskRedeliver, Commit, Emit, EmitsRow, Mark, MarkFails, Restart,
         CreateOrder, RedeliverOrder, HandleOrderCreated, HandlePaymentSucceeded,
         HandlePaymentFailed, Notify, Consumed
<1>3. \A s \in Services : ~MarkFails(s) /\ ~Restart(s)
  BY <1>1 DEF MarkFails, Restart
<1> QED
  BY <1>2, <1>3 DEF Next, Handler, PoisonFails, OutageFails, DeadLetter, vars, PlaceOrder,
         ResendCommand, AskRedeliver, Commit, Emit, EmitsRow, Mark,
         CreateOrder, RedeliverOrder, HandleOrderCreated, HandlePaymentSucceeded,
         HandlePaymentFailed, Notify, Consumed

\* A topic of events grows by the row after the marked ones, and only as its relay
\* takes that row in flight.
LEMMA TopicGrows ==
  ASSUME TypeOK, RowsAreOwned, [Next]_vars, NEW t \in EventTopics
  PROVE  \/ /\ DOMAIN log'[t] = DOMAIN log[t]
            /\ \A i \in DOMAIN log[t] : log'[t][i] = log[t][i]
         \/ LET s == Owner(t)
                b == published[s] + 1
            IN  /\ b \in DOMAIN outbox[s]
                /\ ~inflight[s] /\ inflight'[s]
                /\ UNCHANGED <<published, outbox>>
                /\ \A i \in DOMAIN log[t] : log'[t][i] = log[t][i]
                /\ \A i \in DOMAIN log'[t] :
                     i \in DOMAIN log[t] \/ (i = Len(log[t]) + 1 /\ log'[t][i] = outbox[s][b])
<1>1. t \in Topics
  BY Names
<1>g. \A i \in DOMAIN log[t] : i \in DOMAIN log'[t] /\ log'[t][i] = log[t][i]
  BY <1>1, OnlyGrows DEF Grows
<1>2. ASSUME NEW u \in Topics, NEW x \in Message, Produce(u, x), u # t
      PROVE  DOMAIN log'[t] = DOMAIN log[t]
  <2>1. \A i \in DOMAIN log'[t] : i \in DOMAIN log[t]
    BY <1>1, <1>2, LogAppend
  <2> QED BY <1>g, <2>1
<1>3. CASE UNCHANGED log
  BY <1>3
<1>4. CASE ProducesCommand
  <2>1. DOMAIN log'[t] = DOMAIN log[t]
    BY <1>2, <1>4, CommandType, Names DEF ProducesCommand
  <2> QED BY <1>g, <2>1
<1>5. CASE DeadLetters
  <2>1. "payment" \in Services /\ "order.created" \in Topics
    BY DEF Services, Topics, EventTopics, NotifiedTopics
  <2>2. DOMAIN log'[t] = DOMAIN log[t]
    BY <1>2, <1>5, <2>1, NextMessageType, Names DEF DeadLetters
  <2> QED BY <1>g, <2>2
<1>6. CASE EmitsRow /\ UNCHANGED <<sku, db, outbox>>
  <2>1. PICK q \in Services :
          /\ ~ inflight[q]
          /\ inflight' = [inflight EXCEPT ![q] = TRUE]
          /\ published[q] < Len(outbox[q])
          /\ LET x == outbox[q][published[q] + 1] IN Produce(x.type, x)
          /\ UNCHANGED published
    BY <1>6 DEF EmitsRow
  <2> DEFINE x == outbox[q][published[q] + 1]
  <2>2. published[q] + 1 \in DOMAIN outbox[q]
    BY <2>1 DEF TypeOK
  <2>3. x \in Message /\ x.type \in Topics /\ Owner(x.type) = q
    BY <2>2, RowType DEF RowsAreOwned
  <2>4. Produce(x.type, x) /\ inflight'[q]
    BY <2>1 DEF TypeOK
  <2>5. CASE x.type # t
    <3>1. DOMAIN log'[t] = DOMAIN log[t]
      <4> HIDE DEF x
      <4> QED BY <1>2, <2>3, <2>4, <2>5
    <3> QED BY <1>g, <3>1
  <2>6. CASE x.type = t
    <3>1. \A i \in DOMAIN log'[t] :
            i \in DOMAIN log[t] \/ (i = Len(log[t]) + 1 /\ log'[t][i] = x)
      <4> HIDE DEF x
      <4> QED BY <1>1, <2>3, <2>4, <2>6, LogAppend
    <3>2. q = Owner(t)
      BY <2>3, <2>6
    <3> QED BY <1>g, <1>6, <2>1, <2>2, <2>4, <3>1, <3>2
  <2> QED BY <2>5, <2>6
<1> QED
  BY <1>3, <1>4, <1>5, <1>6, TopicCases

\* How far the relay of s is: rows up to here may be in a topic.
LEMMA LoggedIsMarkedStep ==
  ASSUME IInv, IInv', LoggedIsMarked, [Next]_vars
  PROVE  LoggedIsMarked'
<1>t. TypeOK /\ TypeOK' /\ RowsAreOwned /\ Grows
  BY OnlyGrows DEF IInv
<1> SUFFICES ASSUME faults' = 0, NEW t \in EventTopics, NEW i \in DOMAIN log'[t]
             PROVE  \E a \in DOMAIN outbox'[Owner(t)] :
                      /\ outbox'[Owner(t)][a] = log'[t][i]
                      /\ a <= published'[Owner(t)] \/ inflight'[Owner(t)]
                      /\ a <= published'[Owner(t)] + 1
  BY DEF LoggedIsMarked
<1> DEFINE s == Owner(t)
<1>1. s \in Services
  BY Names
<1>2. /\ published[s] \in Nat /\ published'[s] \in Nat /\ DOMAIN outbox[s] \subseteq Nat
      /\ \A a \in DOMAIN outbox[s] : a \in DOMAIN outbox'[s] /\ outbox'[s][a] = outbox[s][a]
  BY <1>1, <1>t DEF Grows, TypeOK
<1>3. /\ faults = 0
      /\ published[s] <= published'[s]
      /\ inflight[s] => inflight'[s] \/ published'[s] = published[s] + 1
  <2>1. ASSUME NEW q \in Services,
               inflight[q],
               published' = [published EXCEPT ![q] = @ + 1],
               inflight' = [inflight EXCEPT ![q] = FALSE]
        PROVE  /\ published[s] <= published'[s]
               /\ inflight[s] => inflight'[s] \/ published'[s] = published[s] + 1
    <3>1. published'[s] = IF s = q THEN published[s] + 1 ELSE published[s]
      BY <1>1, <1>t, <2>1 DEF TypeOK
    <3>2. inflight'[s] = IF s = q THEN FALSE ELSE inflight[s]
      BY <1>1, <1>t, <2>1 DEF TypeOK
    <3> HIDE DEF s
    <3> QED BY <1>2, <3>1, <3>2
  <2>2. CASE EmitsRow
    <3>1. PICK q \in Services : inflight' = [inflight EXCEPT ![q] = TRUE]
      BY <2>2 DEF EmitsRow
    <3>2. inflight[s] => inflight'[s]
      BY <1>1, <1>t, <3>1 DEF TypeOK
    <3>3. published' = published
      BY <2>2 DEF EmitsRow
    <3> HIDE DEF s
    <3> QED BY <1>2, <1>t, <3>2, <3>3, FaultFreeRelay
  <2>3. CASE UNCHANGED <<published, inflight>>
    <3> HIDE DEF s
    <3> QED BY <1>2, <1>t, <2>3, FaultFreeRelay
  <2> HIDE DEF s
  <2> QED BY <1>t, <2>1, <2>2, <2>3, FaultFreeRelay
<1>4. CASE i \in DOMAIN log[t] /\ log'[t][i] = log[t][i]
  <2>1. PICK a \in DOMAIN outbox[s] :
          /\ outbox[s][a] = log[t][i]
          /\ a <= published[s] \/ inflight[s]
          /\ a <= published[s] + 1
    BY <1>3, <1>4 DEF LoggedIsMarked
  <2>2. a <= published'[s] \/ inflight'[s]
    BY <1>2, <1>3, <2>1
  <2>3. a <= published'[s] + 1
    BY <1>2, <1>3, <2>1
  <2> QED BY <1>2, <1>4, <2>1, <2>2, <2>3
<1>5. CASE i \notin DOMAIN log[t]
  <2> DEFINE b == published[s] + 1
  <2>1. /\ b \in DOMAIN outbox[s] /\ inflight'[s] /\ published' = published
        /\ log'[t][i] = outbox[s][b]
    BY <1>5, <1>t, TopicGrows
  <2>2. b <= published'[s] + 1
    BY <1>2, <2>1
  <2> QED BY <1>2, <2>1, <2>2
<1> QED
  BY <1>4, <1>5, <1>t, Names DEF Grows

LEMMA CopiesHaveACauseStep ==
  ASSUME IInv, RowsHaveACause, LoggedIsMarked, CopiesHaveACause, [Next]_vars
  PROVE  CopiesHaveACause'
<1>t. TypeOK /\ RowsAreOwned
  BY DEF IInv
<1> SUFFICES ASSUME faults' = 0, NEW t \in EventTopics, NEW i \in DOMAIN log'[t],
                    NEW j \in DOMAIN log'[t], log'[t][i] = log'[t][j]
             PROVE  i = j \/ (Logged("order.redeliver", log[t][i].order))'
  BY DEF CopiesHaveACause
<1> DEFINE r == "order.redeliver"
           Asked(o) == \E k \in DOMAIN log'[r] : log'[r][k].order = o
<1>1. faults = 0 /\ Owner(t) \in Services
  BY <1>t, FaultFreeRelay, Names
<1>r. \A o : Logged(r, o) => Asked(o)
  BY <1>t, RedeliverStays DEF Logged
<1>s. SUFFICES i = j \/ Asked(log'[t][i].order)
  BY DEF Logged
<1> HIDE DEF Asked
<1>2. CASE /\ DOMAIN log'[t] = DOMAIN log[t]
           /\ \A n \in DOMAIN log[t] : log'[t][n] = log[t][n]
  BY <1>1, <1>r, <1>2 DEF CopiesHaveACause
<1>3. CASE LET s == Owner(t)
               b == published[s] + 1
           IN  /\ b \in DOMAIN outbox[s]
               /\ ~inflight[s]
               /\ \A n \in DOMAIN log[t] : log'[t][n] = log[t][n]
               /\ \A n \in DOMAIN log'[t] :
                    n \in DOMAIN log[t] \/ (n = Len(log[t]) + 1 /\ log'[t][n] = outbox[s][b])
  <2> DEFINE s == Owner(t)
             b == published[s] + 1
  <2>1. /\ b \in DOMAIN outbox[s] /\ ~inflight[s]
        /\ \A n \in DOMAIN log[t] : log'[t][n] = log[t][n]
        /\ \A n \in DOMAIN log'[t] :
             n \in DOMAIN log[t] \/ (n = Len(log[t]) + 1 /\ log'[t][n] = outbox[s][b])
    BY <1>3
  <2>2. ASSUME NEW n \in DOMAIN log[t], log[t][n] = outbox[s][b]
        PROVE  Asked(outbox[s][b].order)
    <3>1. PICK a \in DOMAIN outbox[s] : outbox[s][a] = log[t][n] /\ a <= published[s]
      BY <1>1, <2>1 DEF LoggedIsMarked
    <3>2. a # b
      <4>1. a \in Nat /\ published[s] \in Nat
        BY <1>1, <1>t DEF TypeOK
      <4> QED BY <3>1, <4>1
    <3>3. Logged(r, outbox[s][a].order)
      BY <1>1, <2>1, <2>2, <3>1, <3>2 DEF RowsHaveACause
    <3> QED BY <1>r, <2>2, <3>1, <3>3
  <2> HIDE DEF b, s
  <2>3. CASE i \in DOMAIN log[t] /\ j \in DOMAIN log[t]
    BY <1>1, <1>r, <2>1, <2>3 DEF CopiesHaveACause
  <2>4. CASE i \in DOMAIN log[t] /\ j \notin DOMAIN log[t]
    BY <2>1, <2>2, <2>4
  <2>5. CASE i \notin DOMAIN log[t] /\ j \in DOMAIN log[t]
    BY <2>1, <2>2, <2>5
  <2>6. CASE i \notin DOMAIN log[t] /\ j \notin DOMAIN log[t]
    BY <2>1, <2>6
  <2> QED BY <2>3, <2>4, <2>5, <2>6
<1> QED
  BY <1>t, <1>2, <1>3, TopicGrows

\* In a run without faults an event is in its topic a second time only if its
\* order was redelivered: handlers, relays and offsets repeat nothing by
\* themselves.
THEOREM RepeatsHaveACause == Spec => []CopiesHaveACause
<1>1. Init => CopiesInv
  <2> SUFFICES ASSUME Init PROVE CopiesInv
    OBVIOUS
  <2>1. \A t \in EventTopics : log[t] = <<>>
    BY Names DEF Init
  <2>2. \A s \in Services : outbox[s] = <<>>
    BY DEF Init
  <2> QED BY <2>1, <2>2 DEF CopiesInv, RowsHaveACause, LoggedIsMarked, CopiesHaveACause
<1>2. IInv /\ IInv' /\ CopiesInv /\ [Next]_vars => CopiesInv'
  BY RowsHaveACauseStep, LoggedIsMarkedStep, CopiesHaveACauseStep DEF CopiesInv
<1>3. CopiesInv => CopiesHaveACause
  BY DEF CopiesInv
<1> QED
  BY <1>1, <1>2, <1>3, Invariance, PTL DEF Spec

LEMMA LettersHaveACauseStep ==
  ASSUME IInv, LettersHaveACause, [Next]_vars
  PROVE  LettersHaveACause'
<1> DEFINE d == "order.created.DLQ"
<1>t. TypeOK /\ d \in Topics /\ d \notin EventTopics /\ d \notin CommandTopics
  BY Names DEF IInv
<1> SUFFICES ASSUME faults' = 0, NEW o \in Orders, Logged(d, o)' PROVE sku'[o] = "poison"
  BY DEF LettersHaveACause
<1>1. faults = 0 /\ ~Fault
  BY <1>t, FaultFreeRelay DEF Fault
<1>2. PICK i \in DOMAIN log'[d] : log'[d][i].order = o
  BY DEF Logged
<1>3. CASE i \in DOMAIN log[d] /\ log'[d][i] = log[d][i]
  <2>1. sku[o] = "poison"
    BY <1>1, <1>2, <1>3 DEF LettersHaveACause, Logged
  <2> QED BY <1>t, <2>1, OnlyGrows DEF Grows
<1>4. ASSUME NEW u \in Topics, NEW x \in Message, Produce(u, x), u # d
      PROVE  i \in DOMAIN log[d] /\ log'[d][i] = log[d][i]
  BY <1>t, <1>4, LogAppend
<1>5. CASE PoisonFails
  <2> DEFINE m == NextMessage("payment", "order.created")
  <2>1. "payment" \in Services /\ "order.created" \in Topics
    BY DEF Services, Topics, EventTopics, NotifiedTopics
  <2>2. m \in Message /\ Produce(d, m) /\ sku[m.order] = "poison" /\ UNCHANGED sku
    BY <1>5, <1>t, <2>1, NextMessageType DEF PoisonFails, DeadLetter
  <2>3. \/ i \in DOMAIN log[d] /\ log'[d][i] = log[d][i]
        \/ log'[d][i] = m
    <3> HIDE DEF m, d
    <3> QED BY <1>t, <2>2, LogAppend
  <2> QED BY <1>2, <1>3, <2>2, <2>3
<1>6. CASE ProducesCommand
  <2>1. i \in DOMAIN log[d] /\ log'[d][i] = log[d][i]
    BY <1>4, <1>6, <1>t, CommandType, Names DEF ProducesCommand
  <2> QED BY <1>3, <2>1
<1>7. CASE EmitsRow
  <2>1. PICK q \in Services :
          /\ published[q] < Len(outbox[q])
          /\ LET x == outbox[q][published[q] + 1] IN Produce(x.type, x)
    BY <1>7 DEF EmitsRow
  <2> DEFINE x == outbox[q][published[q] + 1]
  <2>2. published[q] + 1 \in DOMAIN outbox[q]
    BY <1>t, <2>1 DEF TypeOK
  <2>3. x \in Message /\ x.type \in EventTopics /\ x.type \in Topics /\ Produce(x.type, x)
    BY <1>t, <2>1, <2>2, RowType DEF RowsAreOwned, IInv
  <2>4. i \in DOMAIN log[d] /\ log'[d][i] = log[d][i]
    <3> HIDE DEF x
    <3> QED BY <1>4, <1>t, <2>3
  <2> QED BY <1>3, <2>4
<1>8. DeadLetters => PoisonFails
  BY <1>1 DEF DeadLetters, OutageFails
<1>9. CASE UNCHANGED log
  BY <1>2, <1>3, <1>9
<1> QED
  BY <1>5, <1>6, <1>7, <1>8, <1>9, <1>t, TopicCases

\* In a run without faults only a POISON order is dead-lettered.
THEOREM LettersAreExplained == Spec => []LettersHaveACause
<1>1. Init => LettersHaveACause
  <2> SUFFICES ASSUME Init, NEW o \in Orders PROVE ~Logged("order.created.DLQ", o)
    BY DEF LettersHaveACause
  <2>1. log["order.created.DLQ"] = <<>>
    BY Names DEF Init
  <2> QED BY <2>1 DEF Logged
<1> QED
  BY <1>1, LettersHaveACauseStep, Invariance, PTL DEF Spec

-----------------------------------------------------------------------------
(* What the contract comes to. *)

stages == [o \in Orders |-> StageOf(o)]
announcements == [o \in Orders |-> AnnouncedOf(o)]

TruthInv ==
  \A o \in Orders : /\ StageOf(o) \in Contract!Stages
                    /\ AnnouncedOf(o) \subseteq Contract!Happened(StageOf(o))

\* A later stage has the events of the earlier one and one more.
LEMMA HappenedGrows ==
  ASSUME NEW s \in Contract!Stages, NEW q \in Contract!Successors(s)
  PROVE  q \in Contract!Stages /\ Contract!Happened(s) \subseteq Contract!Happened(q)
<1>1. CASE s = "none"
  BY <1>1 DEF Contract!Successors, Contract!Stages, Contract!Happened
<1>2. CASE s = "created"
  BY <1>2 DEF Contract!Successors, Contract!Stages, Contract!Happened
<1>3. CASE s = "paid"
  BY <1>3 DEF Contract!Successors, Contract!Stages, Contract!Happened
<1>4. CASE s = "declined"
  BY <1>4 DEF Contract!Successors, Contract!Stages, Contract!Happened
<1>5. CASE s \in {"shipped", "refunded"}
  BY <1>5 DEF Contract!Successors
<1> QED
  BY <1>1, <1>2, <1>3, <1>4, <1>5 DEF Contract!Stages

\* A step of the contract, order by order.
LEMMA ContractOnlyAdds ==
  ASSUME TruthInv, [Contract!Next]_<<stages, announcements>>, NEW p \in Orders
  PROVE  /\ Contract!Happened(StageOf(p)) \subseteq Contract!Happened(StageOf(p)')
         /\ AnnouncedOf(p) \subseteq AnnouncedOf(p)'
         /\ StageOf(p)' \in Contract!Stages
         /\ AnnouncedOf(p)' \subseteq Contract!Happened(StageOf(p)')
<1>i. /\ StageOf(p) \in Contract!Stages
      /\ AnnouncedOf(p) \subseteq Contract!Happened(StageOf(p))
  BY DEF TruthInv
<1>1. ASSUME NEW o \in Orders, Contract!Advance(o)
      PROVE  /\ StageOf(p)' = StageOf(p) \/ StageOf(p)' \in Contract!Successors(StageOf(p))
             /\ AnnouncedOf(p)' = AnnouncedOf(p)
  <2>1. PICK s \in Contract!Successors(stages[o]) : stages' = [stages EXCEPT ![o] = s]
    BY <1>1 DEF Contract!Advance, stages
  <2>2. announcements' = announcements
    BY <1>1 DEF Contract!Advance, announcements
  <2>3. stages[p] = StageOf(p) /\ stages'[p] = StageOf(p)' /\ stages[o] = StageOf(o)
    BY DEF stages
  <2>4. announcements[p] = AnnouncedOf(p) /\ announcements'[p] = AnnouncedOf(p)'
    BY DEF announcements
  <2>5. DOMAIN stages = Orders
    BY DEF stages
  <2>6. stages'[p] = IF p = o THEN s ELSE stages[p]
    BY <2>1, <2>5
  <2> QED BY <2>1, <2>2, <2>3, <2>4, <2>6
<1>2. ASSUME NEW o \in Orders, Contract!Announce(o)
      PROVE  /\ StageOf(p)' = StageOf(p)
             /\ AnnouncedOf(p) \subseteq AnnouncedOf(p)'
             /\ AnnouncedOf(p)' \subseteq AnnouncedOf(p) \union Contract!Happened(StageOf(p))
  <2>1. PICK t \in Contract!Happened(stages[o]) :
          announcements' = [announcements EXCEPT ![o] = @ \union {t}]
    BY <1>2 DEF Contract!Announce, stages, announcements
  <2>2. stages' = stages
    BY <1>2 DEF Contract!Announce, stages
  <2>3. stages[p] = StageOf(p) /\ stages'[p] = StageOf(p)' /\ stages[o] = StageOf(o)
    BY DEF stages
  <2>4. announcements[p] = AnnouncedOf(p) /\ announcements'[p] = AnnouncedOf(p)'
    BY DEF announcements
  <2>5. DOMAIN announcements = Orders
    BY DEF announcements
  <2>6. announcements'[p] = IF p = o THEN announcements[p] \union {t} ELSE announcements[p]
    BY <2>1, <2>5
  <2> QED BY <2>1, <2>2, <2>3, <2>4, <2>6
<1>3. CASE UNCHANGED <<stages, announcements>>
  <2>1. stages[p] = StageOf(p) /\ stages'[p] = StageOf(p)'
    BY DEF stages
  <2>2. announcements[p] = AnnouncedOf(p) /\ announcements'[p] = AnnouncedOf(p)'
    BY DEF announcements
  <2> QED BY <1>i, <1>3, <2>1, <2>2
<1>4. CASE \E o \in Orders : Contract!Advance(o)
  BY <1>i, <1>1, <1>4, HappenedGrows
<1>5. CASE \E o \in Orders : Contract!Announce(o)
  BY <1>i, <1>2, <1>5
<1> QED
  BY <1>3, <1>4, <1>5 DEF Contract!Next, stages, announcements

\* Whatever keeps the contract tells the client only what happened, and takes
\* nothing back.
THEOREM ContractMeansTruth ==
  Contract!Spec => []Contract!TellsTheTruth /\ Contract!NothingTakenBack
<1>1. Contract!Init => TruthInv
  <2> SUFFICES ASSUME Contract!Init, NEW o \in Orders
               PROVE  StageOf(o) \in Contract!Stages /\ AnnouncedOf(o) = {}
    BY DEF TruthInv
  <2>1. stages = [p \in Orders |-> "none"] /\ announcements = [p \in Orders |-> {}]
    BY DEF Contract!Init, stages, announcements
  <2>2. stages[o] = StageOf(o) /\ announcements[o] = AnnouncedOf(o)
    BY DEF stages, announcements
  <2> QED BY <2>1, <2>2 DEF Contract!Stages
<1>2. TruthInv /\ [Contract!Next]_(<<[o \in Orders |-> StageOf(o)], [o \in Orders |-> AnnouncedOf(o)]>>)
        => TruthInv'
  BY ContractOnlyAdds DEF TruthInv, stages, announcements
<1>3. TruthInv /\ [Contract!Next]_(<<[o \in Orders |-> StageOf(o)], [o \in Orders |-> AnnouncedOf(o)]>>)
        => [\A o \in Orders : Contract!OnlyAdds(o)]_(<<[o \in Orders |-> StageOf(o)], [o \in Orders |-> AnnouncedOf(o)]>>)
  BY ContractOnlyAdds DEF stages, announcements, Contract!OnlyAdds
<1>4. TruthInv => Contract!TellsTheTruth
  BY DEF TruthInv, Contract!TellsTheTruth
<1> QED
  BY <1>1, <1>2, <1>3, <1>4, PTL
     DEF Contract!Spec, Contract!NothingTakenBack

\* The five services tell the client the truth, and take nothing back.
THEOREM SagaTellsTheTruth ==
  Spec => []Contract!TellsTheTruth /\ Contract!NothingTakenBack
  BY SagaImplementsContract, ContractMeansTruth, PTL DEF ImplementsContract
=============================================================================
