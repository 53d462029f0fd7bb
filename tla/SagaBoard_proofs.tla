-------------------------- MODULE SagaBoard_proofs --------------------------
(***************************************************************************)
(* Proofs about the word the dashboard has for an order, for every set of  *)
(* orders and deployed services and every bound on faults.  They rest on   *)
(* the inductive invariant of the saga.                                    *)
(***************************************************************************)
EXTENDS SagaBoard, Saga_proofs

\* The word, type by type.
LEMMA Words ==
  ASSUME NEW types
  PROVE  sagaStatus(types) =
           IF "order.created.DLQ" \in types THEN "dead-letter" ELSE
           IF "refund.initiated" \in types THEN "refunded" ELSE
           IF "payment.failed" \in types THEN "payment failed" ELSE
           IF "shipment.created" \in types THEN "shipped" ELSE
           IF "payment.succeeded" \in types THEN "paid" ELSE "in progress"
<1> DEFINE found == {i \in DOMAIN Precedence : Precedence[i] \in types}
           first == CHOOSE i \in found : \A j \in found : i <= j
<1>1. /\ DOMAIN Precedence = 1..5
      /\ Precedence[1] = "order.created.DLQ" /\ Precedence[2] = "refund.initiated"
      /\ Precedence[3] = "payment.failed" /\ Precedence[4] = "shipment.created"
      /\ Precedence[5] = "payment.succeeded"
  BY DEF Precedence
<1>2. \A i : i \in found <=> i \in 1..5 /\ Precedence[i] \in types
  BY <1>1
<1>3. /\ 1 \in found <=> "order.created.DLQ" \in types
      /\ 2 \in found <=> "refund.initiated" \in types
      /\ 3 \in found <=> "payment.failed" \in types
      /\ 4 \in found <=> "shipment.created" \in types
      /\ 5 \in found <=> "payment.succeeded" \in types
  <2>1. \A i \in 1..5 : i \in found <=> Precedence[i] \in types
    BY <1>2
  <2>2. 1 \in 1..5 /\ 2 \in 1..5 /\ 3 \in 1..5 /\ 4 \in 1..5 /\ 5 \in 1..5
    OBVIOUS
  <2> HIDE DEF found
  <2> QED BY <1>1, <2>1, <2>2
<1>4. sagaStatus(types) = IF found = {} THEN "in progress"
                                        ELSE Word(Precedence[first])
  BY Zenon DEF sagaStatus
<1>5. ASSUME NEW k \in found, \A j \in found : k <= j
      PROVE  first = k /\ found # {}
  <2>1. first \in found /\ \A j \in found : first <= j
    BY <1>5
  <2>2. k \in 1..5 /\ first \in 1..5 /\ first <= k /\ k <= first
    BY <1>2, <1>5, <2>1
  <2>3. first = k
    <3> HIDE DEF first
    <3> QED BY <2>2
  <2> QED BY <2>3
<1>6. found \subseteq 1..5
  BY <1>2
<1> HIDE DEF found, first
<1>7. CASE 1 \in found
  <2>1. \A j \in found : 1 <= j
    BY <1>6
  <2>2. first = 1 /\ found # {}
    BY <1>5, <1>7, <2>1
  <2>3. sagaStatus(types) = Word(Precedence[1])
    BY <1>4, <2>2
  <2>4. Word(Precedence[1]) = "dead-letter"
    BY <1>1 DEF Word
  <2> QED BY <1>3, <1>7, <2>3, <2>4
<1>8. CASE 1 \notin found /\ 2 \in found
  <2>1. \A j \in found : 2 <= j
    BY <1>6, <1>8
  <2>2. first = 2 /\ found # {}
    BY <1>5, <1>8, <2>1
  <2>3. sagaStatus(types) = Word(Precedence[2])
    BY <1>4, <2>2
  <2>4. Word(Precedence[2]) = "refunded"
    BY <1>1 DEF Word
  <2> QED BY <1>3, <1>8, <2>3, <2>4
<1>9. CASE 1 \notin found /\ 2 \notin found /\ 3 \in found
  <2>1. \A j \in found : 3 <= j
    BY <1>6, <1>9
  <2>2. first = 3 /\ found # {}
    BY <1>5, <1>9, <2>1
  <2>3. sagaStatus(types) = Word(Precedence[3])
    BY <1>4, <2>2
  <2>4. Word(Precedence[3]) = "payment failed"
    BY <1>1 DEF Word
  <2> QED BY <1>3, <1>9, <2>3, <2>4
<1>10. CASE 1 \notin found /\ 2 \notin found /\ 3 \notin found /\ 4 \in found
  <2>1. \A j \in found : 4 <= j
    BY <1>6, <1>10
  <2>2. first = 4 /\ found # {}
    BY <1>5, <1>10, <2>1
  <2>3. sagaStatus(types) = Word(Precedence[4])
    BY <1>4, <2>2
  <2>4. Word(Precedence[4]) = "shipped"
    BY <1>1 DEF Word
  <2> QED BY <1>3, <1>10, <2>3, <2>4
<1>11. CASE 1 \notin found /\ 2 \notin found /\ 3 \notin found /\ 4 \notin found
            /\ 5 \in found
  <2>1. \A j \in found : 5 <= j
    BY <1>6, <1>11
  <2>2. first = 5 /\ found # {}
    BY <1>5, <1>11, <2>1
  <2>3. sagaStatus(types) = Word(Precedence[5])
    BY <1>4, <2>2
  <2>4. Word(Precedence[5]) = "paid"
    BY <1>1 DEF Word
  <2> QED BY <1>3, <1>11, <2>3, <2>4
<1>12. CASE \A i \in 1..5 : i \notin found
  <2>1. found = {}
    BY <1>6, <1>12
  <2> QED BY <1>3, <1>4, <1>12, <2>1
<1>13. 1..5 = {1, 2, 3, 4, 5}
  OBVIOUS
<1> QED
  BY <1>7, <1>8, <1>9, <1>10, <1>11, <1>12, <1>13

\* The order is named by each event of it, and its items decide the branch: what
\* is logged of an order is in a database, and no order has events of both
\* branches.
LEMMA Branches ==
  ASSUME IInv, NEW o \in Orders
  PROVE  /\ Logged("payment.succeeded", o) => o \in db["payment"] /\ sku[o] # "declined"
         /\ Logged("shipment.created", o) => o \in db["shipping"] /\ sku[o] # "declined"
         /\ Logged("payment.failed", o) => o \in db["payment"] /\ sku[o] = "declined"
         /\ Logged("refund.initiated", o) => o \in db["refund"] /\ sku[o] = "declined"
<1>1. /\ {"payment.succeeded", "payment.failed", "shipment.created",
          "refund.initiated"} \subseteq EventTopics
      /\ {"payment", "shipping", "refund"} \subseteq BusinessServices
      /\ Owner("payment.succeeded") = "payment" /\ Owner("payment.failed") = "payment"
      /\ Owner("shipment.created") = "shipping" /\ Owner("refund.initiated") = "refund"
  BY DEF EventTopics, NotifiedTopics, Owner, BusinessServices, Services
<1>2. ASSUME NEW t \in EventTopics, Logged(t, o), Owner(t) \in BusinessServices
      PROVE  /\ o \in db[Owner(t)]
             /\ \E j \in DOMAIN outbox[Owner(t)] :
                  outbox[Owner(t)][j].type = t /\ outbox[Owner(t)][j].order = o
  <2>1. PICK i \in DOMAIN log[t] : log[t][i].order = o
    BY <1>2 DEF Logged
  <2>2. PICK j \in DOMAIN outbox[Owner(t)] :
          outbox[Owner(t)][j] = log[t][i] /\ log[t][i].type = t
    BY <2>1 DEF IInv, LoggedFromOutbox
  <2> QED
    BY <1>2, <2>1, <2>2 DEF IInv, RowsMatchKeys
<1>3. ASSUME NEW t \in EventTopics, Logged(t, o), Owner(t) = "payment"
      PROVE  PaymentType(o) = t
  BY <1>1, <1>2, <1>3 DEF IInv, PaymentRowsFollowItems
<1>4. /\ o \in db["shipping"] => sku[o] = "pays"
      /\ o \in db["refund"] => sku[o] = "declined"
  BY StageOrder
<1> QED
  BY <1>1, <1>2, <1>3, <1>4 DEF PaymentType

LEMMA OnlyProgresses == IInv => LabelOnlyProgresses
<1> SUFFICES ASSUME IInv, NEW o \in Orders, NEW seen \in SUBSET GroupTypes(o),
                    NEW t \in GroupTypes(o)
             PROVE  MovesOn(sagaStatus(seen), sagaStatus(seen \union {t}))
  BY DEF LabelOnlyProgresses
<1>1. \A type \in GroupTypes(o) : Logged(type, o)
  BY DEF GroupTypes
<1>2. ~ \E a \in {"payment.succeeded", "shipment.created"} :
        \E b \in {"payment.failed", "refund.initiated"} :
            a \in GroupTypes(o) /\ b \in GroupTypes(o)
  BY <1>1, Branches
<1>3. seen \subseteq GroupTypes(o) /\ seen \union {t} \subseteq GroupTypes(o)
  OBVIOUS
<1>4. CASE sku[o] = "declined"
  <2>1. /\ "payment.succeeded" \notin seen \union {t}
        /\ "shipment.created" \notin seen \union {t}
    BY <1>1, <1>3, <1>4, Branches
  <2>2. /\ sagaStatus(seen) = IF "order.created.DLQ" \in seen THEN "dead-letter" ELSE
                              IF "refund.initiated" \in seen THEN "refunded" ELSE
                              IF "payment.failed" \in seen THEN "payment failed" ELSE
                              "in progress"
        /\ sagaStatus(seen \union {t}) =
             IF "order.created.DLQ" \in seen \union {t} THEN "dead-letter" ELSE
             IF "refund.initiated" \in seen \union {t} THEN "refunded" ELSE
             IF "payment.failed" \in seen \union {t} THEN "payment failed" ELSE
             "in progress"
    BY <2>1, Words
  <2> QED BY <2>2 DEF MovesOn
<1>5. CASE sku[o] # "declined"
  <2>1. /\ "payment.failed" \notin seen \union {t}
        /\ "refund.initiated" \notin seen \union {t}
    BY <1>1, <1>3, <1>5, Branches
  <2>2. /\ sagaStatus(seen) = IF "order.created.DLQ" \in seen THEN "dead-letter" ELSE
                              IF "shipment.created" \in seen THEN "shipped" ELSE
                              IF "payment.succeeded" \in seen THEN "paid" ELSE
                              "in progress"
        /\ sagaStatus(seen \union {t}) =
             IF "order.created.DLQ" \in seen \union {t} THEN "dead-letter" ELSE
             IF "shipment.created" \in seen \union {t} THEN "shipped" ELSE
             IF "payment.succeeded" \in seen \union {t} THEN "paid" ELSE
             "in progress"
    BY <2>1, Words
  <2> QED BY <2>2 DEF MovesOn
<1> QED BY <1>4, <1>5

\* A row of a business service that was published is in the topic of its event.
LEMMA PublishedRows ==
  ASSUME IInv, \A s \in Services : published[s] = Len(outbox[s]), NEW o \in Orders
  PROVE  /\ o \in db["shipping"] => Logged("shipment.created", o)
         /\ o \in db["refund"] => Logged("refund.initiated", o)
         /\ o \in db["payment"] => Logged(PaymentType(o), o)
<1>1. ASSUME NEW s \in BusinessServices, o \in db[s]
      PROVE  \E j \in DOMAIN outbox[s] :
               /\ outbox[s][j].order = o
               /\ outbox[s][j].type \in EventTopics /\ Owner(outbox[s][j].type) = s
               /\ Logged(outbox[s][j].type, o)
  <2>1. s \in Services
    BY DEF BusinessServices
  <2>2. PICK j \in DOMAIN outbox[s] : outbox[s][j].order = o
    BY <1>1 DEF IInv, RowsMatchKeys
  <2>3. j \in 1..published[s]
    BY <2>1, <2>2 DEF IInv, TypeOK
  <2>4. PICK i \in DOMAIN log[outbox[s][j].type] :
          log[outbox[s][j].type][i] = outbox[s][j]
    BY <2>1, <2>3 DEF IInv, PublishedIsLogged
  <2>5. outbox[s][j].type \in EventTopics /\ Owner(outbox[s][j].type) = s
    BY <2>1, <2>2 DEF IInv, RowsAreOwned
  <2> QED BY <2>2, <2>4, <2>5 DEF Logged
<1>2. {"payment", "shipping", "refund"} \subseteq BusinessServices
  BY DEF BusinessServices, Services
<1>3. /\ \A t \in EventTopics : Owner(t) = "shipping" => t = "shipment.created"
      /\ \A t \in EventTopics : Owner(t) = "refund" => t = "refund.initiated"
  BY DEF EventTopics, NotifiedTopics, Owner
<1>4. \A j \in DOMAIN outbox["payment"] :
        outbox["payment"][j].type = PaymentType(outbox["payment"][j].order)
  BY DEF IInv, PaymentRowsFollowItems
<1> QED
  BY <1>1, <1>2, <1>3, <1>4

LEMMA TellsStage == IInv => LabelTellsStage
<1> SUFFICES ASSUME IInv, \A s \in Services : published[s] = Len(outbox[s]),
                    NEW o \in Orders, ~Logged("order.created.DLQ", o)
             PROVE  sagaStatus(GroupTypes(o)) = LabelOfStage(StageOf(o))
  BY DEF LabelTellsStage
<1>1. \A t \in {"order.created.DLQ", "payment.succeeded", "payment.failed",
                "shipment.created", "refund.initiated"} :
        t \in GroupTypes(o) <=> Logged(t, o)
  BY DEF GroupTypes, EventTopics, NotifiedTopics
<1>2. /\ Logged("shipment.created", o) <=> o \in db["shipping"]
      /\ Logged("refund.initiated", o) <=> o \in db["refund"]
      /\ Logged("payment.succeeded", o) <=> o \in db["payment"] /\ sku[o] # "declined"
      /\ Logged("payment.failed", o) <=> o \in db["payment"] /\ sku[o] = "declined"
  BY Branches, PublishedRows DEF PaymentType
<1>3. sagaStatus(GroupTypes(o)) =
        IF o \in db["refund"] THEN "refunded" ELSE
        IF o \in db["payment"] /\ sku[o] = "declined" THEN "payment failed" ELSE
        IF o \in db["shipping"] THEN "shipped" ELSE
        IF o \in db["payment"] /\ sku[o] # "declined" THEN "paid" ELSE "in progress"
  BY <1>1, <1>2, Words
<1>4. /\ o \in db["shipping"] => sku[o] = "pays" /\ o \notin db["refund"]
      /\ o \in db["refund"] => o \notin db["shipping"]
  BY StageOrder
<1>5. CASE o \in db["shipping"]
  <2>1. StageOf(o) = "shipped" /\ sagaStatus(GroupTypes(o)) = "shipped"
    BY <1>3, <1>4, <1>5, StageCases
  <2> QED BY <2>1 DEF LabelOfStage
<1>6. CASE o \in db["refund"]
  <2>1. StageOf(o) = "refunded" /\ sagaStatus(GroupTypes(o)) = "refunded"
    BY <1>3, <1>6, StageCases
  <2> QED BY <2>1 DEF LabelOfStage
<1>7. CASE o \notin db["shipping"] /\ o \notin db["refund"] /\ o \in db["payment"]
  <2>1. /\ StageOf(o) = IF sku[o] = "declined" THEN "declined" ELSE "paid"
        /\ sagaStatus(GroupTypes(o)) =
             IF sku[o] = "declined" THEN "payment failed" ELSE "paid"
    BY <1>3, <1>7, StageCases
  <2> QED BY <2>1 DEF LabelOfStage
<1>8. CASE o \notin db["payment"]
  <2>1. o \notin db["shipping"] /\ o \notin db["refund"]
    BY <1>8, StageOrder
  <2>2. /\ StageOf(o) \in {"created", "none"}
        /\ sagaStatus(GroupTypes(o)) = "in progress"
    BY <1>3, <1>8, <2>1, StageCases
  <2> QED BY <2>2 DEF LabelOfStage
<1> QED BY <1>5, <1>6, <1>7, <1>8

\* Whatever part of a saga a group shows, and in whatever order its events come
\* in, the word for it never leaves its branch and never goes back
\* (events-meta.ts: sagaStatus).
THEOREM WordOnlyProgresses == Spec => []LabelOnlyProgresses
  BY OnlyProgresses, Invariance, PTL

\* With every row published, the word for an order that was not dead-lettered
\* tells what the databases hold.
THEOREM WordTellsStage == Spec => []LabelTellsStage
  BY TellsStage, Invariance, PTL

\* At rest the group of an order has the outcome of its items, or a dead letter.
LEMMA WordOfOutcome ==
  ASSUME IInv, PlacedAreCommanded, AtRest, BusinessServices \subseteq Deployed,
         NEW o \in Orders, sku[o] # "unplaced"
  PROVE  sagaStatus(GroupTypes(o)) =
            IF Logged("order.created.DLQ", o) THEN "dead-letter" ELSE
            IF sku[o] = "pays" THEN "shipped" ELSE "refunded"
<1>1. \A t \in {"order.created.DLQ", "payment.succeeded", "payment.failed",
                "shipment.created", "refund.initiated"} :
        t \in GroupTypes(o) <=> Logged(t, o)
  BY DEF GroupTypes, EventTopics, NotifiedTopics
<1>2. Outcome(o)
  BY SettledState
<1>3. CASE Logged("order.created.DLQ", o)
  BY <1>1, <1>3, Words
<1>4. CASE ~Logged("order.created.DLQ", o) /\ sku[o] = "pays" /\ Logged("shipment.created", o)
  <2>1. ~Logged("refund.initiated", o) /\ ~Logged("payment.failed", o)
    BY <1>4, Branches
  <2> QED BY <1>1, <1>4, <2>1, Words
<1>5. CASE ~Logged("order.created.DLQ", o) /\ sku[o] = "declined" /\ Logged("refund.initiated", o)
  BY <1>1, <1>5, Words
<1> QED
  BY <1>2, <1>3, <1>4, <1>5 DEF Outcome

\* With the business services running, a timeline at rest calls every order
\* shipped, refunded or dead-lettered, as it is.
THEOREM WordTellsOutcome ==
  ASSUME BusinessServices \subseteq Deployed
  PROVE  Spec => []WordAtRest
<1>1. IInv /\ PlacedAreCommanded => WordAtRest
  BY WordOfOutcome DEF WordAtRest
<1> QED
  BY <1>1, Invariance, PlacedCommanded, PTL
=============================================================================
