---------------------------- MODULE SagaContract ----------------------------
(***************************************************************************)
(* What the order saga promises, with no service, queue or retry in sight: *)
(* an order moves through its stages one at a time, never back, and each   *)
(* event of it is announced to the client at most once and only after it   *)
(* happened.                                                               *)
(***************************************************************************)

CONSTANTS Orders

VARIABLES stage,      \* stage[o]: how far order o is
          announced   \* announced[o]: the events the client was told of

Stages == {"none", "created", "paid", "declined", "shipped", "refunded"}

Successors(s) ==
    CASE s = "none" -> {"created"}
      [] s = "created" -> {"paid", "declined"}
      [] s = "paid" -> {"shipped"}
      [] s = "declined" -> {"refunded"}
      [] OTHER -> {}

\* The events that have happened once an order is at stage s.
Happened(s) ==
    CASE s = "none" -> {}
      [] s = "created" -> {"order.created"}
      [] s = "paid" -> {"order.created", "payment.succeeded"}
      [] s = "declined" -> {"order.created", "payment.failed"}
      [] s = "shipped" -> {"order.created", "payment.succeeded", "shipment.created"}
      [] s = "refunded" -> {"order.created", "payment.failed", "refund.initiated"}

Init == /\ stage = [o \in Orders |-> "none"]
        /\ announced = [o \in Orders |-> {}]

Advance(o) ==
    /\ \E s \in Successors(stage[o]) : stage' = [stage EXCEPT ![o] = s]
    /\ UNCHANGED announced

Announce(o) ==
    /\ \E t \in Happened(stage[o]) \ announced[o] :
        announced' = [announced EXCEPT ![o] = @ \union {t}]
    /\ UNCHANGED stage

Next == \E o \in Orders : Advance(o) \/ Announce(o)

Spec == Init /\ [][Next]_<<stage, announced>>

-----------------------------------------------------------------------------
(* What the promise comes to for the client. *)

\* The client is told of nothing that has not happened.
TellsTheTruth == \A o \in Orders : announced[o] \subseteq Happened(stage[o])

\* A step takes back neither an event of an order nor what the client was told.
OnlyAdds(o) == /\ Happened(stage[o]) \subseteq Happened(stage'[o])
               /\ announced[o] \subseteq announced'[o]

\* What has happened to an order stays so, and so does what the client was told.
NothingTakenBack == [][\A o \in Orders : OnlyAdds(o)]_<<stage, announced>>
=============================================================================
