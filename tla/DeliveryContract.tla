-------------------------- MODULE DeliveryContract --------------------------
(***************************************************************************)
(* What the delivery of one order.created promises: the order is charged   *)
(* at most once, and the message is done with only when it was charged or  *)
(* dead-lettered.                                                          *)
(***************************************************************************)
EXTENDS Naturals

VARIABLES charges,  \* how many payments were announced
          letters,  \* how many dead letters were sent
          acked     \* the consumer is past the message

Init == charges = 0 /\ letters = 0 /\ ~acked

Charge == /\ charges = 0
          /\ charges' = 1
          /\ UNCHANGED <<letters, acked>>

DeadLetter == /\ ~acked
              /\ letters' = letters + 1
              /\ UNCHANGED <<charges, acked>>

Acknowledge == /\ charges = 1 \/ letters > 0
               /\ acked' = TRUE
               /\ UNCHANGED <<charges, letters>>

Next == Charge \/ DeadLetter \/ Acknowledge

Spec == Init /\ [][Next]_<<charges, letters, acked>>
=============================================================================
