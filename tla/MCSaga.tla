------------------------------- MODULE MCSaga -------------------------------
(* Saga instantiated for TLC: the services each configuration runs. *)
EXTENDS SagaBoard

BusinessGroups == Services \ {"notification"}
PaidAndAnnounced == {"order", "payment", "notification"}
=============================================================================
