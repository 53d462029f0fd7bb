------------------------------ MODULE MCReplay ------------------------------
(* Replay instantiated for TLC: the topics a replay takes, in their order. *)
EXTENDS Replay

Order == <<"order.created", "payment.succeeded">>
=============================================================================
