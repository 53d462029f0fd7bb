----------------------------- MODULE MCDashboard -----------------------------
(* Dashboard instantiated for TLC: two orders, one with a dead letter, and    *)
(* numbers typed below zero, above zero or not at all.                        *)
EXTENDS Dashboard

CONSTANTS a, b

MCEnvelopes == {<<a, "step">>, <<b, "step">>, <<b, "letter">>}
MCQuantities == {<<>>, <<-1>>, <<1>>}
MCAmounts == {<<-1>>, <<1>>}
=============================================================================
