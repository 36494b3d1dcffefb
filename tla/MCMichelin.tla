----------------------------- MODULE MCMichelin -----------------------------
(* Small instances of Michelin for TLC: one Ticket, one Round, and a script *)
(* that takes the engine through each kind of step.                        *)
EXTENDS Michelin

DeliverScript == <<"start", "ask", "retry_act", "deliver">>
ActScript == <<"start", "act", "hold">>
HoldScript == <<"start", "hold">>
FailScript == <<"start", "progress", "fail">>

=============================================================================
