----------------------------- MODULE MCPriority -----------------------------
(* Small instances of TicketPriority for TLC.                              *)
EXTENDS TicketPriority

\* Bound: at most one Ticket at a time is archived or past Ready.
OneAside ==
    Cardinality({t \in Captured :
        archived[t] \/ status[t] \notin {"Backlog", "Ready"}}) <= 1

=============================================================================
