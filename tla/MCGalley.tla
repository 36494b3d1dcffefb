------------------------------ MODULE MCGalley ------------------------------
(* Small instances of Galley for TLC.                                       *)
EXTENDS Galley, TLC

\* Tickets, Rounds, runners and asks are interchangeable; the instances whose
\* ReviewedPr tells Tickets apart have a single Ticket.
Symmetry ==
    Permutations(Ticket) \cup Permutations(Round) \cup Permutations(Runner)
        \cup Permutations(Ask)

\* Bound of the instance with two Tickets: the Tickets stay ready to be worked
\* on and no Reconcile has been recorded, so that claims, endings and the
\* Owner's moves of both Tickets interleave.
TwoTicketsBound ==
    /\ \A t \in Ticket : inputs[t] = Inputs
    /\ \E t \in Ticket : ~archived[t]
    /\ \A r \in Round : execution[r] = "none"

\* Bound of the instance with one Round: once it has ended, the Owner no longer
\* edits its Ticket's inputs.
OneRoundBound ==
    \A r \in Round, t \in Ticket : Ended(r) => inputs[t] = Inputs

=============================================================================
