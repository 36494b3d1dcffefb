---------------------------- MODULE MCAuthority ----------------------------
(* Small instances of Authority for TLC.                                    *)
EXTENDS Authority, TLC

CONSTANTS t1, t2

Symmetry == Permutations(Ticket)

\* Bound: one command has been acknowledged, none once there is a second Round;
\* and the second Round is claimed after one that was denied nothing and
\* breached nothing, so that it meets that one's grants and no more.
SmallHistory ==
    /\ Cardinality({c \in DOMAIN commands : commands[c].ack # "none"}) <= 2 - Len(rounds)
    /\ Len(rounds) = 2 => rounds[1].streak = 0 /\ rounds[1].breach = "none"
=============================================================================
