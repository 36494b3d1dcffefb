--------------------------- MODULE ExecutionSlot ---------------------------
(***************************************************************************)
(* What Galley promises about execution, with Tickets, runners and requests *)
(* left out: an Owner has one execution slot; a Round takes it once and     *)
(* gives it up with one outcome; a Stop is asked of the Round that holds    *)
(* the slot and never withdrawn; only a Round whose Stop was asked for ends *)
(* "stopped".                                                               *)
(***************************************************************************)
CONSTANTS Round, NoRound

VARIABLES
    slot,      \* the Round that holds the slot, or NoRound
    outcome,   \* [Round -> how the Round ended, or "none"]
    stopped    \* the Rounds whose Stop was asked for

vars == <<slot, outcome, stopped>>

Outcomes == {"delivered", "stopped", "failed", "interrupted"}

Init ==
    /\ slot = NoRound
    /\ outcome = [r \in Round |-> "none"]
    /\ stopped = {}

Take(r) ==
    /\ slot = NoRound
    /\ outcome[r] = "none"
    /\ r \notin stopped
    /\ slot' = r
    /\ UNCHANGED <<outcome, stopped>>

AskToStop(r) ==
    /\ slot = r
    /\ stopped' = stopped \cup {r}
    /\ UNCHANGED <<slot, outcome>>

GiveUp(r, o) ==
    /\ slot = r
    /\ o = "stopped" => r \in stopped
    /\ slot' = NoRound
    /\ outcome' = [outcome EXCEPT ![r] = o]
    /\ UNCHANGED stopped

Next ==
    \E r \in Round :
        \/ Take(r)
        \/ AskToStop(r)
        \/ \E o \in Outcomes : GiveUp(r, o)

Spec == Init /\ [][Next]_vars

=============================================================================
