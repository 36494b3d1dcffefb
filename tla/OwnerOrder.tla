----------------------------- MODULE OwnerOrder -----------------------------
(***************************************************************************)
(* What Galley promises of one Owner's priority order: all Tickets are in  *)
(* one total order; a capture goes to the top, entering Ready to the       *)
(* bottom, a reorder puts a Ticket right beside another of its stage, and  *)
(* nothing else moves a Ticket or changes the order of the others.         *)
(***************************************************************************)
CONSTANT Ticket

VARIABLES
    captured,   \* the Tickets there are
    ready,      \* those in Ready
    before      \* <<u, v>> is in it when u comes before v

vars == <<captured, ready, before>>

Init ==
    /\ captured = {}
    /\ ready = {}
    /\ before = {}

\* Take t out of the order and put it back below exactly the Tickets above.
Place(t, above) ==
    LET others == {p \in before : p[1] # t /\ p[2] # t}
        below  == captured' \ (above \cup {t})
    IN before' = others \cup (above \X {t}) \cup ({t} \X below)

AllAbove(a) == {u \in captured : <<u, a>> \in before}

Capture(t) ==
    /\ t \notin captured
    /\ captured' = captured \cup {t}
    /\ Place(t, {})
    /\ UNCHANGED ready

EnterReady(t) ==
    /\ t \in captured \ ready
    /\ ready' = ready \cup {t}
    /\ UNCHANGED captured
    /\ Place(t, captured \ {t})

LeaveReady(t) ==
    /\ t \in ready
    /\ ready' = ready \ {t}
    /\ UNCHANGED <<captured, before>>

\* The Owner puts t right before or right after a Ticket a of its stage.
Reorder(t, a) ==
    /\ {t, a} \subseteq captured /\ t # a
    /\ t \in ready <=> a \in ready
    /\ UNCHANGED <<captured, ready>>
    /\ \/ Place(t, AllAbove(a) \ {t})
       \/ Place(t, (AllAbove(a) \cup {a}) \ {t})

Next ==
    \/ \E t \in Ticket : Capture(t) \/ EnterReady(t) \/ LeaveReady(t)
    \/ \E t, a \in Ticket : Reorder(t, a)

Spec == Init /\ [][Next]_vars

=============================================================================
