--------------------------- MODULE TicketPriority ---------------------------
(***************************************************************************)
(* One Owner's priority order, kept as a rank per Ticket with gaps between *)
(* the ranks, and the claim that walks it.  Whatever writes a rank or may  *)
(* enter Ready holds the Owner's priority lock for its whole transaction   *)
(* and is one action here.  The claim holds that lock too, but it lists    *)
(* its candidates, then locks one Ticket row after another and decides on  *)
(* each; assigning, archiving and restoring take a row lock only, so they  *)
(* happen between its steps on the rows it has not locked yet.             *)
(*                                                                         *)
(* Galley has what is left out here: a Ticket's inputs (every Ticket has   *)
(* those its Agent needs), its completion condition (the Owner accepts),   *)
(* and the credential a claim comes with.  A Ticket's id only breaks ties  *)
(* between equal ranks, which the table's constraint excludes.             *)
(***************************************************************************)
EXTENDS TicketRules, Integers, FiniteSetsExt

CONSTANTS
    Ticket,        \* the Tickets the Owner may capture
    NoTicket,
    Spacing,       \* priorityRankSpacing, 1024 in the code
    Assignable,    \* the Tickets the Owner may assign to an Agent
    Archivable,    \* the Tickets the Owner may archive
    RanksBelow,    \* bounds on the ranks below zero
    RanksAbove     \* and above zero

ASSUME PriorityAssumption ==
    /\ IsFiniteSet(Ticket)
    /\ NoTicket \notin Ticket
    /\ Spacing \in Nat /\ Spacing >= 2
    /\ Assignable \subseteq Ticket /\ Archivable \subseteq Ticket
    /\ RanksBelow \in Nat /\ RanksAbove \in Nat

VARIABLES
    status, archived, assignee, rank,   \* of each Ticket
    openRound,                          \* the Ticket with the open Round
    walking,                            \* does a claim hold the priority lock?
    candidates,                         \* the Tickets it listed
    looked                              \* those whose row it has locked

vars == <<status, archived, assignee, rank, openRound, walking, candidates,
          looked>>
walkVars == <<walking, candidates, looked>>

Ranks == -RanksBelow..RanksAbove

\* A rank is within its bound, a claim's walk is under way only while no Round
\* is open, and it has looked only at what it listed.
PriorityTypeOK ==
    /\ status \in [Ticket -> {"none"} \cup Statuses]
    /\ archived \in [Ticket -> BOOLEAN]
    /\ assignee \in [Ticket -> {"none", "research"}]
    /\ rank \in [Ticket -> Ranks]
    /\ openRound \in Ticket \cup {NoTicket}
    /\ walking \in BOOLEAN
    /\ candidates \subseteq Ticket
    /\ looked \subseteq candidates
    /\ walking => openRound = NoTicket
    /\ ~walking => candidates = {}

-----------------------------------------------------------------------------
(* Ranks.                                                                  *)

Captured == {t \in Ticket : status[t] # "none"}

RanksOf(T) == {rank[t] : t \in T}

TopRank ==
    IF Captured = {} THEN Spacing ELSE Min(RanksOf(Captured)) - Spacing

BottomRank ==
    IF Captured = {} THEN Spacing ELSE Max(RanksOf(Captured)) + Spacing

\* The ranks on either side of the place beside a: the code's bounds are the
\* greatest of lower and the least of upper, nil where there is none.
GapBeside(ranks, t, a, side) ==
    LET others == {ranks[u] : u \in Captured \ {t}} IN
    IF side = "before"
    THEN [lower |-> {r \in others : r < ranks[a]}, upper |-> {ranks[a]}]
    ELSE [lower |-> {ranks[a]}, upper |-> {r \in others : r > ranks[a]}]

Contains(gap, r) ==
    /\ \A l \in gap.lower : l < r
    /\ \A u \in gap.upper : r < u

\* Mutant: adjacent ranks count as room.
HasMidpointEvenIfAdjacent(gap) ==
    gap.lower # {} /\ gap.upper # {} => Min(gap.upper) - Max(gap.lower) >= 1

HasMidpoint(gap) ==
    gap.lower # {} /\ gap.upper # {} => Min(gap.upper) - Max(gap.lower) >= 2

Midpoint(gap) ==
    IF gap.lower = {} THEN Min(gap.upper) - Spacing
    ELSE IF gap.upper = {} THEN Max(gap.lower) + Spacing
    ELSE Max(gap.lower) + (Min(gap.upper) - Max(gap.lower)) \div 2

\* Mutant: renumbering counts the positions without spacing them.
RenumberedUnspaced ==
    [t \in Ticket |->
        IF t \in Captured
        THEN Cardinality({u \in Captured : rank[u] <= rank[t]})
        ELSE rank[t]]

\* renumberOwnerPriority: archived Tickets and every stage are numbered too.
Renumbered ==
    [t \in Ticket |->
        IF t \in Captured
        THEN Spacing * Cardinality({u \in Captured : rank[u] <= rank[t]})
        ELSE rank[t]]

\* Has t, under the given ranks, a place beside a or room to get one?
HasRoom(ranks, t, a, side) ==
    LET gap == GapBeside(ranks, t, a, side)
    IN Contains(gap, ranks[t]) \/ HasMidpoint(gap)

\* One pass of placeBesideAnchor: a Ticket in place keeps its rank.
Placed(ranks, t, a, side) ==
    LET gap == GapBeside(ranks, t, a, side) IN
    IF Contains(gap, ranks[t]) THEN ranks
    ELSE [ranks EXCEPT ![t] = Midpoint(gap)]

\* The second pass finding no room is an error, and the move rolls back.
PlaceBesideAnchor(t, a, side) ==
    \/ /\ HasRoom(rank, t, a, side)
       /\ rank' = Placed(rank, t, a, side)
    \/ /\ ~HasRoom(rank, t, a, side)
       /\ HasRoom(Renumbered, t, a, side)
       /\ rank' = Placed(Renumbered, t, a, side)

-----------------------------------------------------------------------------
(* The Owner's handlers.                                                   *)

LockFree == ~walking

\* The claim keeps the rows it has locked until it commits.
RowFree(t) == walking => t \notin looked

Mutable(t) == ~archived[t] /\ openRound # t

CaptureTicket(t) ==
    /\ LockFree
    /\ t \notin Captured
    /\ status' = [status EXCEPT ![t] = "Backlog"]
    /\ rank' = [rank EXCEPT ![t] = TopRank]
    /\ UNCHANGED <<archived, assignee, openRound, walkVars>>

\* moveTicketToBottom, when the transition enters Ready.
RankAfter(t, target) ==
    IF target = "Ready" /\ status[t] # "Ready"
    THEN [rank EXCEPT ![t] = BottomRank] ELSE rank

\* Change of Status by hand, accept and request rework.
TransitionLockedTicket(t, target) ==
    /\ LockFree
    /\ t \in Captured
    /\ Mutable(t)
    /\ \/ PlainStatusChangeAllowed(status[t], target, assignee[t],
                                   NeededInputs(assignee[t]))
       \/ status[t] = "InReview" /\ target = "Done"
       \/ /\ status[t] = "InReview" /\ target = "Ready"
          /\ assignee[t] \in AgentKinds
    /\ status' = [status EXCEPT ![t] = target]
    /\ rank' = RankAfter(t, target)
    /\ UNCHANGED <<archived, assignee, openRound, walkVars>>

\* The anchor may be in an open Round's hands; the moved Ticket may not.
ReorderTicket(t, a, side) ==
    /\ LockFree
    /\ {t, a} \subseteq Captured
    /\ Mutable(t)
    /\ a # t
    /\ ~archived[a]
    /\ status[a] = status[t]
    /\ PlaceBesideAnchor(t, a, side)
    /\ UNCHANGED <<status, archived, assignee, openRound, walkVars>>

SetAssignee(t, kind) ==
    /\ RowFree(t)
    /\ t \in Captured
    /\ Mutable(t)
    /\ assignee' = [assignee EXCEPT ![t] = kind]
    /\ UNCHANGED <<status, archived, rank, openRound, walkVars>>

ArchiveTicket(t) ==
    /\ RowFree(t)
    /\ t \in Captured
    /\ Mutable(t)
    /\ archived' = [archived EXCEPT ![t] = TRUE]
    /\ UNCHANGED <<status, assignee, rank, openRound, walkVars>>

RestoreTicket(t) ==
    /\ RowFree(t)
    /\ archived[t]
    /\ openRound # t
    /\ archived' = [archived EXCEPT ![t] = FALSE]
    /\ status' = [status EXCEPT ![t] = IF @ = "Ready" THEN "Backlog" ELSE @]
    /\ UNCHANGED <<assignee, rank, openRound, walkVars>>

-----------------------------------------------------------------------------
(* The claim, and the Round it opens.                                      *)

\* A superset of the Tickets requesting work, in rank order.
ClaimCandidates ==
    {t \in Ticket :
        status[t] = "Ready" /\ ~archived[t] /\ assignee[t] \in AgentKinds}

WorkRequested(t) ==
    AgentWorkRequested(status[t], archived[t], assignee[t],
                       NeededInputs(assignee[t]), openRound = t)

ListCandidates ==
    /\ LockFree
    /\ openRound = NoTicket
    /\ walking' = TRUE
    /\ candidates' = ClaimCandidates
    /\ UNCHANGED <<status, archived, assignee, rank, openRound, looked>>

\* Mutant: the candidates are walked in no particular order.
AnyCandidate(t) == t \in candidates \ looked

NextCandidate(t) ==
    /\ t \in candidates \ looked
    /\ \A u \in candidates \ looked : rank[t] <= rank[u]

SkipCandidate(t) ==
    /\ walking
    /\ NextCandidate(t)
    /\ ~WorkRequested(t)
    /\ looked' = looked \cup {t}
    /\ UNCHANGED <<status, archived, assignee, rank, openRound, walking,
                   candidates>>

\* Mutant: the rows stay locked.
EndWalkLocked == walking' = FALSE /\ candidates' = {} /\ UNCHANGED looked

EndWalk == walking' = FALSE /\ candidates' = {} /\ looked' = {}

ClaimCandidate(t) ==
    /\ walking
    /\ NextCandidate(t)
    /\ WorkRequested(t)
    /\ openRound' = t
    /\ EndWalk
    /\ UNCHANGED <<status, archived, assignee, rank>>

ClaimNothing ==
    /\ walking
    /\ candidates = looked
    /\ EndWalk
    /\ UNCHANGED <<status, archived, assignee, rank, openRound>>

\* Started, waiting and resumed: the Round holds its Ticket in a Status.
RoundGoesOn(target) ==
    /\ LockFree
    /\ openRound # NoTicket
    /\ <<status[openRound], target>> \in
           {<<"Ready", "InProgress">>, <<"InProgress", "Blocked">>,
            <<"Blocked", "InProgress">>}
    /\ status' = [status EXCEPT ![openRound] = target]
    /\ UNCHANGED <<archived, assignee, rank, openRound, walkVars>>

\* Delivered from a running Round, or ended in any other way.
RoundEnds(target) ==
    /\ LockFree
    /\ openRound # NoTicket
    /\ \/ target = "InReview" /\ status[openRound] = "InProgress"
       \/ target = "Blocked"
    /\ status' = [status EXCEPT ![openRound] = target]
    /\ openRound' = NoTicket
    /\ UNCHANGED <<archived, assignee, rank, walkVars>>

-----------------------------------------------------------------------------
Init ==
    /\ status = [t \in Ticket |-> "none"]
    /\ archived = [t \in Ticket |-> FALSE]
    /\ assignee = [t \in Ticket |-> "none"]
    /\ rank = [t \in Ticket |-> 0]
    /\ openRound = NoTicket
    /\ walking = FALSE
    /\ candidates = {}
    /\ looked = {}

RankStep ==
    \E t \in Ticket :
        \/ CaptureTicket(t)
        \/ \E target \in Statuses : TransitionLockedTicket(t, target)
        \/ \E a \in Ticket, side \in {"before", "after"} :
               ReorderTicket(t, a, side)

RowStep ==
    \/ \E t \in Assignable, kind \in {"none", "research"} : SetAssignee(t, kind)
    \/ \E t \in Archivable : ArchiveTicket(t) \/ RestoreTicket(t)

ClaimStep ==
    \/ ListCandidates
    \/ \E t \in Ticket : SkipCandidate(t) \/ ClaimCandidate(t)
    \/ ClaimNothing

RoundStep == \E target \in Statuses : RoundGoesOn(target) \/ RoundEnds(target)

InBound == \A t \in Ticket : rank'[t] \in Ranks

Next ==
    \/ RankStep /\ InBound
    \/ RowStep
    \/ ClaimStep
    \/ RoundStep

Spec == Init /\ [][Next]_vars

-----------------------------------------------------------------------------
(* Properties.                                                             *)

Order == INSTANCE OwnerOrder WITH
    captured <- Captured,
    ready    <- {t \in Ticket : status[t] = "Ready"},
    before   <- {p \in Captured \X Captured : rank[p[1]] < rank[p[2]]}

\* The ranks, their gaps, renumbering and the handlers that write them keep
\* the order OwnerOrder promises: equal ranks, a Ticket that lands anywhere
\* but beside its anchor, or an order lost in renumbering would break it.
OrderSpec == Order!Spec

\* A reorder Galley accepts finds room: renumbering leaves a gap beside every
\* anchor, so the error after the second pass is never answered.
ReorderFindsRoom ==
    \A t, a \in Captured, side \in {"before", "after"} :
        t # a => HasRoom(rank, t, a, side) \/ HasRoom(Renumbered, t, a, side)

\* The first Ticket that requests work is claimed first: a claim passes over
\* a requesting Ticket only if it came to request work after the claim listed
\* its candidates, though assignments and archives happen along the walk.
ClaimTakesTheFirst ==
    [][\A t \in Ticket : openRound = NoTicket /\ openRound' = t =>
          /\ WorkRequested(t)
          /\ \A u \in Ticket : rank[u] < rank[t] /\ WorkRequested(u)
                => u \notin candidates]_vars

=============================================================================
