-------------------------- MODULE TicketCollection --------------------------
(***************************************************************************)
(* Swiftlet's Board of the Owner's Tickets: what is loaded, refetched and  *)
(* polled, and the commands submitted from there, whose answers replace    *)
(* one Ticket of the list while lists are on their way.  The List does the *)
(* same, without the moves and the archivals.                              *)
(*                                                                         *)
(* Galley is the sequence of the changes made to it, the first ones being  *)
(* what it held when the view was opened.  A Ticket's version is its last  *)
(* change, and so is the order's.  Only the list asked for last is heard   *)
(* (requestId), so that one is kept.                                       *)
(***************************************************************************)
EXTENDS Integers, Sequences, FiniteSetsExt

CONSTANTS Shelf,        \* the Tickets
          Opening,      \* bound: the changes Galley holds at first
          MaxChanges,   \* bound: changes
          MaxMishaps    \* bound: answers lost, and refetches the shell asks for

VARIABLES changes,   \* Galley: each change names a Ticket, or the order
          mishaps,   \* answers lost and refetches the shell asked for, so far
          shelf,     \* what is shown
          listing,   \* the list asked for last, if it is still to be heard
          ticking,   \* whether the interval's tick waits for a list nobody hears
          own,       \* the command that is commandPending
          stops,     \* each Ticket's Stop in flight
          reordered, \* history: the last reorder of this view that was carried out
          strayed    \* history: a Stop was answered of a Ticket no longer in the list

listVars == <<listing, ticking>>
ownVars == <<own, stops>>
shelfVars == <<changes, mishaps, shelf, listVars, ownVars, reordered, strayed>>

Order == "order"
Works == {"none", "queued", "open", "archived"}
Changes == [of: Shelf \cup {Order}, work: Works]

ASSUME ShelfAssumption ==
    /\ Order \notin Shelf /\ IsFiniteSet(Shelf)
    /\ Opening \in Seq(Changes)
    /\ \A t \in Shelf : \E i \in DOMAIN Opening : Opening[i].of = t
    /\ MaxChanges \in Nat /\ MaxMishaps \in Nat

\* What a request hears: a version of Galley, its refusal, a 401, or nothing usable.
Unread == 0
Rejected == -1
SignedOut == -2
Failed == -3

NoRequest == [what |-> "none", ticket |-> Order, heard |-> Unread]
ListRequests == [what: {"load", "poll"}, ticket: {Order}, heard: Int]
OwnRequests == [what: {"move", "archive", "reorder"}, ticket: Shelf, heard: Int]
StopRequests == [what: {"stop"}, ticket: Shelf, heard: Int]

\* Every variable has a value of its kind.
CollectionTypeOK ==
    /\ changes \in Seq(Changes)
    /\ mishaps \in 0 .. MaxMishaps
    /\ shelf \in [kind: {"loading", "loaded", "error", "left"}, of: [Shelf -> Nat],
                  order: Nat, refreshError: BOOLEAN]
    /\ listing \in ListRequests \cup {NoRequest} /\ ticking \in BOOLEAN
    /\ own \in OwnRequests \cup {NoRequest}
    /\ stops \in [Shelf -> StopRequests \cup {NoRequest}]
    /\ reordered \in Nat /\ strayed \in BOOLEAN

Latest == Len(changes)

\* The version of a Ticket, or of the order, in the list Galley returned after i changes.
VersionAt(x, i) == Max({0} \cup {j \in 1 .. i : changes[j].of = x})

Work(v) == changes[v].work
OnShelf(t) == shelf.of[t] # 0 /\ Work(shelf.of[t]) # "archived"

\* state.tickets.some(awaitsExecution)
ListAwaits(of) == \E t \in Shelf : of[t] # 0 /\ Work(of[t]) \in {"queued", "open"}

Sent(what, t) == [what |-> what, ticket |-> t, heard |-> Unread]
InFlight(request) == request # NoRequest /\ request.heard = Unread
Answered(request) == request # NoRequest /\ request.heard # Unread
IsList(heard) == heard > 0

CollectionInit ==
    /\ changes = Opening
    /\ mishaps = 0
    /\ shelf = [kind |-> "loading", of |-> [t \in Shelf |-> 0], order |-> 0,
                refreshError |-> FALSE]
    /\ listing = Sent("load", Order) /\ ticking = FALSE
    /\ own = NoRequest /\ stops = [t \in Shelf |-> NoRequest]
    /\ reordered = 0 /\ strayed = FALSE

-----------------------------------------------------------------------------
(* Galley and the network *)

Changed(x, work) ==
    /\ Latest < MaxChanges
    /\ changes' = Append(changes, [of |-> x, work |-> work])

\* The runner, another page or the modal moves a Ticket.
Becomes == [none |-> {"queued", "archived"}, queued |-> {"none", "open", "archived"},
            open |-> {"none", "queued"}, archived |-> {"none"}]

GalleyMovesATicket ==
    /\ \E t \in Shelf : \E work \in Becomes[Work(VersionAt(t, Latest))] : Changed(t, work)
    /\ UNCHANGED <<mishaps, shelf, listVars, ownVars, reordered, strayed>>

GalleyAnswersTheList ==
    /\ InFlight(listing)
    /\ \E what \in {Latest, SignedOut} : listing' = [listing EXCEPT !.heard = what]
    /\ UNCHANGED <<changes, mishaps, shelf, ticking, ownVars, reordered, strayed>>

\* A command is carried out, or refused.
CarriedOut(request) ==
    LET t == request.ticket
        now == Work(VersionAt(t, Latest))
    IN  CASE request.what = "move" -> now # "open" /\ \E w \in {"none", "queued"} : Changed(t, w)
          [] request.what = "archive" -> now # "open" /\ Changed(t, "archived")
          [] request.what = "reorder" -> now # "archived" /\ Changed(Order, "none")
          [] request.what = "stop" -> now = "open" /\ Changed(t, "open")

GalleyAnswersOwn ==
    /\ InFlight(own)
    /\ \/ /\ CarriedOut(own)
          /\ own' = [own EXCEPT !.heard = Latest + 1]
          /\ reordered' = IF own.what = "reorder" THEN Latest + 1 ELSE reordered
       \/ /\ \E what \in {Rejected, SignedOut} : own' = [own EXCEPT !.heard = what]
          /\ UNCHANGED <<changes, reordered>>
    /\ UNCHANGED <<mishaps, shelf, listVars, stops, strayed>>

GalleyAnswersAStop(t) ==
    /\ InFlight(stops[t])
    /\ \/ /\ CarriedOut(stops[t])
          /\ stops' = [stops EXCEPT ![t].heard = Latest + 1]
       \/ /\ \E what \in {Rejected, SignedOut} : stops' = [stops EXCEPT ![t].heard = what]
          /\ UNCHANGED changes
    /\ UNCHANGED <<mishaps, shelf, listVars, own, reordered, strayed>>

\* A request or its answer is lost, a command carried out or not.
RequestFails ==
    /\ mishaps < MaxMishaps /\ mishaps' = mishaps + 1
    /\ \/ listing # NoRequest /\ listing' = [listing EXCEPT !.heard = Failed] /\ UNCHANGED ownVars
       \/ own # NoRequest /\ own' = [own EXCEPT !.heard = Failed] /\ UNCHANGED <<listing, stops>>
       \/ \E t \in Shelf :
             /\ stops[t] # NoRequest /\ stops' = [stops EXCEPT ![t].heard = Failed]
             /\ UNCHANGED <<listing, own>>
    /\ UNCHANGED <<changes, shelf, ticking, reordered, strayed>>

-----------------------------------------------------------------------------
(* Lists *)

\* ++requestId.current: the list in flight is not heard; a tick that asked for it
\* stays pending while its interval lasts.
Supersedes(request, of) ==
    /\ listing' = request
    /\ ticking' = ((ticking \/ listing.what = "poll") /\ ListAwaits(of))

\* Mutant: a Ticket put in place supersedes no list.
ReplacedOnly(of) == UNCHANGED listing /\ ticking' = (ticking /\ ListAwaits(of))

\* A Ticket is put in place of its older self, and the list in flight superseded.
Replaced(of) == Supersedes(NoRequest, of)

LeavesShelf ==
    /\ shelf' = [kind |-> "left", of |-> [t \in Shelf |-> 0], order |-> 0, refreshError |-> FALSE]
    /\ listing' = NoRequest /\ ticking' = FALSE
    /\ own' = NoRequest /\ stops' = [t \in Shelf |-> NoRequest]

ListArrives ==
    /\ Answered(listing)
    /\ LET i == listing.heard
           of == [t \in Shelf |-> VersionAt(t, i)]
       IN  IF i = SignedOut THEN LeavesShelf
           ELSE IF IsList(i)
           THEN /\ listing.what = "load" \/ shelf.kind = "loaded"
                /\ shelf' = [kind |-> "loaded", of |-> of, order |-> VersionAt(Order, i),
                             refreshError |-> FALSE]
                /\ listing' = NoRequest /\ ticking' = (ticking /\ ListAwaits(of))
                /\ UNCHANGED ownVars
           ELSE /\ shelf' = IF shelf.kind = "loaded" THEN [shelf EXCEPT !.refreshError = TRUE]
                                                     ELSE [shelf EXCEPT !.kind = "error"]
                /\ listing' = NoRequest
                /\ UNCHANGED <<ticking, ownVars>>
    /\ UNCHANGED <<changes, mishaps, reordered, strayed>>

\* A tick's list nobody hears is answered: only a 401 has an effect.
TickSettles ==
    /\ ticking
    /\ \/ ticking' = FALSE /\ UNCHANGED <<shelf, listing, ownVars>>
       \/ LeavesShelf
    /\ UNCHANGED <<changes, mishaps, reordered, strayed>>

\* refreshExecution(), which a pending command skips.
ListPoll ==
    /\ shelf.kind = "loaded" /\ ListAwaits(shelf.of)
    /\ ~ticking /\ listing.what # "poll" /\ own = NoRequest
    /\ Supersedes(Sent("poll", Order), shelf.of)
    /\ UNCHANGED <<changes, mishaps, shelf, ownVars, reordered, strayed>>

\* The shell's refreshKey: a command of the modal succeeded, or it was closed.
RefreshKeyBumped ==
    /\ shelf.kind # "left" /\ mishaps < MaxMishaps
    /\ mishaps' = mishaps + 1
    /\ Supersedes(Sent("load", Order), shelf.of)
    /\ UNCHANGED <<changes, shelf, ownVars, reordered, strayed>>

-----------------------------------------------------------------------------
(* Commands *)

\* moveTicket(), archiveOnBoard() and the reorders: one at a time.
SubmitOwn(what, t) ==
    /\ shelf.kind = "loaded" /\ OnShelf(t) /\ own = NoRequest
    /\ Work(shelf.of[t]) # "open"
    /\ own' = Sent(what, t)
    /\ UNCHANGED <<changes, mishaps, shelf, listVars, stops, reordered, strayed>>

SubmitStop(t) ==
    /\ shelf.kind = "loaded" /\ OnShelf(t) /\ stops[t] = NoRequest
    /\ Work(shelf.of[t]) = "open"
    /\ stops' = [stops EXCEPT ![t] = Sent("stop", t)]
    /\ UNCHANGED <<changes, mishaps, shelf, listVars, own, reordered, strayed>>

\* A Ticket is replaced, or filtered out once archived, if it is still in the list.
ShelfWith(t, v) == IF OnShelf(t) THEN [shelf.of EXCEPT ![t] = v] ELSE shelf.of

\* The Ticket of a move's answer takes its place and the list is refetched; a failed
\* move shows its error.
MoveAnswered ==
    /\ Answered(own) /\ own.what \in {"move", "archive"}
    /\ IF own.heard = SignedOut THEN LeavesShelf
       ELSE /\ IF IsList(own.heard)
               THEN LET of == ShelfWith(own.ticket, own.heard)
                    IN  /\ shelf' = [shelf EXCEPT !.of = of]
                        /\ Supersedes(Sent("load", Order), of)
               ELSE UNCHANGED <<shelf, listVars>>
            /\ own' = NoRequest
            /\ UNCHANGED stops
    /\ UNCHANGED <<changes, mishaps, reordered, strayed>>

\* Mutant: only a reorder that succeeded is followed by the list.
ReorderAnsweredWell ==
    /\ Answered(own) /\ own.what = "reorder"
    /\ IF own.heard = SignedOut THEN LeavesShelf
       ELSE /\ IF IsList(own.heard) THEN Supersedes(Sent("load", Order), shelf.of)
                                    ELSE UNCHANGED listVars
            /\ own' = NoRequest
            /\ UNCHANGED <<shelf, stops>>
    /\ UNCHANGED <<changes, mishaps, reordered, strayed>>

\* A reorder is followed by the list, refused or lost included.
ReorderAnswered ==
    /\ Answered(own) /\ own.what = "reorder"
    /\ IF own.heard = SignedOut THEN LeavesShelf
       ELSE /\ Supersedes(Sent("load", Order), shelf.of)
            /\ own' = NoRequest
            /\ UNCHANGED <<shelf, stops>>
    /\ UNCHANGED <<changes, mishaps, reordered, strayed>>

\* replaceTicket() of a Stop
StopAnswered(t) ==
    /\ Answered(stops[t])
    /\ IF stops[t].heard = SignedOut THEN LeavesShelf /\ UNCHANGED strayed
       ELSE /\ IF IsList(stops[t].heard)
               THEN LET of == ShelfWith(t, stops[t].heard)
                    IN  /\ shelf' = [shelf EXCEPT !.of = of]
                        /\ Replaced(of)
                        /\ strayed' = (strayed \/ ~OnShelf(t))
               ELSE UNCHANGED <<shelf, listVars, strayed>>
            /\ stops' = [stops EXCEPT ![t] = NoRequest]
            /\ UNCHANGED own
    /\ UNCHANGED <<changes, mishaps, reordered>>

OwnAnswered == MoveAnswered \/ ReorderAnswered

CollectionNext ==
    \/ GalleyMovesATicket \/ GalleyAnswersTheList \/ GalleyAnswersOwn \/ RequestFails
    \/ ListArrives \/ TickSettles \/ ListPoll \/ RefreshKeyBumped \/ OwnAnswered
    \/ \E t \in Shelf : \/ \E what \in {"move", "archive", "reorder"} : SubmitOwn(what, t)
                        \/ SubmitStop(t) \/ GalleyAnswersAStop(t) \/ StopAnswered(t)

\* Every request is answered or fails in the end, its answer is heard, and the
\* interval ticks.
CollectionFairness ==
    /\ WF_shelfVars(GalleyAnswersTheList) /\ WF_shelfVars(ListArrives)
    /\ WF_shelfVars(GalleyAnswersOwn) /\ WF_shelfVars(OwnAnswered)
    /\ WF_shelfVars(TickSettles) /\ WF_shelfVars(ListPoll)

CollectionSpec == CollectionInit /\ [][CollectionNext]_shelfVars /\ CollectionFairness

-----------------------------------------------------------------------------
(* Properties *)

\* A list that has come, however long it was on its way, is as new as everything
\* shown: it undoes no move, archival or Stop whose answer was shown before it.
ListNeverUndoesACommand ==
    IsList(listing.heard) => \A t \in Shelf : VersionAt(t, listing.heard) >= shelf.of[t]

\* The order a reorder of this view made comes to be shown, its answer heard or
\* lost, or an error is, once the Owner does nothing more here.  A Stop answered for
\* a Ticket that has left the list meanwhile supersedes the list that would show it.
OwnReorderIsShown ==
    <>[](own = NoRequest /\ \A t \in Shelf : stops[t] = NoRequest) =>
        []<>(strayed \/ shelf.kind = "left" \/ shelf.refreshError \/ shelf.order >= reordered)
=============================================================================
