----------------------------- MODULE TicketPage -----------------------------
(***************************************************************************)
(* Swiftlet's page of one Ticket: it loads the Ticket, polls it while what *)
(* it shows awaits execution, and submits the Owner's commands, whose      *)
(* answers race with the polls.                                            *)
(*                                                                         *)
(* Galley's Ticket is the sequence of its versions.  A request is sent,    *)
(* answered by Galley and heard by the page in steps of their own.  Of the *)
(* refreshes only the one whose id is latestTicketRequest.current is heard,*)
(* so that one is kept; of one that a later id superseded nothing remains  *)
(* but the tick it still holds back.  The Rounds' records are left out but *)
(* for the refresh that waits for them.                                    *)
(***************************************************************************)
EXTENDS Integers, Sequences, FiniteSets

CONSTANTS Controls,     \* the page's controls that submit commands
          MaxVersion,   \* bound: versions of the Ticket
          MaxLosses,    \* bound: answers lost
          MaxPending    \* bound: commands in flight

\* actionPending, the badge picker's pending, saving, a panel's sending and a
\* dialog's pending: a control has one command in flight.
ASSUME PageAssumption ==
    /\ Controls \subseteq {"action", "badge", "save", "panel", "dialog"}
    /\ MaxVersion \in Nat \ {0} /\ MaxLosses \in Nat /\ MaxPending \in Nat

VARIABLES galley,    \* the versions of the Ticket in Galley, the last one current
          losses,    \* answers lost so far
          page,      \* what the page shows
          latest,    \* the load or the latest refresh
          overdue,   \* whether the interval's tick waits for a refresh nobody hears
          commands,  \* each control's command in flight
          edit,      \* the version the edit form was filled from, 0 in view mode
          draft,     \* the ask an answer or a choice is being made for, or 0
          settled    \* history: the version the last command's answer showed

requestVars == <<latest, overdue, commands>>
ownerVars == <<edit, draft>>
pageVars == <<galley, losses, page, requestVars, ownerVars, settled>>

Versions == 1 .. MaxVersion

\* What the page tells apart: no Agent work, a Ticket queued for an Agent, or an
\* open Round; and what the Owner may reply to: the question or the Permission
\* request the open Round waits on, or the delivered Round that takes feedback.
TicketVersions == [work: {"none", "queued", "open"}, ask: 0 .. MaxVersion]

\* What a request hears: a version (parseTicket returns it whole or throws),
\* Galley's refusal, a 401, or nothing usable.
Unanswered == 0
Refused == -1
Unauthenticated == -2
Lost == -3
Heard == Versions \cup {Unanswered, Refused, Unauthenticated, Lost}

None == [leg |-> "none", poll |-> FALSE, heard |-> Unanswered]
Request(leg, poll) == [leg |-> leg, poll |-> poll, heard |-> Unanswered]
PageRequests == {None} \cup [leg: {"load", "ticket", "rounds", "badge", "command"}, poll: BOOLEAN, heard: Heard]

\* Every variable has a value of its kind.
PageTypeOK ==
    /\ galley \in Seq(TicketVersions) /\ Len(galley) \in Versions
    /\ losses \in 0 .. MaxLosses
    /\ page \in [kind: {"loading", "loaded", "error", "left"}, version: 0 .. MaxVersion]
    /\ page.kind = "loaded" => page.version \in 1 .. Len(galley)
    /\ latest \in PageRequests /\ overdue \in BOOLEAN
    /\ commands \in [Controls -> PageRequests]
    /\ edit \in 0 .. MaxVersion /\ draft \in 0 .. MaxVersion
    /\ settled \in 0 .. MaxVersion

Current == Len(galley)
Loaded == page.kind = "loaded"
AskOf(v) == galley[v].ask

\* awaitsExecution()
Awaits(v) == galley[v].work # "none"
ReadOnly(v) == galley[v].work = "open"

PageInit ==
    /\ galley \in {<<v>> : v \in {w \in TicketVersions :
                        w.ask \in {0, 1} /\ (w.ask = 1 => w.work # "queued")}}
    /\ losses = 0
    /\ page = [kind |-> "loading", version |-> 0]
    /\ latest = Request("load", FALSE) /\ overdue = FALSE
    /\ commands = [c \in Controls |-> None]
    /\ edit = 0 /\ draft = 0 /\ settled = 0

-----------------------------------------------------------------------------
(* Galley and the network *)

\* The Ticket's next version: an ask is the last one's, or a new one.
NextVersions ==
    {v \in TicketVersions :
        /\ v.ask # 0 => v.work # "queued"
        /\ ~(galley[Current].work = "none" /\ v.work = "open")  \* claimed once queued
        /\ v.ask \in {0, Current + 1} \/ v = galley[Current]}

\* The runner or another page of the Owner's moves the Ticket.
GalleyMoves ==
    /\ Current < MaxVersion
    /\ \E v \in NextVersions : galley' = Append(galley, v)
    /\ UNCHANGED <<losses, page, requestVars, ownerVars, settled>>

Waits(request) == request # None /\ request.heard = Unanswered

\* Galley answers a read with the Ticket as it is, or finds no session: it may end,
\* and begin again on another page, at any time.
GalleyAnswersARead ==
    /\ Waits(latest)
    /\ \E what \in {Current, Unauthenticated} : latest' = [latest EXCEPT !.heard = what]
    /\ UNCHANGED <<galley, losses, page, overdue, commands, ownerVars, settled>>

\* A command that makes two requests has a leg that changes no Ticket: the Badge
\* is created before it is attached, and the Ticket read once the grant is revoked
\* or the attestation recorded.
ChangesNoTicket(leg) == leg \in {"badge", "ticket"}

\* Galley carries a command out or refuses it.
GalleyAnswersACommand(c) ==
    /\ Waits(commands[c])
    /\ LET hears(what) == commands' = [commands EXCEPT ![c].heard = what]
       IN  \/ hears(Unauthenticated) /\ UNCHANGED galley
           \/ ChangesNoTicket(commands[c].leg) /\ hears(Current) /\ UNCHANGED galley
           \/ commands[c].leg # "ticket" /\ hears(Refused) /\ UNCHANGED galley
           \/ /\ commands[c].leg = "command" /\ Current < MaxVersion
              /\ \E v \in NextVersions : galley' = Append(galley, v)
              /\ hears(Current + 1)
    /\ UNCHANGED <<losses, page, latest, overdue, ownerVars, settled>>

\* A request or its answer is lost, the command carried out or not.
AnswerLost ==
    /\ losses < MaxLosses /\ losses' = losses + 1
    /\ \/ /\ latest # None /\ latest' = [latest EXCEPT !.heard = Lost] /\ UNCHANGED commands
       \/ \E c \in Controls :
             /\ commands[c] # None /\ commands' = [commands EXCEPT ![c].heard = Lost]
             /\ UNCHANGED latest
    /\ UNCHANGED <<galley, page, overdue, ownerVars, settled>>

-----------------------------------------------------------------------------
(* What the page does with an answer *)

\* ++latestTicketRequest.current: nobody hears the refresh in flight any more, but
\* a tick that started it stays pending, while its interval lasts.
Superseded(request) ==
    /\ latest' = request
    /\ overdue' = (overdue \/ latest.poll)

\* Mutant: a command's success supersedes no refresh.
SupersededByNothing(v) == UNCHANGED latest /\ overdue' = (overdue /\ Awaits(v))

\* runCommand() shows version v of a command that succeeded.
SupersededByCommand(v) ==
    /\ latest' = None
    /\ overdue' = ((overdue \/ latest.poll) /\ Awaits(v))

\* The refresh a tick waits for but nobody hears is answered, or fails.
OverdueAnswered ==
    /\ overdue /\ overdue' = FALSE
    /\ UNCHANGED <<galley, losses, page, latest, commands, ownerVars, settled>>

\* Mutant: an edit survives a Ticket it was not started from.
EditKept(kept) == edit' = edit

\* The effect on the `ticket` prop: a Ticket of another identity ends the edit.
EditAfter(kept) == edit' = IF kept THEN edit ELSE 0

\* The panels' effect on the ask's id: what was begun for another ask is cleared.
DraftAfter(v, kept) == draft' = IF kept /\ AskOf(v) = draft THEN draft ELSE 0

Shows(v) == page' = [kind |-> "loaded", version |-> v]

\* A 401 returns to the sign-in page; nothing that was asked for is heard.
Leaves ==
    /\ page' = [kind |-> "left", version |-> 0]
    /\ latest' = None /\ overdue' = FALSE /\ commands' = [c \in Controls |-> None]
    /\ edit' = 0 /\ draft' = 0
    /\ UNCHANGED settled

\* The answer of the effect that loads the Ticket; ?edit=true opens it for editing.
LoadArrives ==
    /\ latest.leg = "load" /\ latest.heard # Unanswered
    /\ IF latest.heard = Unauthenticated THEN Leaves
       ELSE /\ latest' = None
            /\ IF latest.heard \in Versions
               THEN /\ Shows(latest.heard)
                    /\ edit' \in {0} \cup (IF ReadOnly(latest.heard) THEN {} ELSE {latest.heard})
               ELSE page' = [page EXCEPT !.kind = "error"] /\ UNCHANGED edit
            /\ UNCHANGED <<overdue, commands, draft, settled>>
    /\ UNCHANGED <<galley, losses>>

\* refreshTicket(): what is shown already (sameData) keeps its identity and so the
\* edit.  The tick stays pending until the Rounds are read too.
RefreshArrives ==
    /\ latest.leg = "ticket" /\ latest.heard # Unanswered
    /\ IF latest.heard = Unauthenticated THEN Leaves
       ELSE IF latest.heard \in Versions
       THEN /\ Shows(latest.heard)
            /\ EditAfter(latest.heard = page.version)
            /\ DraftAfter(latest.heard, TRUE)
            /\ latest' = Request("rounds", latest.poll /\ Awaits(latest.heard))
            /\ overdue' = (overdue /\ Awaits(latest.heard))
            /\ UNCHANGED <<commands, settled>>
       ELSE /\ latest' = None  \* refreshError is shown beside the Ticket
            /\ UNCHANGED <<page, overdue, commands, ownerVars, settled>>
    /\ UNCHANGED <<galley, losses>>

\* loadRounds() of a refresh
RoundsArrive ==
    /\ latest.leg = "rounds" /\ latest.heard # Unanswered
    /\ IF latest.heard = Unauthenticated THEN Leaves
       ELSE /\ latest' = None
            /\ UNCHANGED <<page, overdue, commands, ownerVars, settled>>
    /\ UNCHANGED <<galley, losses>>

\* runCommand() of a command that succeeded: its own answer is shown, whatever
\* came before it.
CommandSucceeds(c) ==
    /\ commands[c].heard \in Versions
    /\ commands[c].leg = IF c = "dialog" THEN "ticket" ELSE "command"
    /\ Shows(commands[c].heard)
    /\ EditAfter(FALSE)
    /\ DraftAfter(commands[c].heard, c # "panel")
    /\ SupersededByCommand(commands[c].heard)
    /\ commands' = [commands EXCEPT ![c] = None]
    /\ settled' = commands[c].heard
    /\ UNCHANGED <<galley, losses>>

\* Control c's command heard that its request `leg` succeeded, and makes its next.
GoesOn(c, leg, next) ==
    /\ c \in Controls /\ commands[c].leg = leg /\ commands[c].heard \in Versions
    /\ commands' = [commands EXCEPT ![c] = Request(next, FALSE)]
    /\ UNCHANGED <<galley, losses, page, latest, overdue, ownerVars, settled>>

\* createAndAttach() attaches the Badge it created.
AttachCreated == GoesOn("badge", "badge", "command")

\* revokeGrant() and attestCessation() then fetch the Ticket.
DialogReads == GoesOn("dialog", "command", "ticket")

\* A command that failed: a panel's or a dialog's refusal refreshes the Ticket, an
\* answer's or a feedback's only if it names a change.
CommandFails(c) ==
    /\ commands[c].heard \in {Refused, Unauthenticated, Lost}
    /\ IF commands[c].heard = Unauthenticated THEN Leaves
       ELSE /\ commands' = [commands EXCEPT ![c] = None]
            /\ \/ /\ commands[c].heard = Refused /\ c \in {"panel", "dialog"}
                  /\ Superseded(Request("ticket", FALSE))
               \/ /\ ~(commands[c].heard = Refused /\ c = "dialog")
                  /\ UNCHANGED <<latest, overdue>>
            /\ UNCHANGED <<page, ownerVars, settled>>
    /\ UNCHANGED <<galley, losses>>

-----------------------------------------------------------------------------
(* The interval and the Owner *)

\* Mutant: a tick counts as pending unless it succeeded, or was superseded.
PendingForGood == latest.poll \/ overdue \/ losses > 0

\* The interval skips a tick while the last one's refresh is pending.
PollPending == latest.poll \/ overdue

Poll ==
    /\ Loaded /\ Awaits(page.version) /\ ~PollPending
    /\ Superseded(Request("ticket", TRUE))
    /\ UNCHANGED <<galley, losses, page, commands, ownerVars, settled>>

Idle(c) == c \in Controls => commands[c] = None

\* A control that has no command in flight sends the first request of one.
SendsLeg(c, leg) ==
    /\ c \in Controls /\ Idle(c)
    /\ Cardinality({d \in Controls : commands[d] # None}) < MaxPending
    /\ commands' = [commands EXCEPT ![c] = Request(leg, FALSE)]
    /\ UNCHANGED <<galley, losses, page, latest, overdue, ownerVars, settled>>

Sends(c) == SendsLeg(c, "command")

\* The receipt, or the edit form that hides it and its controls.
ViewMode == Loaded /\ edit = 0
EditForm == Loaded /\ edit # 0

\* The workflow's buttons: an open Round leaves Stop.
RunAction == ViewMode /\ Sends("action")

\* BadgePicker's attach() and createAndAttach(); a Ticket that is read-only takes no
\* badge.
Attach == ViewMode /\ ~ReadOnly(page.version) /\ Sends("badge")
CreateAndAttach == ViewMode /\ ~ReadOnly(page.version) /\ SendsLeg("badge", "badge")

HandleSave == EditForm /\ Sends("save")

\* What was drafted: the answer or the decision an open Round waits for, or the
\* feedback on a delivered one.
SubmitPanel == ViewMode /\ draft # 0 /\ ReadOnly(page.version) /\ Sends("panel")
AddFeedback == ViewMode /\ draft # 0 /\ ~ReadOnly(page.version) /\ Sends("panel")

\* The dialogs' confirmations: a grant outlives its Round, cessation is attested of
\* an open one.
RevokeGrant == ViewMode /\ Sends("dialog")
AttestCessation == ViewMode /\ ReadOnly(page.version) /\ Sends("dialog")

\* startEditing()
StartEditing ==
    /\ ViewMode /\ ~ReadOnly(page.version)
    /\ edit' = page.version /\ draft' = 0  \* the panels are gone
    /\ UNCHANGED <<galley, losses, page, requestVars, settled>>

\* cancelEditing(), and saving an edit of nothing
CancelEditing ==
    /\ EditForm /\ Idle("save")
    /\ edit' = 0
    /\ UNCHANGED <<galley, losses, page, requestVars, draft, settled>>

\* The Owner begins an answer, or picks the terms of an approval.
Draft ==
    /\ ViewMode /\ draft = 0 /\ AskOf(page.version) # 0 /\ Idle("panel")
    /\ draft' = AskOf(page.version)
    /\ UNCHANGED <<galley, losses, page, requestVars, edit, settled>>

ReadArrives == LoadArrives \/ RefreshArrives \/ RoundsArrive
CommandArrives(c) == CommandSucceeds(c) \/ CommandFails(c)

PageNext ==
    \/ GalleyMoves \/ AnswerLost
    \/ GalleyAnswersARead \/ ReadArrives \/ OverdueAnswered \/ Poll
    \/ StartEditing \/ CancelEditing \/ Draft
    \/ RunAction \/ Attach \/ CreateAndAttach \/ AttachCreated \/ HandleSave
    \/ SubmitPanel \/ AddFeedback \/ RevokeGrant \/ AttestCessation \/ DialogReads
    \/ \E c \in Controls : GalleyAnswersACommand(c) \/ CommandArrives(c)

\* Every request is answered or fails in the end, its answer is heard, and the
\* interval ticks.
PageFairness ==
    /\ WF_pageVars(GalleyAnswersARead) /\ WF_pageVars(ReadArrives)
    /\ WF_pageVars(OverdueAnswered) /\ WF_pageVars(Poll)

PageSpec == PageInit /\ [][PageNext]_pageVars /\ PageFairness

-----------------------------------------------------------------------------
(* Properties *)

\* No refresh, however slow, takes the page back behind the answer of the last
\* command it showed.
RefreshNeverUndoesACommand == Loaded => page.version >= settled

\* What the Owner types or chooses belongs to what is on the screen: the edit form
\* was filled from the Ticket shown, so that a save sends no field the Owner did
\* not change, and an answer or an approval's terms were made for the ask shown.
TypedForWhatIsShown ==
    Loaded => /\ edit # 0 => edit = page.version
              /\ draft # 0 => draft = AskOf(page.version)

\* While the page shows a Ticket that awaits execution it catches up with Galley,
\* or comes to show one that does not, or has left, once the Owner submits nothing
\* more: a refused command's refresh and a tick's supersede each other.
AwaitedTicketCatchesUp ==
    <>[](\A c \in Controls : commands[c] = None) =>
        []<>(Loaded => page.version = Current \/ ~Awaits(page.version))
=============================================================================
