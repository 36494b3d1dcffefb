------------------------------- MODULE Galley -------------------------------
(***************************************************************************)
(* Galley's record of one Owner's Tickets and Rounds, and every handler    *)
(* that changes it.  A handler is one Postgres transaction: it takes the   *)
(* Owner's priority lock or the Ticket row lock before it reads what it    *)
(* decides on, so it is one action here.  The runner credential is the     *)
(* exception: requireRunner reads it in a statement of its own, before the *)
(* handler's transaction, so a request can outlive the credential it came  *)
(* with.  Any runner that was ever paired may therefore still report an    *)
(* event, and an authenticated claim is a state of its own (claiming).     *)
(*                                                                         *)
(* Left out: the order of Tickets (a claim takes any that asks here; see   *)
(* TicketPriority), idempotency keys (a replayed request changes nothing), *)
(* Badges, grants, commands and the texts of everything.                   *)
(***************************************************************************)
EXTENDS TicketRules, Naturals

CONSTANTS
    Ticket,          \* the Owner's Tickets
    ReviewedPr,      \* those whose completion condition is reviewed PR merge
    Round,           \* the Rounds claims may insert
    Runner,          \* runner credentials; pairing uses a fresh one
    Ask,             \* questions and permission requests Rounds may raise
    NoAsk, NotPaired, NoTicket, NoRound,
    Assignees,       \* the kinds of assignee the Owner chooses from
    Inputs,          \* the inputs the Owner can fill in
    Limits,          \* the technical limits a Round can reach
    MaxEpoch         \* bound on a Ticket's claim epochs

ASSUME GalleyAssumption ==
    /\ ReviewedPr \subseteq Ticket
    /\ NoAsk \notin Ask
    /\ NotPaired \notin Runner
    /\ NoTicket \notin Ticket
    /\ NoRound \notin Round
    /\ "none" \in Assignees /\ Assignees \subseteq AssigneeKinds
    /\ Limits \subseteq {"wall_clock", "denial_loop"}
    /\ MaxEpoch \in Nat \ {0}

VARIABLES
    status, archived, assignee, inputs,      \* of each Ticket
    roundState, roundTicket, holder, epoch,  \* of each Round
    stopRequested, breach, waitingOn,
    reconcileRequired, execution,
    askRound, askState,                      \* of each Ask
    runner, contact, everPaired, claiming    \* the runners table

ticketVars == <<status, archived, assignee, inputs>>
stopVars == <<stopRequested, breach>>
reconcileVars == <<reconcileRequired, execution>>
claimVars == <<roundTicket, holder, epoch>>
askVars == <<askRound, askState>>
runnerVars == <<runner, contact, everPaired, claiming>>

vars == <<ticketVars, roundState, claimVars, stopVars, waitingOn,
          reconcileVars, askVars, runnerVars>>

Executions == {"none", "running", "stopped", "unknown"}
Decided == {"answered", "approved", "declined"}

TypeOK ==
    /\ status \in [Ticket -> Statuses]
    /\ archived \in [Ticket -> BOOLEAN]
    /\ assignee \in [Ticket -> Assignees]
    /\ inputs \in [Ticket -> SUBSET Inputs]
    /\ roundState \in [Round -> {"unclaimed"} \cup OpenStates \cup EndedStates]
    /\ roundTicket \in [Round -> Ticket \cup {NoTicket}]
    /\ holder \in [Round -> Runner \cup {NotPaired}]
    /\ epoch \in [Round -> 0..MaxEpoch]
    /\ stopRequested \in [Round -> BOOLEAN]
    /\ breach \in [Round -> Limits \cup {"none"}]
    /\ waitingOn \in [Round -> Ask \cup {NoAsk}]
    /\ reconcileRequired \in [Round -> BOOLEAN]
    /\ execution \in [Round -> Executions]
    /\ askRound \in [Ask -> Round \cup {NoRound}]
    /\ askState \in [Ask -> {"unraised", "asked", "requested"} \cup Decided]
    /\ runner \in Runner \cup {NotPaired}
    /\ contact \in {"unregistered", "recent", "lapsed"}
    /\ everPaired \subseteq Runner
    /\ claiming \subseteq Runner

-----------------------------------------------------------------------------
Open(r) == roundState[r] \in OpenStates
Ended(r) == roundState[r] \in EndedStates
RoundsOf(t) == {r \in Round : roundTicket[r] = t}
HasOpenRound(t) == \E r \in RoundsOf(t) : Open(r)
\* Mutant: a Round that has not started does not take the slot.
SlotTakenOnceStarted == \E r \in Round : Open(r) /\ roundState[r] # "claimed"

SlotTaken == \E r \in Round : Open(r)

\* Mutant: the open-Round lock reads only whether the Round is running.
MutableUnlessRunning(t) ==
    ~archived[t] /\ \A r \in RoundsOf(t) : roundState[r] # "running"

\* May the Owner's edit touch the Ticket at all?
Mutable(t) == ~archived[t] /\ ~HasOpenRound(t)

\* Tickets come and go between Statuses; everything else of them is kept.
MoveTicket(t, target) ==
    /\ status' = [status EXCEPT ![t] = target]
    /\ UNCHANGED <<archived, assignee, inputs>>

\* Every SQL statement that moves a Round's Ticket names the Status the Round
\* holds it in, and refuses (rolls back) when the Ticket has another.
MoveHeldTicket(r, target) ==
    /\ status[roundTicket[r]] = TicketStatusHeldBy(roundState[r])
    /\ MoveTicket(roundTicket[r], target)

\* The limit check at the end of a handler that leaves the Round running:
\* whether a limit of the given kinds is reached is up to the clock and the
\* denial streak.  The first cause of a Stop wins.
EnforceRoundLimits(r, kinds) ==
    \/ UNCHANGED stopVars
    \/ /\ ~stopRequested[r]
       /\ stopRequested' = [stopRequested EXCEPT ![r] = TRUE]
       /\ \E kind \in kinds \cap Limits : breach' = [breach EXCEPT ![r] = kind]

-----------------------------------------------------------------------------
(* The Owner's Ticket commands.                                            *)

\* POST /api/tickets captures into Backlog: the initial state holds Tickets
\* as captured, with the inputs given then.
ChangeTicketStatus(t, target) ==
    /\ Mutable(t)
    /\ PlainStatusChangeAllowed(status[t], target, assignee[t], inputs[t])
    /\ MoveTicket(t, target)
    /\ UNCHANGED <<roundState, claimVars, stopVars, waitingOn, reconcileVars,
                   askVars, runnerVars>>

AcceptTicket(t) ==
    /\ Mutable(t)
    /\ status[t] = "InReview"
    /\ t \notin ReviewedPr
    /\ MoveTicket(t, "Done")
    /\ UNCHANGED <<roundState, claimVars, stopVars, waitingOn, reconcileVars,
                   askVars, runnerVars>>

RequestTicketRework(t) ==
    /\ Mutable(t)
    /\ assignee[t] \in AgentKinds
    /\ status[t] = "InReview"
    /\ AgentReady("Ready", assignee[t], inputs[t])
    /\ MoveTicket(t, "Ready")
    /\ UNCHANGED <<roundState, claimVars, stopVars, waitingOn, reconcileVars,
                   askVars, runnerVars>>

SetAssignee(t, kind) ==
    /\ Mutable(t)
    /\ AgentReady(status[t], kind, inputs[t])
    /\ assignee' = [assignee EXCEPT ![t] = kind]
    /\ UNCHANGED <<status, archived, inputs, roundState, claimVars, stopVars,
                   waitingOn, reconcileVars, askVars, runnerVars>>

UpdateTicket(t, named, given) ==
    /\ Mutable(t)
    /\ given \subseteq named
    /\ LET newInputs == (inputs[t] \ named) \cup given IN
        /\ TicketUpdateAllowed(status[t], assignee[t], named, newInputs)
        /\ inputs' = [inputs EXCEPT ![t] = newInputs]
    /\ UNCHANGED <<status, archived, assignee, roundState, claimVars, stopVars,
                   waitingOn, reconcileVars, askVars, runnerVars>>

ArchiveTicket(t) ==
    /\ Mutable(t)
    /\ archived' = [archived EXCEPT ![t] = TRUE]
    /\ UNCHANGED <<status, assignee, inputs, roundState, claimVars, stopVars,
                   waitingOn, reconcileVars, askVars, runnerVars>>

\* A Ticket archived in Ready comes back in Backlog, asking for no work.
RestoreTicket(t) ==
    /\ archived[t]
    /\ ~HasOpenRound(t)
    /\ archived' = [archived EXCEPT ![t] = FALSE]
    /\ status' = [status EXCEPT ![t] = IF @ = "Ready" THEN "Backlog" ELSE @]
    /\ UNCHANGED <<assignee, inputs, roundState, claimVars, stopVars,
                   waitingOn, reconcileVars, askVars, runnerVars>>

-----------------------------------------------------------------------------
(* The Owner's Round commands.                                             *)

\* A second Stop is answered as the first and changes nothing.
RequestStop(r) ==
    /\ Open(r)
    /\ ~stopRequested[r]
    /\ stopRequested' = [stopRequested EXCEPT ![r] = TRUE]
    /\ UNCHANGED <<ticketVars, roundState, claimVars, breach, waitingOn,
                   reconcileVars, askVars, runnerVars>>

\* Mutant: a decision does not look for a Stop.
DecideAskAfterStop(a, from, decision) ==
    /\ askState[a] = from
    /\ roundState[askRound[a]] = "waiting_for_input"
    /\ askState' = [askState EXCEPT ![a] = decision]
    /\ UNCHANGED <<ticketVars, roundState, claimVars, stopVars, waitingOn,
                   reconcileVars, askRound, runnerVars>>

\* decideAnswer and decidePermission look at the ask and at its Round, never
\* at which ask the Round is waiting on.
DecideAsk(a, from, decision) ==
    /\ askState[a] = from
    /\ roundState[askRound[a]] = "waiting_for_input"
    /\ ~stopRequested[askRound[a]]
    /\ askState' = [askState EXCEPT ![a] = decision]
    /\ UNCHANGED <<ticketVars, roundState, claimVars, stopVars, waitingOn,
                   reconcileVars, askRound, runnerVars>>

AnswerQuestion(a) == DecideAsk(a, "asked", "answered")

DecidePermission(a, decision) ==
    /\ decision \in {"approved", "declined"}
    /\ DecideAsk(a, "requested", decision)

\* The holder can still be heard from, and has not said it lost track.
HolderAnswersForIt(r) ==
    /\ runner # NotPaired
    /\ holder[r] = runner
    /\ contact = "recent"
    /\ execution[r] # "unknown"

AttestCessation(r) ==
    /\ Open(r)
    /\ ~archived[roundTicket[r]]
    /\ ~HolderAnswersForIt(r)
    /\ roundState' = [roundState EXCEPT ![r] = "interrupted"]
    /\ waitingOn' = [waitingOn EXCEPT ![r] = NoAsk]
    /\ MoveHeldTicket(r, "Blocked")
    /\ UNCHANGED <<claimVars, stopVars, reconcileVars, askVars, runnerVars>>

-----------------------------------------------------------------------------
(* The runner's credential, its registration and its heartbeats.           *)

\* The new credential replaces the old one; Rounds keep naming their holder.
PairRunner(rn) ==
    /\ rn \notin everPaired
    /\ runner' = rn
    /\ contact' = "unregistered"
    /\ everPaired' = everPaired \cup {rn}
    /\ UNCHANGED <<ticketVars, roundState, claimVars, stopVars, waitingOn,
                   reconcileVars, askVars, claiming>>

RevokeRunner ==
    /\ runner # NotPaired
    /\ runner' = NotPaired
    /\ contact' = "unregistered"
    /\ UNCHANGED <<ticketVars, roundState, claimVars, stopVars, waitingOn,
                   reconcileVars, askVars, everPaired, claiming>>

FlagOpenRound ==
    reconcileRequired' =
        [r \in Round |-> IF Open(r) THEN TRUE ELSE reconcileRequired[r]]

\* A registration is a new runner process.
RegisterRunner ==
    /\ runner # NotPaired
    /\ contact' = "recent"
    /\ FlagOpenRound
    /\ UNCHANGED <<ticketVars, roundState, claimVars, stopVars, waitingOn,
                   execution, askVars, runner, everPaired, claiming>>

\* A heartbeat after a gap cannot vouch for what ran in the gap.
RunnerHeartbeat ==
    /\ runner # NotPaired
    /\ contact # "unregistered"
    /\ contact' = "recent"
    /\ IF contact = "lapsed" THEN FlagOpenRound ELSE UNCHANGED reconcileRequired
    /\ \/ UNCHANGED stopVars
       \/ \E r \in Round : /\ roundState[r] = "running"
                           /\ EnforceRoundLimits(r, {"wall_clock"})
    /\ UNCHANGED <<ticketVars, roundState, claimVars, waitingOn, execution,
                   askVars, runner, everPaired, claiming>>

\* The health window passes with no heartbeat.
HealthWindowPasses ==
    /\ contact = "recent"
    /\ contact' = "lapsed"
    /\ UNCHANGED <<ticketVars, roundState, claimVars, stopVars, waitingOn,
                   reconcileVars, askVars, runner, everPaired, claiming>>

-----------------------------------------------------------------------------
(* Claiming work.                                                          *)

\* requireRunner reads the credential and its last contact; only a claim seen
\* connected can take work, whatever becomes of the credential meanwhile.
AuthenticateClaim ==
    /\ runner # NotPaired
    /\ contact = "recent"
    /\ claiming' = claiming \cup {runner}
    /\ UNCHANGED <<ticketVars, roundState, claimVars, stopVars, waitingOn,
                   reconcileVars, askVars, runner, contact, everPaired>>

\* One more than the greatest claim epoch of the Ticket's Rounds.
NextEpoch(t, e) ==
    /\ \A q \in RoundsOf(t) : epoch[q] < e
    /\ e = 1 \/ \E q \in RoundsOf(t) : epoch[q] + 1 = e

ClaimWork(rn, t, r, e) ==
    /\ rn \in claiming
    /\ ~SlotTaken
    /\ AgentWorkRequested(status[t], archived[t], assignee[t], inputs[t],
                          HasOpenRound(t))
    /\ roundState[r] = "unclaimed"
    /\ NextEpoch(t, e)
    /\ roundState' = [roundState EXCEPT ![r] = "claimed"]
    /\ roundTicket' = [roundTicket EXCEPT ![r] = t]
    /\ holder' = [holder EXCEPT ![r] = rn]
    /\ epoch' = [epoch EXCEPT ![r] = e]
    /\ claiming' = claiming \ {rn}
    /\ UNCHANGED <<ticketVars, stopVars, waitingOn, reconcileVars, askVars,
                   runner, contact, everPaired>>

\* Answered 204: the slot is taken, nothing asks for work, or the window
\* passed before the handler read its clock.
ClaimNothing(rn) ==
    /\ rn \in claiming
    /\ claiming' = claiming \ {rn}
    /\ UNCHANGED <<ticketVars, roundState, claimVars, stopVars, waitingOn,
                   reconcileVars, askVars, runner, contact, everPaired>>

-----------------------------------------------------------------------------
(* The event ladder.  A Round's events name its claim epoch, which its id   *)
(* already fixes; what fences a stranger is the holder recorded at the     *)
(* claim.  A replayed or conflicting idempotency key changes nothing.      *)

\* Mutant: an event is taken whatever state its Round is in.
ReportsInAnyState(rn, r, states) ==
    /\ holder[r] = rn
    /\ roundState[r] \in states \cup EndedStates

Reports(rn, r, states) ==
    /\ holder[r] = rn
    /\ roundState[r] \in states

ExecutionStarted(rn, r) ==
    /\ Reports(rn, r, {"claimed"})
    /\ roundState' = [roundState EXCEPT ![r] = "running"]
    /\ MoveHeldTicket(r, "InProgress")
    \* no active time and no denials yet, so no limit is reached
    /\ UNCHANGED <<claimVars, stopVars, waitingOn, reconcileVars, askVars,
                   runnerVars>>

\* progress and usage_observed: records of their own, and the limit check
ProgressOrUsage(rn, r) ==
    /\ Reports(rn, r, {"running"})
    /\ EnforceRoundLimits(r, {"wall_clock"})
    /\ UNCHANGED <<ticketVars, roundState, claimVars, waitingOn, reconcileVars,
                   askVars, runnerVars>>

Delivered(rn, r) ==
    /\ Reports(rn, r, {"running"})
    /\ roundState' = [roundState EXCEPT ![r] = "delivered"]
    /\ MoveHeldTicket(r, "InReview")
    /\ UNCHANGED <<claimVars, stopVars, waitingOn, reconcileVars, askVars,
                   runnerVars>>

\* Mutant: an ending leaves the Round's waiting ask named.
EndRoundStillWaiting(r, outcome, target) ==
    /\ roundState' = [roundState EXCEPT ![r] = outcome]
    /\ MoveHeldTicket(r, target)
    /\ UNCHANGED <<claimVars, stopVars, waitingOn, reconcileVars, askVars,
                   runnerVars>>

\* Mutant: the Ticket is given the Round's outcome for a Status.
EndRoundSwapped(r, outcome, target) ==
    /\ roundState' = [roundState EXCEPT ![r] = outcome]
    /\ waitingOn' = [waitingOn EXCEPT ![r] = NoAsk]
    /\ MoveHeldTicket(r, outcome)
    /\ UNCHANGED <<claimVars, stopVars, reconcileVars, askVars, runnerVars>>

EndRound(r, outcome, target) ==
    /\ roundState' = [roundState EXCEPT ![r] = outcome]
    /\ waitingOn' = [waitingOn EXCEPT ![r] = NoAsk]
    /\ MoveHeldTicket(r, target)
    /\ UNCHANGED <<claimVars, stopVars, reconcileVars, askVars, runnerVars>>

\* Mutant: the Stop's cause is not looked at.
StopConfirmedWhateverTheCause(rn, r) ==
    /\ Reports(rn, r, OpenStates)
    /\ stopRequested[r]
    /\ EndRound(r, "stopped", "Backlog")

\* Mutant: a Stop is confirmed that nobody asked for.
StopConfirmedUnasked(rn, r) ==
    /\ Reports(rn, r, OpenStates)
    /\ IF breach[r] = "none" THEN EndRound(r, "stopped", "Backlog")
                             ELSE EndRound(r, "failed", "Blocked")

\* A Stop that a technical limit requested ends the Round failed.
StopConfirmed(rn, r) ==
    /\ Reports(rn, r, OpenStates)
    /\ stopRequested[r]
    /\ IF breach[r] = "none" THEN EndRound(r, "stopped", "Backlog")
                             ELSE EndRound(r, "failed", "Blocked")

Failed(rn, r) ==
    /\ Reports(rn, r, {"running"})
    /\ EndRound(r, "failed", "Blocked")

Interrupted(rn, r) ==
    /\ Reports(rn, r, OpenStates)
    /\ EndRound(r, "interrupted", "Blocked")

\* question_raised and permission_requested
RaiseAsk(rn, r, a, kind) ==
    /\ Reports(rn, r, {"running"})
    /\ askState[a] = "unraised"
    /\ kind \in {"asked", "requested"}
    /\ askRound' = [askRound EXCEPT ![a] = r]
    /\ askState' = [askState EXCEPT ![a] = kind]
    /\ roundState' = [roundState EXCEPT ![r] = "waiting_for_input"]
    /\ waitingOn' = [waitingOn EXCEPT ![r] = a]
    /\ MoveHeldTicket(r, "Blocked")
    /\ UNCHANGED <<claimVars, stopVars, reconcileVars, runnerVars>>

\* A Stop does not close this door: a Round resumed after it runs on until the
\* runner confirms the Stop.
Resumed(rn, r, a) ==
    /\ Reports(rn, r, {"waiting_for_input"})
    /\ waitingOn[r] = a
    /\ askState[a] \in {"answered", "approved"}
    /\ roundState' = [roundState EXCEPT ![r] = "running"]
    /\ waitingOn' = [waitingOn EXCEPT ![r] = NoAsk]
    /\ MoveHeldTicket(r, "InProgress")
    /\ EnforceRoundLimits(r, {"wall_clock"})
    /\ UNCHANGED <<claimVars, reconcileVars, askVars, runnerVars>>

\* The contact is that of the Owner's paired runner, which need not be the
\* holder the request authenticated.  A recorded denial can reach the limit.
CheckAuthority(rn, r) ==
    /\ Reports(rn, r, {"running"})
    /\ contact = "recent"
    /\ ~reconcileRequired[r]
    /\ EnforceRoundLimits(r, Limits)
    /\ UNCHANGED <<ticketVars, roundState, claimVars, waitingOn, reconcileVars,
                   askVars, runnerVars>>

-----------------------------------------------------------------------------
(* Reconcile.  held is what the runner says of the Round it names, or       *)
(* "nothing" when it holds none: Galley then answers for the open Round.   *)

\* Mutant: not knowing leaves the flag as it was.
StillRequiredIfItWas(belief, current) == belief # "running" /\ current

StillRequired(belief, current) ==
    CASE belief = "running" -> FALSE
      [] belief = "stopped" -> current
      [] OTHER -> TRUE

\* Another runner's Round is answered as unknown, and nothing is recorded.
Reconcile(rn, r, held) ==
    /\ Reports(rn, r, OpenStates)
    /\ LET belief == IF held = "nothing" THEN "unknown" ELSE held IN
        /\ execution' = [execution EXCEPT ![r] = belief]
        /\ reconcileRequired' =
                [reconcileRequired EXCEPT ![r] = StillRequired(belief, @)]
    /\ UNCHANGED <<ticketVars, roundState, claimVars, stopVars, waitingOn,
                   askVars, runnerVars>>

-----------------------------------------------------------------------------
Init ==
    /\ status = [t \in Ticket |-> "Backlog"]
    /\ archived = [t \in Ticket |-> FALSE]
    /\ assignee = [t \in Ticket |-> "none"]
    /\ inputs \in [Ticket -> SUBSET Inputs]
    /\ roundState = [r \in Round |-> "unclaimed"]
    /\ roundTicket = [r \in Round |-> NoTicket]
    /\ holder = [r \in Round |-> NotPaired]
    /\ epoch = [r \in Round |-> 0]
    /\ stopRequested = [r \in Round |-> FALSE]
    /\ breach = [r \in Round |-> "none"]
    /\ waitingOn = [r \in Round |-> NoAsk]
    /\ reconcileRequired = [r \in Round |-> FALSE]
    /\ execution = [r \in Round |-> "none"]
    /\ askRound = [a \in Ask |-> NoRound]
    /\ askState = [a \in Ask |-> "unraised"]
    /\ runner = NotPaired
    /\ contact = "unregistered"
    /\ everPaired = {}
    /\ claiming = {}

OwnerTicketStep ==
    \E t \in Ticket :
        \/ \E target \in Statuses : ChangeTicketStatus(t, target)
        \/ AcceptTicket(t)
        \/ RequestTicketRework(t)
        \/ \E kind \in Assignees : SetAssignee(t, kind)
        \/ \E named, given \in SUBSET Inputs : UpdateTicket(t, named, given)
        \/ ArchiveTicket(t)
        \/ RestoreTicket(t)

OwnerRoundStep ==
    \/ \E r \in Round : RequestStop(r) \/ AttestCessation(r)
    \/ \E a \in Ask :
        \/ AnswerQuestion(a)
        \/ \E decision \in Decided : DecidePermission(a, decision)

CredentialStep ==
    \/ \E rn \in Runner : PairRunner(rn)
    \/ RevokeRunner
    \/ RegisterRunner
    \/ RunnerHeartbeat
    \/ HealthWindowPasses

ClaimStep ==
    \/ AuthenticateClaim
    \/ \E rn \in Runner :
        \/ ClaimNothing(rn)
        \/ \E t \in Ticket, r \in Round, e \in 1..MaxEpoch : ClaimWork(rn, t, r, e)

Event(rn, r) ==
    \/ ExecutionStarted(rn, r)
    \/ ProgressOrUsage(rn, r)
    \/ Delivered(rn, r)
    \/ StopConfirmed(rn, r)
    \/ Failed(rn, r)
    \/ Interrupted(rn, r)
    \/ \E a \in Ask, kind \in {"asked", "requested"} : RaiseAsk(rn, r, a, kind)
    \/ \E a \in Ask : Resumed(rn, r, a)
    \/ CheckAuthority(rn, r)
    \/ \E held \in {"nothing", "running", "stopped", "unknown"} :
          Reconcile(rn, r, held)

EventStep == \E rn \in Runner, r \in Round : Event(rn, r)

Next == OwnerTicketStep \/ OwnerRoundStep \/ CredentialStep \/ ClaimStep \/ EventStep

Spec == Init /\ [][Next]_vars

-----------------------------------------------------------------------------
(* Safety.                                                                 *)

\* Two Rounds are never open at once, across all the Owner's Tickets and all
\* the runners that were ever paired: claims race each other and a claim can
\* commit after the credential it came with was replaced.
OneOpenRound ==
    \A r, q \in Round : Open(r) /\ Open(q) => r = q

\* While a Round is open its Ticket stays where the Round holds it, unarchived
\* and with an Agent, so the Status an event expects is always the one it
\* finds: endRound, startRound, deliverRound and moveRoundAndTicket never roll
\* back on a Ticket the Owner moved from under them.
OpenRoundHoldsItsTicket ==
    \A r \in Round : Open(r) =>
        LET t == roundTicket[r] IN
        /\ t \in Ticket
        /\ status[t] = TicketStatusHeldBy(roundState[r])
        /\ ~archived[t]
        /\ assignee[t] \in AgentKinds

\* A Round waits exactly while it names an ask of its own, and the one ask of
\* an open Round still to be decided is the one it waits on.  decideAnswer and
\* decidePermission rely on this: they never compare the two.
WaitsOnItsOwnAsk ==
    /\ \A r \in Round :
        /\ roundState[r] = "waiting_for_input" <=> waitingOn[r] # NoAsk
        /\ waitingOn[r] # NoAsk => askRound[waitingOn[r]] = r
    /\ \A a \in Ask :
        askState[a] \in {"asked", "requested"} /\ Open(askRound[a])
            => waitingOn[askRound[a]] = a

\* A Round is Stopped only when the Owner, and no technical limit, asked for
\* the Stop first; a limit always leaves a Stop behind for the runner.
FirstCauseNamesTheOutcome ==
    \A r \in Round :
        /\ breach[r] # "none" => stopRequested[r]
        /\ roundState[r] = "stopped" => stopRequested[r] /\ breach[r] = "none"

\* Once the holder reported it lost track of a Round, the Round stays flagged
\* (so its authority checks are refused) until the holder says it is running.
UnknownExecutionStaysFlagged ==
    \A r \in Round : Open(r) /\ execution[r] = "unknown" => reconcileRequired[r]

\* No sequence of edits, assignments, Status changes, archives and Rounds
\* leaves a Ticket in Ready with an Agent that lacks an input it needs; so a
\* claimed Round has the inputs its Agent starts from.
ReadyAgentHasItsInputs ==
    \A t \in Ticket :
        /\ ~archived[t] => AgentReady(status[t], assignee[t], inputs[t])
        /\ HasOpenRound(t) => NeededInputs(assignee[t]) \subseteq inputs[t]

\* What the handlers keep besides: an unclaimed Round is blank, a claimed one
\* names its Ticket; an ask names a Round once one raised it.
Bookkeeping ==
    /\ \A r \in Round :
        IF roundState[r] = "unclaimed"
        THEN /\ roundTicket[r] = NoTicket
             /\ execution[r] = "none"
             /\ ~stopRequested[r]
        ELSE roundTicket[r] \in Ticket
    /\ \A a \in Ask :
        IF askState[a] = "unraised"
        THEN askRound[a] = NoRound
        ELSE askRound[a] \in Round /\ roundState[askRound[a]] # "unclaimed"

\* The inductive core: the open Round and its Ticket move together.
SlotInv == TypeOK /\ Bookkeeping /\ OneOpenRound /\ OpenRoundHoldsItsTicket

-----------------------------------------------------------------------------
(* What a step may never do.                                               *)

\* A Round ends once: nothing of its outcome, its Stop or its cause changes
\* after a late event, a late answer or a second ending.
EndingIsFinal ==
    [][\A r \in Round : Ended(r) =>
            /\ roundState'[r] = roundState[r]
            /\ stopRequested'[r] = stopRequested[r]
            /\ breach'[r] = breach[r]]_vars

\* The Round waits for an answer or a decision that nobody has given yet.
WaitsUndecided(r) ==
    /\ roundState[r] = "waiting_for_input"
    /\ askState[waitingOn[r]] \in {"asked", "requested"}

\* A Stop outranks the answer it overtook: a Round asked to stop while it waits
\* undecided never runs again, whatever the Owner and the runner still send;
\* the only way out of the wait is an ending.
StopOutranksTheAnswer ==
    [][\A r \in Round : stopRequested[r] /\ WaitsUndecided(r)
            => (stopRequested[r] /\ WaitsUndecided(r))' \/ Ended(r)']_vars

\* A Ticket with an open Round moves only together with that Round, and only
\* in Status: whatever the Owner does meanwhile leaves it alone.
OnlyItsRoundMovesTheTicket ==
    [][\A r \in Round : Open(r) =>
            LET t == roundTicket[r] IN
            /\ archived'[t] = archived[t]
            /\ assignee'[t] = assignee[t]
            /\ inputs'[t] = inputs[t]
            /\ status'[t] # status[t] => roundState'[r] # roundState[r]]_vars

-----------------------------------------------------------------------------
(* The abstract slot these handlers implement.                             *)

OpenRound == IF SlotTaken THEN CHOOSE r \in Round : Open(r) ELSE NoRound

Slot == INSTANCE ExecutionSlot WITH
    slot <- OpenRound,
    outcome <- [r \in Round |-> IF Ended(r) THEN roundState[r] ELSE "none"],
    stopped <- {r \in Round : stopRequested[r]}

\* Claims, events, Stops and attestations, in any interleaving, take and give
\* up one execution slot as ExecutionSlot says.
SlotSpec == Slot!Spec

=============================================================================
