---------------------------- MODULE TicketRules ----------------------------
(***************************************************************************)
(* The pure decisions of Galley about one Ticket: which Status changes the *)
(* Owner may make by hand, which inputs an Agent needs before it can take  *)
(* a Ticket from Ready, and which Status an open Round holds.  Every       *)
(* handler that changes a Ticket consults these under the Ticket row lock. *)
(***************************************************************************)

Statuses == {"Backlog", "Ready", "InProgress", "Blocked", "InReview", "Done"}

OpenStates == {"claimed", "running", "waiting_for_input"}

EndedStates == {"delivered", "stopped", "failed", "interrupted"}

\* The Status a Round in the given open state holds its Ticket in.
TicketStatusHeldBy(state) ==
    CASE state = "claimed" -> "Ready"
      [] state = "waiting_for_input" -> "Blocked"
      [] OTHER -> "InProgress"

\* "goal" stands for the goal and the Success Criteria, which every kind of
\* Agent needs; the repository is needed by a coding Agent only.
NeededInputs(kind) ==
    IF kind = "coding" THEN {"goal", "repository"} ELSE {"goal"}

AssigneeKinds == {"none", "owner", "research", "coding"}

AgentKinds == {"research", "coding"}

\* A Ticket outside Ready, or without an Agent, needs no inputs.
AgentReady(status, assignee, inputs) ==
    status = "Ready" /\ assignee \in AgentKinds
        => NeededInputs(assignee) \subseteq inputs

AllowedSourceStatuses ==
    [Backlog    |-> {"Ready"},
     Ready      |-> {"Backlog", "InProgress", "Done", "Blocked"},
     InProgress |-> {"Ready", "Blocked", "InReview"},
     Blocked    |-> {"Backlog", "InProgress"},
     InReview   |-> {"InProgress"}]

\* Execution, not the Owner, moves an Agent-assigned Ticket into these.
AgentOwnedTargets == {"InProgress", "Blocked", "InReview"}

\* May the Owner move a mutable Ticket (unarchived, no open Round) by hand?
PlainStatusChangeAllowed(status, target, assignee, inputs) ==
    /\ target # "Done"
    /\ status \in AllowedSourceStatuses[target]
    /\ status = "Blocked" /\ target = "Ready" => assignee \in AgentKinds
    /\ ~ (target \in AgentOwnedTargets /\ assignee \in AgentKinds)
    /\ AgentReady(target, assignee, inputs)

\* Mutant: an input the edit names counts as given, even when it clears it.
TicketUpdateNaming(status, assignee, named, newInputs) ==
    AgentReady(status, assignee, newInputs \cup named)

\* May the Owner's edit, naming some inputs, leave newInputs given?  Refused is
\* only an edit that itself clears an input the Ready Agent Ticket needs.
TicketUpdateAllowed(status, assignee, named, newInputs) ==
    status = "Ready" /\ assignee \in AgentKinds
        => named \cap NeededInputs(assignee) \subseteq newInputs

\* Is the Ticket requesting Agent work?  The claim's one eligibility rule.
AgentWorkRequested(status, archived, assignee, inputs, hasOpenRound) ==
    /\ ~archived
    /\ status = "Ready"
    /\ assignee \in AgentKinds
    /\ NeededInputs(assignee) \subseteq inputs
    /\ ~hasOpenRound

=============================================================================
