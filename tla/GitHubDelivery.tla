---------------------------- MODULE GitHubDelivery ----------------------------
(***************************************************************************)
(* The delivery experiment (experiments/github-delivery): one Ticket with  *)
(* one branch, whose Rounds each deliver a commit through a draft pull     *)
(* request, and whose end is the merge of that pull request.               *)
(*                                                                         *)
(*  - DeliveryModule.deliver() commits and pushes, looks for the branch's  *)
(*    open pull request, and updates it or creates one;                    *)
(*  - GitHubConnection asks the ledger before every operation;             *)
(*  - the GitHub of fake-github-api.ts, where people also merge and close; *)
(*  - GalleySubstitute interprets a delivery and an observed merge.        *)
(*                                                                         *)
(* Every call to GitHub is a request and an answer, and people, the Owner  *)
(* and the ledger act in between.  Commits are numbered as they are made.  *)
(***************************************************************************)
EXTENDS PermissionGrants

CONSTANTS TicketId,     \* the Ticket
          MaxRounds,    \* bound: Rounds started
          MaxCommits    \* bound: commits made

\* What the connection asks the ledger to be admitted for.
ConnectionScopes == <<"git.commit", "git.push", "pulls.read", "pulls.write">>

ASSUME DeliveryBounds == /\ TicketId \in Tickets
                         /\ \A i \in 1 .. 4 : ConnectionScopes[i] \in Scopes
                         /\ MaxRounds \in Nat
                         /\ MaxCommits \in Nat
                         /\ 1 .. MaxRounds \subseteq LedgerRounds

VARIABLES status,       \* the Ticket's Status
          roundOpen,
          currentRound, \* the last Round started, 0 before the first
          rounds,       \* the delivered Rounds, each with its commit and pull request
          undefined,    \* the undefined transitions recorded
          committed,    \* the local branch: its last commit
          pushed,       \* the remote branch: its last commit
          pulls,        \* the pull requests, by number
          token,        \* what the connection's token reaches
          feedback,     \* whether the Ticket shows reviews or comments
          delivery,     \* deliver(): where it is, its commit, its pull request
          late,         \* a write whose deliver() threw, if it is still under way
          observer      \* the merge check: where it is, what it read, and (history)
                        \* whether a report of it ever completed the Ticket

talkVars == <<token, feedback>>
deliveryVars == <<status, roundOpen, currentRound, rounds, undefined, committed, pushed,
                  pulls, talkVars, delivery, late, observer>>
deliverySystem == <<grantVars, deliveryVars>>

Commits == 0 .. MaxCommits
Numbers == Nat

PullRequests == [state: {"open", "closed"}, merged: BOOLEAN, headSha: Commits]
Observations == [merged: BOOLEAN, state: {"open", "closed"}]
Nothing == [merged |-> FALSE, state |-> "open"]

\* The token sees the repository and may use its pull requests, sees it only (403),
\* or does not see it (404).
ConnectionTokens == {"pulls", "repository", "nothing"}

Resting == [at |-> "idle", sha |-> 0, pr |-> 0]

DeliveredRounds == [round: 1 .. MaxRounds, sha: Commits, pr: Numbers]
Deliveries == [at: {"idle", "listing", "listed", "updating", "creating", "written"},
               sha: Commits, pr: Numbers]
LateWrites == [at: {"idle", "updating", "creating"}, sha: Commits, pr: Numbers]
Observers == [at: {"idle", "reading", "read"}, pr: Numbers, seen: Observations,
              completed: BOOLEAN]

\* Every variable has a value of its kind.
DeliveryTypeOK ==
    /\ status \in {"Ready", "In Progress", "In Review", "Done"}
    /\ roundOpen \in BOOLEAN
    /\ currentRound \in 0 .. MaxRounds
    /\ rounds \in Seq(DeliveredRounds)
    /\ undefined \subseteq {"closed-unmerged", "merge-during-open-round"}
    /\ committed \in Commits /\ pushed \in Commits
    /\ pulls \in Seq(PullRequests)
    /\ token \in ConnectionTokens /\ feedback \in BOOLEAN
    /\ delivery \in Deliveries /\ late \in LateWrites /\ observer \in Observers

\* The Owner grants each operation once, all for the Ticket or all until a time.
DeliveryInit ==
    /\ clock = 0 /\ doneTickets = {} /\ pendingStopRounds = {} /\ connected = TRUE
    /\ \E form \in TicketForms \cup TimeForms :
          grants = [i \in 1 .. 4 |-> [scope |-> ConnectionScopes[i], form |-> form,
                                      revoked |-> FALSE]]
    /\ status = "Ready" /\ roundOpen = FALSE /\ currentRound = 0
    /\ rounds = <<>> /\ undefined = {}
    /\ committed = 0 /\ pushed = 0
    /\ pulls = <<>>
    /\ token \in ConnectionTokens /\ feedback = FALSE
    /\ delivery = Resting /\ late = Resting
    /\ observer = [at |-> "idle", pr |-> 0, seen |-> Nothing, completed |-> FALSE]

\* admitOrThrow(): the connection only looks at the decision.
Admitted(scope) ==
    Evaluate([scope |-> scope, ticket |-> TicketId, round |-> currentRound]).decision = "allow"

-----------------------------------------------------------------------------
(* The Ticket, as GalleySubstitute keeps it *)

\* Nothing but an open Round is looked at.
StartRound ==
    /\ ~roundOpen /\ currentRound < MaxRounds
    /\ status' = "In Progress"
    /\ roundOpen' = TRUE
    /\ currentRound' = currentRound + 1
    /\ UNCHANGED <<grantVars, rounds, undefined, committed, pushed, pulls, delivery, late, observer, talkVars>>

\* Mutant: the delivery is recorded under the next Round's number.
RecordDeliveryOfTheNext ==
    /\ delivery.at = "written" /\ roundOpen
    /\ rounds' = Append(rounds, [round |-> currentRound + 1, sha |-> delivery.sha,
                                 pr |-> delivery.pr])
    /\ roundOpen' = FALSE
    /\ status' = "In Review"
    /\ delivery' = Resting
    /\ UNCHANGED <<grantVars, currentRound, undefined, committed, pushed, pulls, late, observer, talkVars>>

\* deliver() returned: the Round keeps its commit and pull request, and is over.  With
\* no Round open the caller is refused, and what was delivered goes unrecorded.
RecordDelivery ==
    /\ delivery.at = "written" /\ roundOpen
    /\ rounds' = Append(rounds, [round |-> currentRound, sha |-> delivery.sha,
                                 pr |-> delivery.pr])
    /\ roundOpen' = FALSE
    /\ status' = "In Review"
    /\ delivery' = Resting
    /\ UNCHANGED <<grantVars, currentRound, undefined, committed, pushed, pulls, late, observer, talkVars>>

ExplicitRequeue ==
    /\ status = "In Review"
    /\ status' = "Ready"
    /\ UNCHANGED <<grantVars, roundOpen, currentRound, rounds, undefined, committed, pushed,
                   pulls, delivery, late, observer, talkVars>>

\* Back to review; the Ticket's grants stay ended.
Reopen ==
    /\ status = "Done"
    /\ status' = "In Review"
    /\ TicketReopened(TicketId)
    /\ UNCHANGED <<roundOpen, currentRound, rounds, undefined, committed, pushed, pulls,
                   delivery, late, observer, talkVars>>

\* Mutant: a Ticket that is Done keeps its grants.
FinishKeepingGrants(seen) ==
    /\ status' = IF seen.merged /\ status = "In Review" THEN "Done" ELSE status
    /\ UNCHANGED doneTickets

\* A merge completes a Ticket that is in review, and ends its grants.
Finish(seen) ==
    IF seen.merged /\ status = "In Review"
    THEN status' = "Done" /\ doneTickets' = doneTickets \cup {TicketId}
    ELSE UNCHANGED <<status, doneTickets>>

\* Mutant: a pull request that is closed counts as merged.
ObserveMergeOfTheClosed(seen) ==
    /\ IF roundOpen THEN UNCHANGED <<status, doneTickets>>
                    ELSE Finish([seen EXCEPT !.merged = seen.state = "closed"])
    /\ UNCHANGED <<clock, grants, pendingStopRounds, connected, roundOpen, currentRound, rounds,
                   undefined, committed, pushed, pulls, delivery, late, talkVars>>

\* What is observed while a Round is open, or of a pull request closed without
\* a merge, is recorded and changes nothing.
ObserveMerge(seen) ==
    /\ IF roundOpen
       THEN /\ undefined' = undefined \cup {"merge-during-open-round"}
            /\ UNCHANGED <<status, doneTickets>>
       ELSE /\ Finish(seen)
            /\ undefined' = IF ~seen.merged /\ seen.state = "closed"
                            THEN undefined \cup {"closed-unmerged"} ELSE undefined
    /\ UNCHANGED <<clock, grants, pendingStopRounds, connected, roundOpen, currentRound, rounds,
                   committed, pushed, pulls, delivery, late, talkVars>>

-----------------------------------------------------------------------------
(* deliver() *)

CommitWork ==
    /\ committed < MaxCommits
    /\ Admitted("git.commit")
    /\ committed' = committed + 1

PushWork == pushed' = IF Admitted("git.push") THEN committed + 1 ELSE pushed

Lists(admitted) ==
    delivery' = IF admitted THEN [at |-> "listing", sha |-> committed + 1, pr |-> 0] ELSE Resting

\* Mutant: a refused push does not stop the delivery.
DeliverUnpushed ==
    /\ delivery.at = "idle"
    /\ CommitWork /\ PushWork /\ Lists(Admitted("pulls.read"))
    /\ UNCHANGED <<grantVars, status, roundOpen, currentRound, rounds, undefined, pulls, late, observer, talkVars>>

\* The branch, the commit and the push need no answer from GitHub, and each is
\* admitted on its own: what comes before a refusal stays done.  Nothing asks
\* whether a Round is open; only RecordDelivery does.
Deliver ==
    /\ delivery.at = "idle"
    /\ CommitWork /\ PushWork /\ Lists(Admitted("git.push") /\ Admitted("pulls.read"))
    /\ UNCHANGED <<grantVars, status, roundOpen, currentRound, rounds, undefined, pulls, late, observer, talkVars>>

OpenPulls == {i \in DOMAIN pulls : pulls[i].state = "open"}

\* A token that may not use the repository's pull requests is answered 404 or 403.
Permitted == token = "pulls"

\* GitHub lists the branch's open pull requests; deliver() takes the first.
ListPullRequests ==
    /\ delivery.at = "listing"
    /\ delivery' = IF Permitted
                   THEN [delivery EXCEPT !.at = "listed",
                                         !.pr = IF OpenPulls = {} THEN 0 ELSE Min(OpenPulls)]
                   ELSE Resting
    /\ UNCHANGED <<grantVars, status, roundOpen, currentRound, rounds, undefined, committed,
                   pushed, pulls, late, observer, talkVars>>

\* Update what was found, or create a draft.
WritePullRequest ==
    /\ delivery.at = "listed"
    /\ delivery' = IF ~Admitted("pulls.write") THEN Resting
                   ELSE [delivery EXCEPT !.at = IF delivery.pr # 0 THEN "updating" ELSE "creating"]
    /\ UNCHANGED <<grantVars, status, roundOpen, currentRound, rounds, undefined, committed,
                   pushed, pulls, late, observer, talkVars>>

\* GitHub takes an update of any pull request, one that was merged or closed
\* since it was listed included.
Updated(w) == [pulls EXCEPT ![w.pr].headSha = w.sha]

\* GitHub refuses a second open pull request of one branch.
MayCreate == OpenPulls = {}
Created(w) == Append(pulls, [state |-> "open", merged |-> FALSE, headSha |-> w.sha])

UpdatePullRequest ==
    /\ delivery.at = "updating"
    /\ pulls' = Updated(delivery)
    /\ delivery' = [delivery EXCEPT !.at = "written"]
    /\ UNCHANGED <<grantVars, status, roundOpen, currentRound, rounds, undefined, committed,
                   pushed, late, observer, talkVars>>

CreatePullRequest ==
    /\ delivery.at = "creating"
    /\ IF MayCreate
       THEN /\ pulls' = Created(delivery)
            /\ delivery' = [delivery EXCEPT !.at = "written", !.pr = Len(pulls) + 1]
       ELSE /\ delivery' = Resting
            /\ UNCHANGED pulls
    /\ UNCHANGED <<grantVars, status, roundOpen, currentRound, rounds, undefined, committed,
                   pushed, late, observer, talkVars>>

\* A request is refused, or the connection breaks: deliver() throws, whatever
\* GitHub did or will still do with its write.  So does the caller, where no Round is
\* open to record the delivery for.
DeliverThrows ==
    /\ delivery.at # "idle"
    /\ delivery' = Resting
    /\ \/ UNCHANGED late
       \/ delivery.at \in {"updating", "creating"} /\ late' = delivery
    /\ UNCHANGED <<grantVars, status, roundOpen, currentRound, rounds, undefined, committed,
                   pushed, pulls, observer, talkVars>>

\* GitHub gets to a write nobody waits for any more.
LateWrite ==
    /\ late.at # "idle"
    /\ pulls' = IF late.at = "updating" THEN Updated(late)
                ELSE IF MayCreate THEN Created(late) ELSE pulls
    /\ late' = Resting
    /\ UNCHANGED <<grantVars, status, roundOpen, currentRound, rounds, undefined, committed,
                   pushed, delivery, observer, talkVars>>

-----------------------------------------------------------------------------
(* GitHub's people, and the merge check *)

MergePullRequest(i) ==
    /\ pulls[i].state = "open"
    /\ pulls' = [pulls EXCEPT ![i].state = "closed", ![i].merged = TRUE]
    /\ UNCHANGED <<grantVars, status, roundOpen, currentRound, rounds, undefined, committed,
                   pushed, delivery, late, observer, talkVars>>

ClosePullRequest(i) ==
    /\ pulls[i].state = "open"
    /\ pulls' = [pulls EXCEPT ![i].state = "closed"]
    /\ UNCHANGED <<grantVars, status, roundOpen, currentRound, rounds, undefined, committed,
                   pushed, delivery, late, observer, talkVars>>

\* listReviews(), listIssueComments() and recordFeedback(): people may have reviewed
\* or commented by now.  What they said is shown on the Ticket and moves nothing, an
\* approval included.
RecordFeedback(j) ==
    /\ Admitted("pulls.read") /\ Permitted
    /\ feedback' = TRUE
    /\ UNCHANGED <<grantVars, status, roundOpen, currentRound, rounds, undefined, committed,
                   pushed, pulls, token, delivery, late, observer>>

\* Ask GitHub for the pull request of a delivered Round.
GetPullRequest(j) ==
    /\ observer.at = "idle"
    /\ Admitted("pulls.read")
    /\ observer' = [observer EXCEPT !.at = "reading", !.pr = rounds[j].pr]
    /\ UNCHANGED <<grantVars, status, roundOpen, currentRound, rounds, undefined, committed,
                   pushed, pulls, delivery, late, talkVars>>

ReadPullRequest ==
    /\ observer.at = "reading"
    /\ observer' = [observer EXCEPT !.at = "read",
                        !.seen = [merged |-> pulls[observer.pr].merged,
                                  state |-> pulls[observer.pr].state]]
    /\ UNCHANGED <<grantVars, status, roundOpen, currentRound, rounds, undefined, committed,
                   pushed, pulls, delivery, late, talkVars>>

\* What was read is reported, however much later.
ReportObservation ==
    /\ observer.at = "read"
    /\ ObserveMerge(observer.seen)
    /\ observer' = [at |-> "idle", pr |-> 0, seen |-> Nothing,
                    completed |-> observer.completed \/ status' = "Done"]

-----------------------------------------------------------------------------

DeliveryNext ==
    \/ StartRound \/ RecordDelivery \/ ExplicitRequeue \/ Reopen
    \/ Deliver \/ ListPullRequests \/ WritePullRequest
    \/ UpdatePullRequest \/ CreatePullRequest \/ DeliverThrows \/ LateWrite
    \/ \E i \in DOMAIN pulls : MergePullRequest(i) \/ ClosePullRequest(i)
    \/ \E j \in DOMAIN rounds : GetPullRequest(j) \/ RecordFeedback(j)
    \/ ReadPullRequest \/ ReportObservation
    \/ /\ \/ \E i \in DOMAIN grants : Revoke(i)
          \/ \E up \in BOOLEAN : SetConnected(up)
          \/ Advance
       /\ UNCHANGED deliveryVars

DeliverySpec == DeliveryInit /\ [][DeliveryNext]_deliverySystem

-----------------------------------------------------------------------------
(* Properties *)

\* A Ticket is Done only if a pull request one of its Rounds delivered was
\* merged, however old the observation was that said so.
DoneRestsOnAMerge ==
    status = "Done" => \E j \in DOMAIN rounds : pulls[rounds[j].pr].merged

\* What a Round was recorded to have delivered reached the remote: the commits of
\* the delivered Rounds were pushed, later Rounds have later ones, and every
\* pull request shows a commit that was pushed, after refusals half-way, repeated
\* deliveries and late writes.
DeliveredWorkWasPushed ==
    /\ \A j \in DOMAIN rounds : rounds[j].sha <= pushed /\ rounds[j].pr \in DOMAIN pulls
    /\ \A i, j \in DOMAIN rounds : i < j => rounds[i].sha < rounds[j].sha
    /\ \A i \in DOMAIN pulls : pulls[i].headSha <= pushed

\* Nothing is pushed on a Ticket's grants once the Ticket was Done, not even in
\* a Round that started after it was reopened.
NothingIsPushedOnceDone ==
    [][(pushed' # pushed /\ observer.completed) =>
          \E i \in DOMAIN grants : grants[i].form.kind = "time"]_deliverySystem
=============================================================================
