-------------------------- MODULE PermissionGrants --------------------------
(***************************************************************************)
(* How the admission ledger of experiments/shared/src/admission-ledger.ts  *)
(* decides: the substitute for Galley the experiments ask before every     *)
(* action.  Here are the grants, the Tickets that ended, the Rounds with a *)
(* pending Stop, the connection and the clock, and the decision they lead  *)
(* to; AdmissionLedger adds the two logs.  The ledger runs in one          *)
(* JavaScript thread, so each method is one atomic step.                   *)
(*                                                                         *)
(* The agent, account, action and resource of a request are only ever      *)
(* compared together, so one value, a scope, stands for the four.          *)
(***************************************************************************)
EXTENDS Integers, Sequences, FiniteSets, FiniteSetsExt

CONSTANTS Scopes,         \* what an admission may be asked for
          Tickets,
          LedgerRounds,   \* the Rounds admissions are asked for
          MaxGrants,      \* bound: grants recorded
          MaxClock        \* bound: the latest time the fake clock reaches

ASSUME LedgerBounds == MaxGrants \in Nat /\ MaxClock \in Nat

VARIABLES clock,              \* the fake clock
          grants,             \* the grants, in the order they were recorded
          doneTickets,        \* the Tickets that reached Done
          pendingStopRounds,  \* the Rounds with a pending Stop
          connected

grantVars == <<clock, grants, doneTickets, pendingStopRounds, connected>>

Times == 0 .. MaxClock

Requests == [scope: Scopes, ticket: Tickets, round: LedgerRounds]

\* A grant is for one Ticket or until a time, never both.
TicketForms == [kind: {"ticket"}, ticket: Tickets]
TimeForms == [kind: {"time"}, expiresAt: Times]
Grants == [scope: Scopes, form: TicketForms \cup TimeForms, revoked: BOOLEAN]

Reasons == {"stop-pending", "revoked", "ticket-done", "expired", "no-grant", "ok", "disconnected"}

GrantsTypeOK ==
    /\ clock \in Times
    /\ grants \in Seq(Grants)
    /\ doneTickets \in SUBSET Tickets
    /\ pendingStopRounds \in SUBSET LedgerRounds
    /\ connected \in BOOLEAN

GrantsInit ==
    /\ clock = 0
    /\ grants = <<>>
    /\ doneTickets = {}
    /\ pendingStopRounds = {}
    /\ connected = TRUE

-----------------------------------------------------------------------------
(* Deciding *)

\* The grants a request could rest on: a grant for a Ticket is of no use to another.
Matches(g, request) ==
    /\ g.scope = request.scope
    /\ g.form.kind = "ticket" => g.form.ticket = request.ticket

Live(g) ==
    /\ ~g.revoked
    /\ IF g.form.kind = "ticket" THEN g.form.ticket \notin doneTickets
                                 ELSE g.form.expiresAt > clock

\* The most specific reason none of the matching grants is live.
NoGrantReason(matching) ==
    IF \E i \in matching : grants[i].revoked THEN "revoked"
    ELSE IF \E i \in matching : grants[i].form.kind = "ticket" THEN "ticket-done"
    ELSE IF matching # {} THEN "expired"
    ELSE "no-grant"

\* Mutant: a pending Stop only denies what no live grant covers.
EvaluateGrantsFirst(request) ==
    LET live == {i \in DOMAIN grants : Matches(grants[i], request) /\ Live(grants[i])}
    IN  IF live = {} THEN [decision |-> "deny", reason |-> "stop-pending", grant |-> 0]
        ELSE IF connected THEN [decision |-> "allow", reason |-> "ok", grant |-> Min(live)]
        ELSE [decision |-> "hold", reason |-> "disconnected", grant |-> Min(live)]

\* A pending Stop comes before every grant; the first live grant counts; a
\* ledger that is disconnected holds what it would have allowed.
Evaluate(request) ==
    LET matching == {i \in DOMAIN grants : Matches(grants[i], request)}
        live == {i \in matching : Live(grants[i])}
    IN  IF request.round \in pendingStopRounds
        THEN [decision |-> "deny", reason |-> "stop-pending", grant |-> 0]
        ELSE IF live = {}
        THEN [decision |-> "deny", reason |-> NoGrantReason(matching), grant |-> 0]
        ELSE IF connected
        THEN [decision |-> "allow", reason |-> "ok", grant |-> Min(live)]
        ELSE [decision |-> "hold", reason |-> "disconnected", grant |-> Min(live)]

-----------------------------------------------------------------------------
(* What the owner, the Tickets and the connection do to it *)

Grant(s, form) ==
    /\ Len(grants) < MaxGrants
    /\ grants' = Append(grants, [scope |-> s, form |-> form, revoked |-> FALSE])
    /\ UNCHANGED <<clock, doneTickets, pendingStopRounds, connected>>

Revoke(i) ==
    /\ i \in DOMAIN grants
    /\ grants' = [grants EXCEPT ![i].revoked = TRUE]
    /\ UNCHANGED <<clock, doneTickets, pendingStopRounds, connected>>

TicketDone(t) ==
    /\ doneTickets' = doneTickets \cup {t}
    /\ UNCHANGED <<clock, grants, pendingStopRounds, connected>>

\* Mutant: a reopened Ticket's grants come back.
TicketReopenedRestoring(t) ==
    /\ t \in doneTickets
    /\ doneTickets' = doneTickets \ {t}
    /\ UNCHANGED <<clock, grants, pendingStopRounds, connected>>

\* ticketReopened(): on purpose, nothing comes back.
TicketReopened(t) ==
    /\ t \in doneTickets
    /\ UNCHANGED grantVars

SetConnected(up) ==
    /\ connected' = up
    /\ UNCHANGED <<clock, grants, doneTickets, pendingStopRounds>>

RequestStop(r) ==
    /\ pendingStopRounds' = pendingStopRounds \cup {r}
    /\ UNCHANGED <<clock, grants, doneTickets, connected>>

ConfirmStop(r) ==
    /\ pendingStopRounds' = pendingStopRounds \ {r}
    /\ UNCHANGED <<clock, grants, doneTickets, connected>>

\* The experiments only move the fake clock forward.
Advance ==
    /\ clock < MaxClock
    /\ clock' = clock + 1
    /\ UNCHANGED <<grants, doneTickets, pendingStopRounds, connected>>

\* A grant until a time is given for a time to come.
Forms == TicketForms \cup {f \in TimeForms : f.expiresAt > clock}

\* The owner's steps for the scopes and Rounds somebody asks for.
GrantStep(scopes, roundIds) ==
    \/ \E s \in scopes, form \in Forms : Grant(s, form)
    \/ \E i \in DOMAIN grants : Revoke(i)
    \/ \E t \in Tickets : TicketDone(t) \/ TicketReopened(t)
    \/ \E up \in BOOLEAN : SetConnected(up)
    \/ \E r \in roundIds : RequestStop(r) \/ ConfirmStop(r)
    \/ Advance
=============================================================================
