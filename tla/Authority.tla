----------------------------- MODULE Authority -----------------------------
(***************************************************************************)
(* What a Round of one agent may do in Galley: the Permission grants the   *)
(* Owner gives and revokes, the checks that rest on them, the limits that  *)
(* measure the Round, and the commands its runner pulls.                   *)
(*                                                                         *)
(* The module Galley has one step for a check; here is what that step      *)
(* reads and writes.  A handler takes the time before it waits for its     *)
(* locks, so every step carries a `now` that may lie behind the clock.     *)
(* Behind the locks (the Owner's priority lock, the Ticket, the Round, the *)
(* grant) each handler's transaction is one atomic step.                   *)
(***************************************************************************)
EXTENDS Integers, Sequences, FiniteSets, FiniteSetsExt

CONSTANTS Ticket,
          Scope,        \* what a check may be asked about: account, action and resource
          FullAccess,   \* the scope of a grant that covers all of its account
          MaxActive,    \* maxActive: active time a Round may spend
          MaxDenials,   \* maxDenials: denials in a row
          MaxTerm,      \* timeGrantMaxDuration
          MaxLag,       \* ticketTimeout: how long a request waits for its locks
          MaxClock,     \* bound: the latest time
          MaxRounds,    \* bound: claims
          MaxGrants,    \* bound: approvals
          MaxStreak     \* bound: denials in a row that are recorded

ASSUME AuthorityAssumption ==
    /\ FullAccess \notin Scope
    /\ MaxActive \in Nat \ {0} /\ MaxDenials \in Nat \ {0}
    /\ MaxTerm \in Nat \ {0} /\ MaxLag \in Nat
    /\ MaxRounds \in Nat

VARIABLES clock,
          done,      \* the Tickets that are Done
          rounds,    \* the Rounds, in the order they were claimed
          grants,    \* permission_grants, in the order they were approved
          commands,  \* round_commands, in the order they were issued
          heard,     \* when Galley last answered a report of the runner
          told       \* history: grants whose revocation was refused as expired

vars == <<clock, done, rounds, grants, commands, heard, told>>

NoTime == -1
NoAsk == [scope |-> FullAccess, at |-> NoTime, decision |-> "none"]
OpenStates == {"claimed", "running", "waiting"}

Rounds == [ticket: Ticket, state: OpenStates \cup {"ended"},
           ask: [scope: Scope \cup {FullAccess}, at: Int,
                 decision: {"none", "approved", "declined"}],
           active: Nat,            \* active_ms
           since: Int,             \* active_since, or NoTime
           streak: Nat,            \* checks denied since the last one allowed
           breach: {"none", "wall_clock", "denial_loop"},
           allowedOn: SUBSET Nat,  \* the grants its allowed checks recorded
           ran: Nat]               \* history: how long it ran, from the report that it does
                                   \* until Galley handled the report that it waits

Grants == [ticket: Ticket, form: {"ticket", "time"}, scope: Scope \cup {FullAccess},
           expiresAt: Int, state: {"active", "revoked", "ended_at_done"}]

Commands == [round: Nat, type: {"stop", "authority_changed", "approval"},
             ack: {"none", "applied", "ignored"}]

\* Every variable has a value of its kind.
AuthorityTypeOK ==
    /\ clock \in Nat /\ heard \in Nat
    /\ done \subseteq Ticket
    /\ rounds \in Seq(Rounds) /\ grants \in Seq(Grants) /\ commands \in Seq(Commands)
    /\ told \subseteq Nat

Init ==
    /\ clock = 0 /\ heard = 0
    /\ done = {}
    /\ rounds = <<>> /\ grants = <<>> /\ commands = <<>>
    /\ told = {}

-----------------------------------------------------------------------------
(* Time, Stops and limits *)

\* The times a request handled now may have been received at.
Received == {now \in 0 .. clock : now >= clock - MaxLag}

\* The runner reports one event after the other: it sends the next once it has
\* the answer to the last.
Reported == {now \in Received : now >= heard}

Open(r) == rounds[r].state \in OpenStates
OpenRounds == {r \in DOMAIN rounds : Open(r)}

StopRequested(r) == \E c \in DOMAIN commands : commands[c].round = r /\ commands[c].type = "stop"

Command(r, type) == [round |-> r, type |-> type, ack |-> "none"]

\* requestStop(): a Round has one Stop.
WithStop(r, log) == IF StopRequested(r) THEN log ELSE Append(log, Command(r, "stop"))

\* enterRunningSQL and leaveRunningSQL: the Round's own clock runs only in between.
EnterRunning(rd, now) == [rd EXCEPT !.state = "running", !.since = now,
                                    !.ran = @ + (clock - now)]
LeaveRunning(rd, now, state) ==
    IF rd.since = NoTime THEN [rd EXCEPT !.state = state]
    ELSE [rd EXCEPT !.state = state,
                    !.active = @ + Max({0, now - rd.since}),
                    !.since = NoTime]

\* measureRound()
ActiveTime(rd, now) ==
    rd.active + (IF rd.since = NoTime THEN 0 ELSE Max({0, now - rd.since}))

\* decideLimitBreach(): the first cause of a Stop wins, the wall clock before
\* the denials.
BreachOf(r, rd, now) ==
    IF rd.state # "running" \/ StopRequested(r) THEN "none"
    ELSE IF ActiveTime(rd, now) >= MaxActive THEN "wall_clock"
    ELSE IF rd.streak >= MaxDenials THEN "denial_loop"
    ELSE "none"

\* Round r becomes rd, and the limits are enforced on what it then is.
EnforceRoundLimits(r, rd, now) ==
    LET breach == BreachOf(r, rd, now)
    IN  IF breach = "none"
        THEN rounds' = [rounds EXCEPT ![r] = rd] /\ UNCHANGED commands
        ELSE /\ rounds' = [rounds EXCEPT ![r] = [rd EXCEPT !.breach = breach]]
             /\ commands' = WithStop(r, commands)

-----------------------------------------------------------------------------
(* The Round and its reports *)

ClaimWork(t) ==
    /\ OpenRounds = {} /\ t \notin done
    /\ Len(rounds) < MaxRounds
    /\ rounds' = Append(rounds, [ticket |-> t, state |-> "claimed", ask |-> NoAsk,
                                 active |-> 0, since |-> NoTime, streak |-> 0,
                                 breach |-> "none", allowedOn |-> {}, ran |-> 0])
    /\ heard' = clock
    /\ UNCHANGED <<clock, done, grants, commands, told>>

ExecutionStarted(r, now) ==
    /\ rounds[r].state = "claimed"
    /\ EnforceRoundLimits(r, EnterRunning(rounds[r], now), now)
    /\ heard' = clock
    /\ UNCHANGED <<clock, done, grants, told>>

\* Progress or usage: the limits are all it moves here.
Progress(r, now) ==
    /\ rounds[r].state = "running"
    /\ EnforceRoundLimits(r, rounds[r], now)
    /\ heard' = clock
    /\ UNCHANGED <<clock, done, grants, told>>

RaisePermissionRequest(r, s, now) ==
    /\ rounds[r].state = "running"
    /\ rounds' = [rounds EXCEPT ![r] =
                    [LeaveRunning(rounds[r], now, "waiting")
                        EXCEPT !.ask = [scope |-> s, at |-> now, decision |-> "none"]]]
    /\ heard' = clock
    /\ UNCHANGED <<clock, done, grants, commands, told>>

\* Mutant: the wait counts as active time.
ResumedFromTheAsk(r, now) ==
    /\ rounds[r].state = "waiting"
    /\ rounds[r].ask.decision = "approved"
    /\ EnforceRoundLimits(r, [EnterRunning(rounds[r], now) EXCEPT !.since = rounds[r].ask.at,
                                                                 !.ask = NoAsk], now)
    /\ heard' = clock
    /\ UNCHANGED <<clock, done, grants, told>>

Resumed(r, now) ==
    /\ rounds[r].state = "waiting"
    /\ rounds[r].ask.decision = "approved"
    /\ EnforceRoundLimits(r, [EnterRunning(rounds[r], now) EXCEPT !.ask = NoAsk], now)
    /\ heard' = clock
    /\ UNCHANGED <<clock, done, grants, told>>

\* Every ending; which of them is open to the runner is in Galley.
EndRound(r, now) ==
    /\ Open(r)
    /\ rounds' = [rounds EXCEPT ![r] = [LeaveRunning(rounds[r], now, "ended")
                                            EXCEPT !.ask = NoAsk]]
    /\ heard' = clock
    /\ UNCHANGED <<clock, done, grants, commands, told>>

-----------------------------------------------------------------------------
(* Checks *)

Live(g, t, now) ==
    /\ grants[g].state = "active"
    /\ IF grants[g].form = "ticket" THEN grants[g].ticket = t ELSE grants[g].expiresAt > now

Authorizing(t, s, now) ==
    {g \in DOMAIN grants : grants[g].scope \in {s, FullAccess} /\ Live(g, t, now)}

\* Of two grants that would do, the narrower one is recorded, then the older.
ChosenGrant(candidates) ==
    LET narrow == {g \in candidates : grants[g].scope # FullAccess}
    IN  Min(IF narrow # {} THEN narrow ELSE candidates)

\* checkAuthority() of a Round that is running; what it refuses otherwise leaves
\* no record.  The decision is recorded first, and then the limits look at it.
CheckAuthority(r, s, now) ==
    /\ rounds[r].state = "running"
    /\ LET candidates == Authorizing(rounds[r].ticket, s, now)
       IN  IF candidates = {}
           THEN /\ rounds[r].streak < MaxStreak
                /\ EnforceRoundLimits(r, [rounds[r] EXCEPT !.streak = @ + 1], now)
           ELSE EnforceRoundLimits(r, [rounds[r] EXCEPT
                    !.streak = 0, !.allowedOn = @ \cup {ChosenGrant(candidates)}], now)
    /\ UNCHANGED <<clock, done, grants, heard, told>>

\* Every heartbeat enforces the limits too.
RunnerHeartbeat(now) ==
    /\ \E r \in OpenRounds : EnforceRoundLimits(r, rounds[r], now)
    /\ UNCHANGED <<clock, done, grants, heard, told>>

-----------------------------------------------------------------------------
(* The Owner *)

\* Mutant: a grant covers the Rounds of the Ticket it was asked for.
CoveredOfItsTicket(g) == {r \in OpenRounds : rounds[r].ticket = g.ticket}

\* grantCoversOpenRoundSQL: a grant that is not for a Ticket covers every open Round.
Covered(g) == {r \in OpenRounds : g.form = "ticket" => rounds[r].ticket = g.ticket}

\* An Owner has at most one open Round, so a grant covers at most one.
WithAuthorityChanged(g, log) ==
    IF Covered(g) = {} THEN log ELSE Append(log, Command(Min(Covered(g)), "authority_changed"))

Undecided(r) == /\ rounds[r].state = "waiting"
                /\ rounds[r].ask.decision = "none"
                /\ ~StopRequested(r)

\* decidePermissionForOwner() with an approval: the grant, the approval and the
\* change of authority are written with the decision.
ApprovePermissionRequest(r, form, full, expiresAt, now) ==
    LET decidedAt == Max({now, rounds[r].ask.at})
        grant == [ticket |-> rounds[r].ticket, form |-> form,
                  scope |-> IF full THEN FullAccess ELSE rounds[r].ask.scope,
                  expiresAt |-> expiresAt, state |-> "active"]
    IN  /\ Undecided(r)
        /\ Len(grants) < MaxGrants
        /\ IF form = "ticket" THEN expiresAt = NoTime
                              ELSE expiresAt > decidedAt /\ expiresAt <= decidedAt + MaxTerm
        /\ rounds' = [rounds EXCEPT ![r].ask.decision = "approved"]
        /\ grants' = Append(grants, grant)
        /\ commands' = WithAuthorityChanged(grant, Append(commands, Command(r, "approval")))
        /\ UNCHANGED <<clock, done, heard, told>>

DeclinePermissionRequest(r) ==
    /\ Undecided(r)
    /\ rounds' = [rounds EXCEPT ![r].ask.decision = "declined"]
    /\ UNCHANGED <<clock, done, grants, commands, heard, told>>

\* decideRevoke()
Expired(g, now) == grants[g].form = "time" /\ ~(grants[g].expiresAt > now)

\* Every Round the grant covers is asked to stop; one revoked before changes nothing.
RevokePermissionGrant(g, now) ==
    /\ grants[g].state = "active" /\ ~Expired(g, now)
    /\ grants' = [grants EXCEPT ![g].state = "revoked"]
    /\ commands' = WithAuthorityChanged(grants[g],
            IF Covered(grants[g]) = {} THEN commands
            ELSE WithStop(Min(Covered(grants[g])), commands))
    /\ UNCHANGED <<clock, done, rounds, heard, told>>

\* "this grant has expired and authorizes nothing, so there is nothing to revoke"
RevokeExpiredGrant(g, now) ==
    /\ grants[g].state = "active" /\ Expired(g, now)
    /\ told' = told \cup {g}
    /\ UNCHANGED <<clock, done, rounds, grants, commands, heard>>

RequestStop(r) ==
    /\ Open(r) /\ ~StopRequested(r)
    /\ commands' = WithStop(r, commands)
    /\ UNCHANGED <<clock, done, rounds, grants, heard, told>>

\* endTicketGrantsAtDone(); a Ticket with an open Round cannot be moved.
FinishTicket(t) ==
    /\ t \notin done
    /\ \A r \in OpenRounds : rounds[r].ticket # t
    /\ done' = done \cup {t}
    /\ grants' = [g \in DOMAIN grants |->
                    IF /\ grants[g].form = "ticket" /\ grants[g].ticket = t
                       /\ grants[g].state = "active"
                    THEN [grants[g] EXCEPT !.state = "ended_at_done"] ELSE grants[g]]
    /\ UNCHANGED <<clock, rounds, commands, heard, told>>

ReopenTicket(t) ==
    /\ t \in done
    /\ done' = done \ {t}
    /\ UNCHANGED <<clock, rounds, grants, commands, heard, told>>

-----------------------------------------------------------------------------
(* Commands, and time *)

\* Mutant: the last acknowledgement counts.
AcknowledgeAgain(c, outcome) ==
    /\ commands' = [commands EXCEPT ![c].ack = outcome]
    /\ UNCHANGED <<clock, done, rounds, grants, heard, told>>

\* The runner acknowledges what it pulled, the Round ended or not.  Repeated with
\* the same outcome it is answered as before, with another it is refused.
AcknowledgeRoundCommand(c, outcome) ==
    /\ commands[c].ack = "none"
    /\ commands' = [commands EXCEPT ![c].ack = outcome]
    /\ UNCHANGED <<clock, done, rounds, grants, heard, told>>

Advance ==
    /\ clock < MaxClock
    /\ clock' = clock + 1
    /\ rounds' = [r \in DOMAIN rounds |->
                    IF rounds[r].state = "running" THEN [rounds[r] EXCEPT !.ran = @ + 1]
                                                   ELSE rounds[r]]
    /\ UNCHANGED <<done, grants, commands, heard, told>>

Report(r, now) == \/ ExecutionStarted(r, now) \/ Progress(r, now)
                  \/ \E s \in Scope : RaisePermissionRequest(r, s, now)
                  \/ Resumed(r, now) \/ EndRound(r, now)

Decide(r) ==
    \/ \E now \in Received, full \in BOOLEAN :
          \/ ApprovePermissionRequest(r, "ticket", full, NoTime, now)
          \/ \E e \in 1 .. clock + MaxTerm : ApprovePermissionRequest(r, "time", full, e, now)
    \/ DeclinePermissionRequest(r)

Next ==
    \/ \E t \in Ticket : ClaimWork(t) \/ FinishTicket(t) \/ ReopenTicket(t)
    \/ \E r \in OpenRounds :
          \/ \E now \in Reported : Report(r, now)
          \/ \E s \in Scope, now \in Received : CheckAuthority(r, s, now)
          \/ Decide(r)
          \/ RequestStop(r)
    \/ \E now \in Received : RunnerHeartbeat(now)
    \/ \E g \in DOMAIN grants, now \in Received :
          RevokePermissionGrant(g, now) \/ RevokeExpiredGrant(g, now)
    \/ \E c \in DOMAIN commands, outcome \in {"applied", "ignored"} :
          AcknowledgeRoundCommand(c, outcome)
    \/ Advance

Spec == Init /\ [][Next]_vars

-----------------------------------------------------------------------------
(* Properties *)

\* A Round that was ever allowed something on a grant that is revoked has a Stop
\* for as long as it is open, whichever Ticket the grant was asked for, and
\* whether the check or the revocation came first.
RevokedGrantStopsItsRounds ==
    \A r \in OpenRounds : \A g \in rounds[r].allowedOn :
        grants[g].state = "revoked" => StopRequested(r)

\* The limits count what the Round did: the wall clock ends only a Round that ran
\* for as long, waits left out and however late its reports and heartbeats were
\* handled; a Round whose denials in a row reached the limit has
\* a Stop, one way or another; and a breach always comes with its Stop.
LimitsMeasureTheRound ==
    \A r \in DOMAIN rounds :
        /\ rounds[r].breach = "wall_clock" => rounds[r].ran >= MaxActive
        /\ rounds[r].streak >= MaxDenials => StopRequested(r)
        /\ rounds[r].breach # "none" => StopRequested(r)

\* A command is settled once: no acknowledgement, repeated or late, changes what
\* the first one said, and a Round never gets a second Stop.
CommandsSettleOnce ==
    [][/\ \A c \in DOMAIN commands :
             commands[c].ack # "none" => commands'[c].ack = commands[c].ack
       /\ \A c, d \in DOMAIN commands' :
             (/\ commands'[c].type = "stop" /\ commands'[d].type = "stop"
              /\ commands'[c].round = commands'[d].round) => c = d]_vars

\* Once the Owner was told that a grant has expired and authorizes nothing, no
\* Round is allowed anything on it.
ExpiredGrantAuthorizesNothing ==
    [][\A r \in DOMAIN rounds : rounds'[r].allowedOn \cap told \subseteq rounds[r].allowedOn]_vars

-----------------------------------------------------------------------------
(* The abstract slot.                                                      *)

Holder == IF OpenRounds = {} THEN 0 ELSE CHOOSE r \in OpenRounds : TRUE

\* Which ending a Round had is in Galley; here an asked Stop stands for "stopped" and
\* any other ending for "delivered".
EndedAs(r) ==
    IF r \notin DOMAIN rounds \/ Open(r) THEN "none"
    ELSE IF StopRequested(r) THEN "stopped" ELSE "delivered"

Slot == INSTANCE ExecutionSlot WITH
    Round <- 1 .. MaxRounds,
    NoRound <- 0,
    slot <- Holder,
    outcome <- [r \in 1 .. MaxRounds |-> EndedAs(r)],
    stopped <- {r \in 1 .. MaxRounds : StopRequested(r)}

\* Under checks, limits, grants and their revocation the Rounds take and give up the one
\* slot that Galley's handlers do: whatever asks for a Stop asks the Round that holds
\* the slot, once, and none after its end (round_limits.go, grant_revocation.go).
SlotSpec == Slot!Spec
=============================================================================
