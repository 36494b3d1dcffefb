--------------------------- MODULE AdmissionProofs ---------------------------
(***************************************************************************)
(* Proofs about the admission ledger and the calls it admits, for any      *)
(* calls, scopes, Tickets, Rounds and grants and any bounds.               *)
(***************************************************************************)
EXTENDS Admission, SequenceTheorems, WellFoundedInduction, TLAPS

\* Where a call has been dispatched and not completed, and where it has not been.
StartedPhases == {"dispatched", "running", "completing"}
QuietPhases == {"idle", "asking", "answered", "holding", "dispatching", "paused", "refused"}

\* What LedgerTellsWhatRan says of one call.
Told(c) ==
    /\ phase[c] \in StartedPhases =>
          holds[c] \in DOMAIN dispatches /\ dispatches[holds[c]] = "started"
    /\ phase[c] = "done" =>
          holds[c] \in DOMAIN dispatches /\ dispatches[holds[c]] = "completed"
    /\ phase[c] = "aborted" => holds[c] \in DOMAIN dispatches
    /\ phase[c] \in QuietPhases => RecordsOf(c) = {}
    /\ phase[c] = "failed" => \A a \in RecordsOf(c) : dispatches[a] = "started"
    /\ RecordsOf(c) \subseteq {holds[c]}

Unshared == \A c, d \in Calls : asked[c] \cap asked[d] # {} => c = d

\* A call goes by an admission of its own, and is dispatched by one that allowed it.
GoesByItsOwn(c) ==
    /\ asked[c] \subseteq DOMAIN admissions
    /\ phase[c] \notin {"idle", "asking", "failed"} => holds[c] \in asked[c]
    /\ phase[c] = "dispatching" => admissions[holds[c]].decision = "allow"
    /\ phase[c] = "holding" => attempts[c] < HoldMaxAttempts

\* A decision that allowed names its grant, and one that was refused because its Ticket
\* was Done is right for ever.
DecisionsStand ==
    /\ \A j \in DOMAIN admissions :
          admissions[j].decision = "allow" => admissions[j].grant \in DOMAIN grants
    /\ \A i \in DOMAIN admissions :
          admissions[i].reason = "ticket-done" => admissions[i].request.ticket \in doneTickets

AdmissionInv ==
    /\ AdmissionTypeOK
    /\ dispatches \in [DOMAIN dispatches -> {"started", "completed"}]
    /\ \A c \in Calls : GoesByItsOwn(c)
    /\ \A c \in Calls : Told(c)
    /\ Unshared
    /\ DecisionsStand
    /\ EndedGrantStaysEnded

-----------------------------------------------------------------------------
(* Deciding.                                                               *)

\* A set of natural numbers that is not empty has a least member.
LEMMA MinOfNaturals ==
    ASSUME NEW S \in SUBSET Nat, S # {}
    PROVE  Min(S) \in S
<1>1. PICK m \in S : \A n \in S : ~ (<<n, m>> \in OpToRel(<, Nat))
  BY NatLessThanWellFounded, WFMin
<1>2. \A n \in S : ~(n < m)
  BY <1>1 DEF OpToRel
<1>3. \A n \in S : m <= n
  BY <1>2
<1>. QED BY <1>3 DEF Min

\* What is allowed rests on a live grant, in a Round with no pending Stop.
LEMMA AllowedIsGranted ==
    ASSUME GrantsTypeOK, NEW request, Evaluate(request).decision = "allow"
    PROVE  /\ request.round \notin pendingStopRounds /\ connected
           /\ Evaluate(request).grant \in DOMAIN grants
           /\ Matches(grants[Evaluate(request).grant], request)
           /\ Live(grants[Evaluate(request).grant])
<1>. DEFINE matching == {i \in DOMAIN grants : Matches(grants[i], request)}
            live == {i \in matching : Live(grants[i])}
<1>1. live # {} /\ request.round \notin pendingStopRounds /\ connected
  BY DEF Evaluate
<1>2. Evaluate(request).grant = Min(live)
  BY <1>1 DEF Evaluate
<1>3. grants \in Seq(Grants)
  BY DEF GrantsTypeOK
<1>4. DOMAIN grants \in SUBSET Nat
  BY <1>3
<1>5. Min(live) \in live
  BY <1>1, <1>4, MinOfNaturals
<1>. QED BY <1>1, <1>2, <1>5

\* What is refused because its Ticket is Done is refused with reason.
LEMMA RefusedAsDone ==
    ASSUME NEW request, Evaluate(request).reason = "ticket-done"
    PROVE  request.ticket \in doneTickets
<1>. DEFINE matching == {i \in DOMAIN grants : Matches(grants[i], request)}
            live == {i \in matching : Live(grants[i])}
<1>1. live = {} /\ NoGrantReason(matching) = "ticket-done"
  BY DEF Evaluate
<1>2. /\ ~ \E i \in matching : grants[i].revoked
      /\ \E i \in matching : grants[i].form.kind = "ticket"
  BY <1>1 DEF NoGrantReason
<1>3. PICK i \in matching : grants[i].form.kind = "ticket" /\ ~grants[i].revoked
  BY <1>2
<1>4. ~Live(grants[i]) /\ grants[i].form.ticket = request.ticket
  BY <1>1, <1>3 DEF Matches
<1>. QED BY <1>3, <1>4 DEF Live

\* Every decision is a record of the log.
LEMMA DecisionTyped ==
    ASSUME GrantsTypeOK, NEW request \in Requests
    PROVE  /\ Evaluate(request).decision \in {"allow", "hold", "deny"}
           /\ Evaluate(request).reason \in Reasons
           /\ Evaluate(request).grant \in Nat
<1>. DEFINE matching == {i \in DOMAIN grants : Matches(grants[i], request)}
            live == {i \in matching : Live(grants[i])}
<1>1. NoGrantReason(matching) \in Reasons
  BY DEF NoGrantReason, Reasons
<1>2. grants \in Seq(Grants)
  BY DEF GrantsTypeOK
<1>3. DOMAIN grants \in SUBSET Nat
  BY <1>2
<1>4. live # {} => Min(live) \in Nat
  BY <1>3, MinOfNaturals
<1>. HIDE DEF live, matching
<1>5. \/ Evaluate(request) = [decision |-> "deny", reason |-> "stop-pending", grant |-> 0]
      \/ Evaluate(request) = [decision |-> "deny", reason |-> NoGrantReason(matching), grant |-> 0]
      \/ /\ live # {}
         /\ \/ Evaluate(request) = [decision |-> "allow", reason |-> "ok", grant |-> Min(live)]
            \/ Evaluate(request) = [decision |-> "hold", reason |-> "disconnected",
                                    grant |-> Min(live)]
  BY DEF Evaluate, live, matching
<1>6. {"stop-pending", "ok", "disconnected"} \subseteq Reasons
  BY DEF Reasons
<1>. QED BY <1>1, <1>4, <1>5, <1>6

\* A decision is added to the log, and changes no earlier one.
LEMMA DecidedLog ==
    ASSUME AdmissionInv, NEW request \in Requests
    PROVE  /\ Decided(request) \in Seq(AdmissionRecords)
           /\ Len(admissions) \in Nat /\ DOMAIN admissions = 1 .. Len(admissions)
           /\ DOMAIN Decided(request) = DOMAIN admissions \cup {Len(admissions) + 1}
           /\ Len(admissions) + 1 \notin DOMAIN admissions
           /\ \A i \in DOMAIN admissions : Decided(request)[i] = admissions[i]
           /\ Decided(request)[Len(admissions) + 1].request = request
           /\ Decided(request)[Len(admissions) + 1].decision = Evaluate(request).decision
           /\ Decided(request)[Len(admissions) + 1].reason = Evaluate(request).reason
           /\ Decided(request)[Len(admissions) + 1].grant = Evaluate(request).grant
<1>. DEFINE d == Evaluate(request)
            new == [request |-> request, decision |-> d.decision, reason |-> d.reason,
                    grant |-> d.grant]
<1>1. admissions \in Seq(AdmissionRecords) /\ GrantsTypeOK
  BY DEF AdmissionInv, AdmissionTypeOK, LedgerTypeOK
<1>2. new \in AdmissionRecords
  BY <1>1, DecisionTyped DEF AdmissionRecords
<1>3. Decided(request) = Append(admissions, new)
  BY DEF Decided
<1>4. /\ new.request = request /\ new.decision = d.decision /\ new.reason = d.reason
      /\ new.grant = d.grant
  OBVIOUS
<1>. HIDE DEF new, d
<1>5. /\ Append(admissions, new) \in Seq(AdmissionRecords)
      /\ Len(admissions) \in Nat /\ DOMAIN admissions = 1 .. Len(admissions)
      /\ DOMAIN Append(admissions, new) = 1 .. (Len(admissions) + 1)
      /\ \A i \in DOMAIN admissions : Append(admissions, new)[i] = admissions[i]
      /\ Append(admissions, new)[Len(admissions) + 1] = new
  BY <1>1, <1>2
<1>. QED BY <1>3, <1>4, <1>5 DEF d

-----------------------------------------------------------------------------
(* The Owner and the ledger.                                               *)

LEMMA AdmissionInvInit == Init => AdmissionInv
<1>. SUFFICES ASSUME Init PROVE AdmissionInv
  OBVIOUS
<1>1. /\ admissions = <<>> /\ dispatches = <<>> /\ grants = <<>> /\ clock = 0
      /\ doneTickets = {} /\ pendingStopRounds = {} /\ connected = TRUE
  BY DEF Init, LedgerInit, GrantsInit
<1>2. /\ phase = [c \in Calls |-> "idle"] /\ holds = [c \in Calls |-> 0]
      /\ attempts = [c \in Calls |-> 0] /\ emitted = [c \in Calls |-> 0]
      /\ asked = [c \in Calls |-> {}] /\ engine \in {"opencode", "native"}
  BY DEF Init
<1>3. LedgerTypeOK
  BY <1>1, LedgerBounds DEF LedgerTypeOK, GrantsTypeOK, Times
<1>4. AdmissionTypeOK
  BY <1>2, <1>3, CallAssumption DEF AdmissionTypeOK, Phases
<1>5. \A c \in Calls : GoesByItsOwn(c)
  BY <1>2 DEF GoesByItsOwn
<1>6. (\A c \in Calls : Told(c)) /\ Unshared
  BY <1>2 DEF Told, Unshared, RecordsOf, StartedPhases
<1>7. DecisionsStand /\ EndedGrantStaysEnded
  BY <1>1 DEF DecisionsStand, EndedGrantStaysEnded
<1>8. dispatches \in [DOMAIN dispatches -> {"started", "completed"}]
  BY <1>1
<1>. QED BY <1>4, <1>5, <1>6, <1>7, <1>8 DEF AdmissionInv

\* Grants are added and revoked, and keep what they are for.
LEMMA GrantsChange ==
    ASSUME GrantsTypeOK, NEW scopes \in SUBSET Scopes, NEW roundIds \in SUBSET LedgerRounds,
           GrantStep(scopes, roundIds)
    PROVE  /\ GrantsTypeOK' /\ doneTickets \subseteq doneTickets'
           /\ \A i \in DOMAIN grants : i \in DOMAIN grants' /\ grants'[i].form = grants[i].form
<1>0. /\ grants \in Seq(Grants) /\ clock \in Times /\ doneTickets \in SUBSET Tickets
      /\ pendingStopRounds \in SUBSET LedgerRounds /\ connected \in BOOLEAN
  BY DEF GrantsTypeOK
<1>1. ASSUME NEW s \in scopes, NEW form \in Forms, Grant(s, form)
      PROVE  /\ grants' \in Seq(Grants)
             /\ \A i \in DOMAIN grants : i \in DOMAIN grants' /\ grants'[i].form = grants[i].form
  <2>. DEFINE new == [scope |-> s, form |-> form, revoked |-> FALSE]
  <2>1. new \in Grants
    BY DEF Forms, Grants
  <2>2. grants' = Append(grants, new)
    BY <1>1 DEF Grant
  <2>. HIDE DEF new
  <2>3. /\ grants' \in Seq(Grants)
        /\ \A i \in DOMAIN grants : i \in DOMAIN grants' /\ grants'[i] = grants[i]
    BY <1>0, <2>1, <2>2
  <2>. QED BY <2>3
<1>2. ASSUME NEW k \in DOMAIN grants, Revoke(k)
      PROVE  /\ grants' \in Seq(Grants)
             /\ \A i \in DOMAIN grants : i \in DOMAIN grants' /\ grants'[i].form = grants[i].form
  <2>. DEFINE new == [grants[k] EXCEPT !.revoked = TRUE]
  <2>1. grants[k] \in Grants
    BY <1>0
  <2>2. new \in Grants /\ new.form = grants[k].form
    BY <2>1 DEF Grants
  <2>3. grants' = [grants EXCEPT ![k] = new]
    BY <1>2 DEF Revoke
  <2>. HIDE DEF new
  <2>. QED BY <1>0, <2>2, <2>3
<1>3. /\ grants' \in Seq(Grants)
      /\ \A i \in DOMAIN grants : i \in DOMAIN grants' /\ grants'[i].form = grants[i].form
  <2>1. CASE grants' = grants
    BY <1>0, <2>1
  <2>. QED BY <1>1, <1>2, <2>1
       DEF GrantStep, TicketDone, TicketReopened, SetConnected, RequestStop, ConfirmStop, Advance,
           grantVars
<1>4. doneTickets' \in SUBSET Tickets /\ doneTickets \subseteq doneTickets'
  BY <1>0 DEF GrantStep, Grant, Revoke, TicketDone, TicketReopened, SetConnected, RequestStop,
              ConfirmStop, Advance, grantVars
<1>5. pendingStopRounds' \in SUBSET LedgerRounds
  BY <1>0 DEF GrantStep, Grant, Revoke, TicketDone, TicketReopened, SetConnected, RequestStop,
              ConfirmStop, Advance, grantVars
<1>6. connected' \in BOOLEAN
  BY <1>0, Zenon DEF GrantStep, Grant, Revoke, TicketDone, TicketReopened, SetConnected, RequestStop,
              ConfirmStop, Advance, grantVars
<1>7. clock' \in Times
  <2>1. clock' = clock \/ (clock < MaxClock /\ clock' = clock + 1)
    BY DEF GrantStep, Grant, Revoke, TicketDone, TicketReopened, SetConnected, RequestStop,
           ConfirmStop, Advance, grantVars
  <2>. QED BY <1>0, <2>1, LedgerBounds DEF Times
<1>. QED BY <1>3, <1>4, <1>5, <1>6, <1>7 DEF GrantsTypeOK

\* The grants change, the log and the calls do not.
LEMMA OwnerKept ==
    ASSUME AdmissionInv, UNCHANGED <<engine, callVars>>,
           LedgerStep({RequestOf[c].scope : c \in Calls}, {RequestOf[c].round : c \in Calls})
    PROVE  AdmissionInv'
<1>1. /\ {RequestOf[c].scope : c \in Calls} \in SUBSET Scopes
      /\ {RequestOf[c].round : c \in Calls} \in SUBSET LedgerRounds
  BY CallAssumption DEF Requests
<1>2. GrantsTypeOK
  BY DEF AdmissionInv, AdmissionTypeOK, LedgerTypeOK
<1>3. /\ GrantsTypeOK' /\ doneTickets \subseteq doneTickets'
      /\ \A i \in DOMAIN grants : i \in DOMAIN grants' /\ grants'[i].form = grants[i].form
  BY <1>1, <1>2, GrantsChange DEF LedgerStep
<1>4. /\ UNCHANGED <<admissions, dispatches, engine, phase, holds, attempts, emitted, asked>>
  BY DEF LedgerStep, callVars
<1>5. AdmissionTypeOK' /\ dispatches' \in [DOMAIN dispatches' -> {"started", "completed"}]
  BY <1>3, <1>4 DEF AdmissionInv, AdmissionTypeOK, LedgerTypeOK
<1>6. (\A c \in Calls : GoesByItsOwn(c)' /\ Told(c)') /\ Unshared'
  BY <1>4 DEF AdmissionInv, GoesByItsOwn, Told, RecordsOf, Unshared
<1>7. DecisionsStand' /\ EndedGrantStaysEnded'
  BY <1>3, <1>4 DEF AdmissionInv, DecisionsStand, EndedGrantStaysEnded
<1>. QED BY <1>5, <1>6, <1>7 DEF AdmissionInv

-----------------------------------------------------------------------------
(* The calls.                                                              *)

\* Call c moves on, and the ledger is not asked; what was started stays started and
\* what was not is not.
LEMMA CallMoves ==
    ASSUME AdmissionInv, NEW c \in Calls, NEW from, NEW to \in Phases, Moves(c, from, to),
           UNCHANGED <<ledgerVars, engine, holds, emitted, asked>>,
           attempts' \in [Calls -> 0 .. HoldMaxAttempts],
           \A d \in Calls \ {c} : attempts'[d] = attempts[d],
           to \in StartedPhases => from \in StartedPhases,
           to \in QuietPhases => from \in QuietPhases,
           to # "done", to = "aborted" => from \in StartedPhases,
           to = "failed" => from \in QuietPhases \cup {"dispatched"},
           from \notin {"idle", "asking", "failed"} \/ to \in {"asking", "failed"},
           to = "dispatching" => admissions[holds[c]].decision = "allow",
           to = "holding" => attempts'[c] < HoldMaxAttempts
    PROVE  AdmissionInv'
<1>1. /\ UNCHANGED <<admissions, dispatches, grants, clock, doneTickets, pendingStopRounds>>
      /\ UNCHANGED <<connected, engine, holds, emitted, asked>>
  BY DEF ledgerVars, grantVars
<1>2. phase \in [Calls -> Phases] /\ phase[c] = from
  BY DEF AdmissionInv, AdmissionTypeOK, Moves
<1>3. /\ phase' \in [Calls -> Phases] /\ phase'[c] = to
      /\ \A d \in Calls : d # c => phase'[d] = phase[d]
  BY <1>2 DEF Moves
<1>4. AdmissionTypeOK' /\ dispatches' \in [DOMAIN dispatches' -> {"started", "completed"}]
  BY <1>1, <1>3 DEF AdmissionInv, AdmissionTypeOK, LedgerTypeOK, GrantsTypeOK
<1>5. \A d \in Calls : GoesByItsOwn(d)'
  <2>1. ASSUME NEW d \in Calls, d # c PROVE GoesByItsOwn(d)'
    BY <1>1, <1>3, <2>1 DEF AdmissionInv, GoesByItsOwn
  <2>2. GoesByItsOwn(c)'
    BY <1>1, <1>2, <1>3 DEF AdmissionInv, GoesByItsOwn
  <2>. QED BY <2>1, <2>2
<1>6. (\A d \in Calls : Told(d)') /\ Unshared'
  <2>1. ASSUME NEW d \in Calls, d # c PROVE Told(d)'
    BY <1>1, <1>3, <2>1 DEF AdmissionInv, Told, RecordsOf
  <2>2. Told(c)'
    BY <1>1, <1>2, <1>3 DEF AdmissionInv, Told, RecordsOf, StartedPhases, QuietPhases
  <2>. QED BY <1>1, <2>1, <2>2 DEF AdmissionInv, Unshared
<1>7. DecisionsStand' /\ EndedGrantStaysEnded'
  BY <1>1 DEF AdmissionInv, DecisionsStand, EndedGrantStaysEnded
<1>. QED BY <1>4, <1>5, <1>6, <1>7 DEF AdmissionInv

LEMMA MovesKept ==
    ASSUME AdmissionInv, UNCHANGED engine, NEW c \in Calls,
           \/ BeforeHook(c) \/ HookHears(c) \/ HookAsksAgain(c) \/ HookReturns(c)
           \/ AfterHook(c) \/ FetchFails(c) \/ WorkFails(c)
           \/ ReportFails(c) /\ UNCHANGED ledgerVars
    PROVE  AdmissionInv'
<1>0. /\ attempts \in [Calls -> 0 .. HoldMaxAttempts] /\ HoldMaxAttempts \in Nat
      /\ phase[c] = "holding" => attempts[c] < HoldMaxAttempts
  BY CallAssumption DEF AdmissionInv, AdmissionTypeOK, GoesByItsOwn
<1>1. CASE BeforeHook(c)
  BY <1>0, <1>1, CallMoves
     DEF BeforeHook, Phases, BridgePhases, StartedPhases, QuietPhases
<1>2. CASE HookHears(c)
  <2>1. /\ UNCHANGED <<ledgerVars, engine, holds, attempts, emitted, asked>>
        /\ \/ Answer(c) = "allow" /\ Moves(c, "answered", "dispatching")
           \/ MayHold(c) /\ Moves(c, "answered", "holding")
           \/ Moves(c, "answered", "refused")
    BY <1>2 DEF HookHears
  <2>2. CASE Answer(c) = "allow" /\ Moves(c, "answered", "dispatching")
    BY <1>0, <2>1, <2>2, CallMoves DEF Answer, Phases, BridgePhases, StartedPhases, QuietPhases
  <2>3. CASE MayHold(c) /\ Moves(c, "answered", "holding")
    BY <1>0, <2>1, <2>3, CallMoves DEF MayHold, Phases, BridgePhases, StartedPhases, QuietPhases
  <2>4. CASE Moves(c, "answered", "refused")
    BY <1>0, <2>1, <2>4, CallMoves DEF Phases, EndPhases, StartedPhases, QuietPhases
  <2>. QED BY <2>1, <2>2, <2>3, <2>4
<1>3. CASE HookAsksAgain(c)
  <2>1. /\ Moves(c, "holding", "asking") /\ attempts' = [attempts EXCEPT ![c] = attempts[c] + 1]
        /\ UNCHANGED <<ledgerVars, engine, holds, emitted, asked>>
    BY <1>3 DEF HookAsksAgain
  <2>2. attempts[c] + 1 \in 0 .. HoldMaxAttempts
    BY <1>0, <2>1 DEF Moves
  <2>3. /\ attempts' \in [Calls -> 0 .. HoldMaxAttempts]
        /\ \A d \in Calls \ {c} : attempts'[d] = attempts[d]
    BY <1>0, <2>1, <2>2
  <2>. QED BY <2>1, <2>3, CallMoves DEF Phases, BridgePhases, StartedPhases, QuietPhases
<1>4. CASE HookReturns(c)
  BY <1>0, <1>4, CallMoves
     DEF HookReturns, Phases, BridgePhases, StartedPhases, QuietPhases
<1>5. CASE AfterHook(c)
  BY <1>0, <1>5, CallMoves
     DEF AfterHook, Phases, BridgePhases, StartedPhases, QuietPhases
<1>6. CASE FetchFails(c)
  BY <1>0, <1>6, CallMoves
     DEF FetchFails, Phases, BridgePhases, EndPhases, StartedPhases, QuietPhases
<1>7. CASE WorkFails(c)
  BY <1>0, <1>7, CallMoves DEF WorkFails, Phases, EndPhases, StartedPhases, QuietPhases
<1>8. CASE ReportFails(c) /\ UNCHANGED ledgerVars
  BY <1>0, <1>8, CallMoves DEF ReportFails, Phases, EndPhases, StartedPhases, QuietPhases
<1>. QED BY <1>1, <1>2, <1>3, <1>4, <1>5, <1>6, <1>7, <1>8

LEMMA NextChunkKept ==
    ASSUME AdmissionInv, UNCHANGED engine, NEW c \in Calls, NextChunk(c) PROVE AdmissionInv'
<1>1. /\ UNCHANGED <<admissions, dispatches, grants, clock, doneTickets, pendingStopRounds>>
      /\ UNCHANGED <<connected, engine, phase, holds, attempts, asked>>
      /\ emitted[c] < Chunks /\ emitted' = [emitted EXCEPT ![c] = emitted[c] + 1]
  BY DEF NextChunk, ledgerVars, grantVars
<1>2. emitted \in [Calls -> 0 .. Chunks] /\ Chunks \in Nat
  BY CallAssumption DEF AdmissionInv, AdmissionTypeOK
<1>3. emitted[c] + 1 \in 0 .. Chunks
  BY <1>1, <1>2
<1>4. emitted' \in [Calls -> 0 .. Chunks]
  BY <1>1, <1>2, <1>3
<1>5. AdmissionTypeOK' /\ dispatches' \in [DOMAIN dispatches' -> {"started", "completed"}]
  BY <1>1, <1>4 DEF AdmissionInv, AdmissionTypeOK, LedgerTypeOK, GrantsTypeOK
<1>6. (\A d \in Calls : GoesByItsOwn(d)' /\ Told(d)') /\ Unshared'
  BY <1>1 DEF AdmissionInv, GoesByItsOwn, Told, RecordsOf, Unshared
<1>7. DecisionsStand' /\ EndedGrantStaysEnded'
  BY <1>1 DEF AdmissionInv, DecisionsStand, EndedGrantStaysEnded
<1>. QED BY <1>5, <1>6, <1>7 DEF AdmissionInv

-----------------------------------------------------------------------------
(* The ledger decides, dispatches and completes.                           *)

\* The ledger decides for call c, and its two promises about decisions hold on.
LEMMA DecisionKept ==
    ASSUME AdmissionInv, NEW c \in Calls, Asks(c)
    PROVE  /\ DecisionsStand' /\ EndedGrantStaysEnded'
           /\ admissions' \in Seq(AdmissionRecords) /\ GrantsTypeOK'
           /\ DOMAIN admissions' = DOMAIN admissions \cup {Len(admissions) + 1}
           /\ Len(admissions) + 1 \notin DOMAIN admissions
           /\ \A i \in DOMAIN admissions : admissions'[i] = admissions[i]
           /\ holds' \in [Calls -> {0} \cup DOMAIN admissions'] /\ holds'[c] = Len(admissions) + 1
           /\ \A d \in Calls : d # c => holds'[d] = holds[d]
           /\ asked' \in [Calls -> SUBSET DOMAIN admissions']
           /\ asked'[c] = asked[c] \cup {Len(admissions) + 1}
           /\ \A d \in Calls : d # c => asked'[d] = asked[d]
<1>. DEFINE request == RequestOf[c]
            new == Len(admissions) + 1
<1>1. /\ admissions' = Decided(request)
      /\ UNCHANGED <<grants, clock, doneTickets, pendingStopRounds, connected>>
      /\ holds' = [holds EXCEPT ![c] = new]
      /\ asked' = [asked EXCEPT ![c] = asked[c] \cup {new}]
  BY DEF Asks, Admit, grantVars
<1>2. request \in Requests /\ GrantsTypeOK
  BY CallAssumption DEF AdmissionInv, AdmissionTypeOK, LedgerTypeOK
<1>3. /\ admissions' \in Seq(AdmissionRecords)
      /\ Len(admissions) \in Nat /\ DOMAIN admissions = 1 .. Len(admissions)
      /\ DOMAIN admissions' = DOMAIN admissions \cup {new} /\ new \notin DOMAIN admissions
      /\ \A i \in DOMAIN admissions : admissions'[i] = admissions[i]
      /\ admissions'[new].request = request
      /\ admissions'[new].decision = Evaluate(request).decision
      /\ admissions'[new].reason = Evaluate(request).reason
      /\ admissions'[new].grant = Evaluate(request).grant
  BY <1>1, <1>2, DecidedLog
<1>4. DecisionsStand'
  <2>1. Evaluate(request).decision = "allow" => Evaluate(request).grant \in DOMAIN grants
    BY <1>2, AllowedIsGranted
  <2>2. Evaluate(request).reason = "ticket-done" => request.ticket \in doneTickets
    BY RefusedAsDone
  <2>. HIDE DEF request, new
  <2>. QED BY <1>1, <1>3, <2>1, <2>2 DEF AdmissionInv, DecisionsStand
<1>5. EndedGrantStaysEnded'
  <2>. SUFFICES ASSUME NEW i \in DOMAIN admissions', NEW j \in DOMAIN admissions', i < j,
                       admissions'[i].reason = "ticket-done", admissions'[j].decision = "allow",
                       admissions'[j].request.ticket = admissions'[i].request.ticket
                PROVE  grants'[admissions'[j].grant].form.kind = "time"
    BY DEF EndedGrantStaysEnded
  <2>1. i \in DOMAIN admissions
    BY <1>3
  <2>2. CASE j \in DOMAIN admissions
    BY <1>1, <1>3, <2>1, <2>2 DEF AdmissionInv, EndedGrantStaysEnded
  <2>3. CASE j = new
    <3>. DEFINE g == Evaluate(request).grant
    <3>1. g \in DOMAIN grants /\ Matches(grants[g], request) /\ Live(grants[g])
      BY <1>2, <1>3, <2>3, AllowedIsGranted
    <3>2. request.ticket \in doneTickets
      BY <1>3, <2>1, <2>3 DEF AdmissionInv, DecisionsStand
    <3>3. grants[g].form.kind # "ticket"
      BY <3>1, <3>2 DEF Matches, Live
    <3>4. grants[g] \in Grants
      <4>1. grants \in Seq(Grants)
        BY <1>2 DEF GrantsTypeOK
      <4>. QED BY <3>1, <4>1
    <3>5. grants[g].form.kind \in {"ticket", "time"}
      BY <3>4 DEF Grants, TicketForms, TimeForms
    <3>. QED BY <1>1, <1>3, <2>3, <3>3, <3>5
  <2>. QED BY <1>3, <2>2, <2>3
<1>6. /\ holds \in [Calls -> {0} \cup DOMAIN admissions]
      /\ asked \in [Calls -> SUBSET DOMAIN admissions]
  BY DEF AdmissionInv, AdmissionTypeOK
<1>. HIDE DEF new, request
<1>7. /\ holds' \in [Calls -> {0} \cup DOMAIN admissions'] /\ holds'[c] = new
      /\ \A d \in Calls : d # c => holds'[d] = holds[d]
  BY <1>1, <1>3, <1>6
<1>8. /\ asked' \in [Calls -> SUBSET DOMAIN admissions'] /\ asked'[c] = asked[c] \cup {new}
      /\ \A d \in Calls : d # c => asked'[d] = asked[d]
  BY <1>1, <1>3, <1>6
<1>9. GrantsTypeOK'
  BY <1>1, <1>2 DEF GrantsTypeOK
<1>. QED BY <1>3, <1>4, <1>5, <1>7, <1>8, <1>9 DEF new

\* A call asks, and is answered, starts or is refused.
LEMMA AskedKept ==
    ASSUME AdmissionInv, UNCHANGED <<engine, attempts, emitted>>, NEW c \in Calls, Asks(c),
           NEW from \in {"idle", "asking", "paused"}, NEW to, Moves(c, from, to),
           \/ to \in {"answered", "paused", "refused", "failed"} /\ UNCHANGED dispatches
           \/ to = "running" /\ dispatches' = Started(Len(admissions) + 1)
    PROVE  AdmissionInv'
<1>. DEFINE new == Len(admissions) + 1
<1>1. /\ DecisionsStand' /\ EndedGrantStaysEnded'
      /\ admissions' \in Seq(AdmissionRecords) /\ GrantsTypeOK'
      /\ DOMAIN admissions' = DOMAIN admissions \cup {new} /\ new \notin DOMAIN admissions
      /\ \A i \in DOMAIN admissions : admissions'[i] = admissions[i]
      /\ holds' \in [Calls -> {0} \cup DOMAIN admissions'] /\ holds'[c] = new
      /\ \A d \in Calls : d # c => holds'[d] = holds[d]
      /\ asked' \in [Calls -> SUBSET DOMAIN admissions'] /\ asked'[c] = asked[c] \cup {new}
      /\ \A d \in Calls : d # c => asked'[d] = asked[d]
  BY DecisionKept
<1>. HIDE DEF new
<1>2. /\ phase \in [Calls -> Phases] /\ phase[c] = from
      /\ DOMAIN dispatches \subseteq DOMAIN admissions
      /\ dispatches \in [DOMAIN dispatches -> {"started", "completed"}]
      /\ \A d \in Calls : asked[d] \subseteq DOMAIN admissions
      /\ attempts \in [Calls -> 0 .. HoldMaxAttempts]
      /\ emitted \in [Calls -> 0 .. Chunks] /\ engine \in {"opencode", "native"}
  BY DEF AdmissionInv, AdmissionTypeOK, LedgerTypeOK, Moves, GoesByItsOwn
<1>3. to \in Phases
  BY DEF Phases, BridgePhases, EndPhases
<1>4. /\ phase' \in [Calls -> Phases] /\ phase'[c] = to
      /\ \A d \in Calls : d # c => phase'[d] = phase[d]
  BY <1>2, <1>3 DEF Moves
<1>5. \/ dispatches' = dispatches /\ to # "running"
      \/ /\ DOMAIN dispatches' = DOMAIN dispatches \cup {new} /\ to = "running"
         /\ dispatches'[new] = "started"
         /\ \A a \in DOMAIN dispatches : dispatches'[a] = dispatches[a]
         /\ dispatches' \in [DOMAIN dispatches' -> {"started", "completed"}]
  <2>1. CASE to = "running" /\ dispatches' = Started(new)
    <3>1. new \notin DOMAIN dispatches
      BY <1>1, <1>2
    <3>2. DOMAIN dispatches' = DOMAIN dispatches \cup {new}
      BY <2>1 DEF Started
    <3>3. \A b \in DOMAIN dispatches' :
             dispatches'[b] = IF b = new THEN "started" ELSE dispatches[b]
      BY <2>1 DEF Started
    <3>4. \A a \in DOMAIN dispatches : dispatches'[a] = dispatches[a]
      BY <3>1, <3>2, <3>3
    <3>5. \A b \in DOMAIN dispatches' : dispatches'[b] \in {"started", "completed"}
      BY <1>2, <3>2, <3>3
    <3>6. dispatches' = [b \in DOMAIN dispatches' |-> dispatches'[b]]
      BY <2>1 DEF Started
    <3>7. dispatches' \in [DOMAIN dispatches' -> {"started", "completed"}]
      BY <3>5, <3>6
    <3>. QED BY <2>1, <3>2, <3>3, <3>4, <3>7
  <2>. QED BY <2>1 DEF new
<1>6. AdmissionTypeOK' /\ dispatches' \in [DOMAIN dispatches' -> {"started", "completed"}]
  <2>1. /\ DOMAIN dispatches' \subseteq DOMAIN admissions'
        /\ dispatches' \in [DOMAIN dispatches' -> {"started", "completed"}]
    BY <1>1, <1>2, <1>5
  <2>2. \A a \in DOMAIN dispatches' : dispatches'[a] \in {"started", "completed"}
    BY <2>1
  <2>. QED BY <1>1, <1>2, <1>4, <2>1, <2>2 DEF AdmissionTypeOK, LedgerTypeOK
<1>7. \A d \in Calls : GoesByItsOwn(d)'
  <2>1. ASSUME NEW d \in Calls, d # c PROVE GoesByItsOwn(d)'
    BY <1>1, <1>4, <2>1 DEF AdmissionInv, GoesByItsOwn
  <2>2. GoesByItsOwn(c)'
    BY <1>1, <1>2, <1>4 DEF GoesByItsOwn
  <2>. QED BY <2>1, <2>2
<1>8. (\A d \in Calls : Told(d)') /\ Unshared'
  <2>1. \A d \in Calls : d # c => new \notin asked'[d]
    BY <1>1, <1>2
  <2>2. RecordsOf(c) = {}
    BY <1>2 DEF AdmissionInv, Told, QuietPhases
  <2>3. ASSUME NEW d \in Calls, d # c PROVE Told(d)'
    <3>1. Told(d)
      BY DEF AdmissionInv
    <3>2. phase'[d] = phase[d] /\ holds'[d] = holds[d] /\ asked'[d] = asked[d]
      BY <1>1, <1>4, <2>3
    <3>3. RecordsOf(d)' = RecordsOf(d)
      BY <1>5, <2>1, <2>3, <3>2 DEF RecordsOf
    <3>4. \A a \in DOMAIN dispatches : a \in DOMAIN dispatches' /\ dispatches'[a] = dispatches[a]
      BY <1>5
    <3>5. RecordsOf(d) \subseteq DOMAIN dispatches
      BY DEF RecordsOf
    <3>. QED BY <3>1, <3>2, <3>3, <3>4, <3>5 DEF Told
  <2>4. Told(c)'
    <3>1. CASE to = "running"
      <4>1. RecordsOf(c)' = {new}
        BY <1>1, <1>2, <1>5, <2>2, <3>1 DEF RecordsOf
      <4>. QED BY <1>1, <1>4, <1>5, <3>1, <4>1 DEF Told, QuietPhases
    <3>2. CASE to # "running"
      <4>1. RecordsOf(c)' = {}
        BY <1>1, <1>2, <1>5, <2>2, <3>2 DEF RecordsOf
      <4>. QED BY <1>4, <3>2, <4>1 DEF Told, StartedPhases
    <3>. QED BY <3>1, <3>2
  <2>5. Unshared'
    <3>1. Unshared
      BY DEF AdmissionInv
    <3>. QED BY <1>1, <2>1, <3>1 DEF Unshared
  <2>. QED BY <2>3, <2>4, <2>5
<1>. QED BY <1>1, <1>6, <1>7, <1>8 DEF AdmissionInv

LEMMA AsksKept ==
    ASSUME AdmissionInv, UNCHANGED engine, NEW c \in Calls,
           LedgerAdmits(c) \/ InvokeTool(c) \/ ResumeTool(c) \/ Generate(c)
    PROVE  AdmissionInv'
<1>1. CASE LedgerAdmits(c)
  BY <1>1, AskedKept DEF LedgerAdmits
<1>2. ASSUME NEW from \in {"idle", "paused"}, NEW refusedAt \in {"paused", "failed", "refused"},
             AskAndStart(c, from, refusedAt)
      PROVE  AdmissionInv'
  <2>1. /\ Asks(c) /\ UNCHANGED <<attempts, emitted>>
        /\ \/ Moves(c, from, "running") /\ dispatches' = Started(Len(admissions) + 1)
           \/ Moves(c, from, refusedAt) /\ UNCHANGED dispatches
    BY <1>2 DEF AskAndStart, Moves
  <2>2. CASE Moves(c, from, "running") /\ dispatches' = Started(Len(admissions) + 1)
    BY <2>1, <2>2, AskedKept
  <2>3. CASE Moves(c, from, refusedAt) /\ UNCHANGED dispatches
    BY <2>1, <2>3, AskedKept
  <2>. QED BY <2>1, <2>2, <2>3
<1>. QED BY <1>1, <1>2 DEF InvokeTool, ResumeTool, Generate

\* The admission call c goes by is dispatched or completed; nobody else goes by it.
LEMMA DispatchChanges ==
    ASSUME AdmissionInv, NEW c \in Calls, NEW from, NEW to \in {"dispatched", "done", "aborted"},
           Moves(c, from, to),
           UNCHANGED <<grantVars, admissions, engine, holds, attempts, emitted, asked>>,
           holds[c] \in asked[c], phase[c] \notin {"idle", "asking", "failed"},
           dispatches' \in [DOMAIN dispatches' -> {"started", "completed"}],
           DOMAIN dispatches' = DOMAIN dispatches \cup {holds[c]},
           dispatches'[holds[c]] = IF to = "dispatched" THEN "started" ELSE "completed",
           \A a \in DOMAIN dispatches : a # holds[c] => dispatches'[a] = dispatches[a]
    PROVE  AdmissionInv'
<1>1. UNCHANGED <<grants, clock, doneTickets, pendingStopRounds, connected>>
  BY DEF grantVars
<1>2. /\ phase \in [Calls -> Phases] /\ phase[c] = from
      /\ \A d \in Calls : asked[d] \subseteq DOMAIN admissions
      /\ DOMAIN dispatches \subseteq DOMAIN admissions
  BY DEF AdmissionInv, AdmissionTypeOK, LedgerTypeOK, Moves, GoesByItsOwn
<1>3. /\ phase' \in [Calls -> Phases] /\ phase'[c] = to
      /\ \A d \in Calls : d # c => phase'[d] = phase[d]
  BY <1>2 DEF Moves, Phases, BridgePhases, EndPhases
<1>4. AdmissionTypeOK'
  <2>1. DOMAIN dispatches' \subseteq DOMAIN admissions
    BY <1>2
  <2>2. \A a \in DOMAIN dispatches' : dispatches'[a] \in {"started", "completed"}
    OBVIOUS
  <2>. QED BY <1>1, <1>3, <2>1, <2>2 DEF AdmissionInv, AdmissionTypeOK, LedgerTypeOK, GrantsTypeOK
<1>5. \A d \in Calls : GoesByItsOwn(d)'
  <2>1. ASSUME NEW d \in Calls, d # c PROVE GoesByItsOwn(d)'
    BY <1>3, <2>1 DEF AdmissionInv, GoesByItsOwn
  <2>2. GoesByItsOwn(c)'
    BY <1>2, <1>3 DEF GoesByItsOwn
  <2>. QED BY <2>1, <2>2
<1>6. (\A d \in Calls : Told(d)') /\ Unshared'
  <2>1. Unshared
    BY DEF AdmissionInv
  <2>2. ASSUME NEW d \in Calls, d # c PROVE Told(d)'
    <3>1. Told(d)
      BY DEF AdmissionInv
    <3>2. holds[c] \notin asked[d] /\ phase'[d] = phase[d]
      BY <1>3, <2>1, <2>2 DEF Unshared
    <3>3. phase[d] \in StartedPhases \cup {"done", "aborted"} => holds[d] \in asked[d]
      BY DEF AdmissionInv, GoesByItsOwn, StartedPhases
    <3>4. RecordsOf(d)' = RecordsOf(d) /\ holds[c] \notin RecordsOf(d)
      BY <3>2 DEF RecordsOf
    <3>5. \A a \in RecordsOf(d) : dispatches'[a] = dispatches[a]
      BY <3>4 DEF RecordsOf
    <3>. QED BY <2>2, <3>1, <3>2, <3>3, <3>4, <3>5 DEF Told
  <2>3. RecordsOf(c)' \subseteq {holds[c]}
    BY DEF AdmissionInv, Told, RecordsOf
  <2>4. Told(c)'
    BY <1>3, <2>3 DEF Told, StartedPhases, QuietPhases
  <2>. QED BY <2>1, <2>2, <2>4 DEF Unshared
<1>7. DecisionsStand' /\ EndedGrantStaysEnded'
  BY <1>1 DEF AdmissionInv, DecisionsStand, EndedGrantStaysEnded
<1>. QED BY <1>4, <1>5, <1>6, <1>7 DEF AdmissionInv

LEMMA DispatchesKept ==
    ASSUME AdmissionInv, UNCHANGED engine, NEW c \in Calls,
           \/ LedgerDispatches(c) \/ LedgerCompletes(c) \/ NativeReturns(c)
           \/ ReportFails(c) /\ Complete(holds[c])
    PROVE  AdmissionInv'
<1>0. /\ dispatches \in [DOMAIN dispatches -> {"started", "completed"}]
      /\ phase[c] \notin {"idle", "asking", "failed"} => holds[c] \in asked[c]
      /\ asked[c] \subseteq DOMAIN admissions
  BY DEF AdmissionInv, GoesByItsOwn
<1>1. CASE LedgerDispatches(c)
  <2>1. /\ Moves(c, "dispatching", "dispatched") /\ Dispatch(holds[c])
        /\ UNCHANGED <<grantVars, admissions, engine, holds, attempts, emitted, asked>>
    BY <1>1 DEF LedgerDispatches, Dispatch, grantVars
  <2>2. /\ holds[c] \in asked[c] /\ asked[c] \cap DOMAIN dispatches = {}
        /\ admissions[holds[c]].decision = "allow" /\ phase[c] = "dispatching"
    BY <1>0, <2>1 DEF AdmissionInv, GoesByItsOwn, Told, RecordsOf, QuietPhases, Moves
  <2>3. CanDispatch(admissions, holds[c])
    BY <1>0, <2>2 DEF CanDispatch
  <2>4. dispatches' = Started(holds[c])
    BY <2>1, <2>3 DEF Dispatch
  <2>5. /\ DOMAIN dispatches' = DOMAIN dispatches \cup {holds[c]}
        /\ \A b \in DOMAIN dispatches' :
              dispatches'[b] = IF b = holds[c] THEN "started" ELSE dispatches[b]
        /\ dispatches' = [b \in DOMAIN dispatches' |-> dispatches'[b]]
    BY <2>4 DEF Started
  <2>6. \A b \in DOMAIN dispatches' : dispatches'[b] \in {"started", "completed"}
    BY <1>0, <2>5
  <2>7. dispatches' \in [DOMAIN dispatches' -> {"started", "completed"}]
    BY <2>5, <2>6
  <2>8. /\ dispatches'[holds[c]] = "started"
        /\ \A a \in DOMAIN dispatches : a # holds[c] => dispatches'[a] = dispatches[a]
    BY <2>5
  <2>. QED BY <2>1, <2>2, <2>5, <2>7, <2>8, DispatchChanges
<1>2. ASSUME NEW from \in {"running", "completing"}, NEW to \in {"done", "aborted"},
             Moves(c, from, to), Complete(holds[c]),
             UNCHANGED <<holds, attempts, emitted, asked>>
      PROVE  AdmissionInv'
  <2>1. /\ holds[c] \in DOMAIN dispatches /\ dispatches[holds[c]] = "started"
        /\ holds[c] \in asked[c] /\ phase[c] \notin {"idle", "asking", "failed"}
    BY <1>0, <1>2 DEF AdmissionInv, Told, StartedPhases, Moves
  <2>2. /\ dispatches' = [dispatches EXCEPT ![holds[c]] = "completed"]
        /\ UNCHANGED <<grantVars, admissions>>
    BY <1>2, <2>1 DEF Complete, CanComplete, grantVars
  <2>3. /\ dispatches' \in [DOMAIN dispatches' -> {"started", "completed"}]
        /\ DOMAIN dispatches' = DOMAIN dispatches \cup {holds[c]}
        /\ dispatches'[holds[c]] = "completed"
        /\ \A a \in DOMAIN dispatches : a # holds[c] => dispatches'[a] = dispatches[a]
    BY <1>0, <2>1, <2>2
  <2>. QED BY <1>2, <2>1, <2>2, <2>3, DispatchChanges
<1>. QED BY <1>1, <1>2 DEF LedgerCompletes, NativeReturns, ReportFails

-----------------------------------------------------------------------------
(* Theorems.                                                               *)

LEMMA AdmissionInvNext == AdmissionInv /\ [Next]_vars => AdmissionInv'
<1>. SUFFICES ASSUME AdmissionInv, [Next]_vars PROVE AdmissionInv'
  OBVIOUS
<1>1. CASE UNCHANGED vars
  <2>1. /\ UNCHANGED <<admissions, dispatches, grants, clock, doneTickets, pendingStopRounds>>
        /\ UNCHANGED <<connected, engine, phase, holds, attempts, emitted, asked>>
    BY <1>1 DEF vars, ledgerVars, grantVars, callVars
  <2>2. AdmissionTypeOK' /\ dispatches' \in [DOMAIN dispatches' -> {"started", "completed"}]
    BY <2>1 DEF AdmissionInv, AdmissionTypeOK, LedgerTypeOK, GrantsTypeOK
  <2>3. (\A d \in Calls : GoesByItsOwn(d)' /\ Told(d)') /\ Unshared'
    BY <2>1 DEF AdmissionInv, GoesByItsOwn, Told, RecordsOf, Unshared
  <2>4. DecisionsStand' /\ EndedGrantStaysEnded'
    BY <2>1 DEF AdmissionInv, DecisionsStand, EndedGrantStaysEnded
  <2>. QED BY <2>2, <2>3, <2>4 DEF AdmissionInv
<1>2. CASE UNCHANGED engine /\ \E c \in BridgeCalls : BridgeStep(c)
  <2>1. PICK c \in BridgeCalls : BridgeStep(c)
    BY <1>2
  <2>2. c \in Calls
    BY DEF Calls
  <2>. QED BY <1>2, <2>1, <2>2, MovesKept, AsksKept, DispatchesKept DEF BridgeStep, ReportFails
<1>3. CASE UNCHANGED engine /\ \E c \in ToolCalls \cup ModelCalls : NativeStep(c)
  <2>1. PICK c \in ToolCalls \cup ModelCalls : NativeStep(c)
    BY <1>3
  <2>2. c \in Calls
    BY DEF Calls
  <2>. QED BY <1>3, <2>1, <2>2, MovesKept, AsksKept, DispatchesKept, NextChunkKept DEF NativeStep
<1>. QED BY <1>1, <1>2, <1>3, OwnerKept DEF Next

\* The inductive invariant holds in every behaviour of the ledger and its callers.
THEOREM AdmissionInvariant == Spec => []AdmissionInv
BY AdmissionInvInit, AdmissionInvNext, PTL DEF Spec

\* The ledger has one start of every call that runs or ran and its completion once it is
\* done, and none of a call that was refused; a call whose hook threw before it ran
\* has at most a start (admission-ledger.ts, admission-plugin.ts, admitted-tool.ts,
\* admitted-model.ts).
THEOREM LedgerTellsWhatRanHolds == Spec => []LedgerTellsWhatRan
<1>1. AdmissionInv => LedgerTellsWhatRan
  BY DEF AdmissionInv, LedgerTellsWhatRan, Told, Unshared, StartedPhases, QuietPhases
<1>. QED BY <1>1, AdmissionInvariant, PTL

\* A Ticket's grants end for good (admission-ledger.ts, ticketReopened()).
THEOREM EndedGrantStaysEndedHolds == Spec => []EndedGrantStaysEnded
<1>1. AdmissionInv => EndedGrantStaysEnded
  BY DEF AdmissionInv
<1>. QED BY <1>1, AdmissionInvariant, PTL

\* A native call starts only on a grant that is live (admitted-tool.ts,
\* admitted-model.ts).
THEOREM NativeStartsOnALiveGrantHolds == Spec => NativeStartsOnALiveGrant
<1>. DEFINE Starts == \A c \in ToolCalls \cup ModelCalls :
               phase[c] # "running" /\ phase'[c] = "running" =>
                  /\ RequestOf[c].round \notin pendingStopRounds
                  /\ connected
                  /\ \E i \in DOMAIN grants : Matches(grants[i], RequestOf[c]) /\ Live(grants[i])
<1>1. AdmissionInv /\ [Next]_vars => [Starts]_vars
  <2>. SUFFICES ASSUME AdmissionInv, Next, NEW c \in ToolCalls \cup ModelCalls,
                       phase[c] # "running", phase'[c] = "running"
                PROVE  /\ RequestOf[c].round \notin pendingStopRounds
                       /\ connected
                       /\ \E i \in DOMAIN grants : Matches(grants[i], RequestOf[c]) /\ Live(grants[i])
    BY DEF vars, callVars
  <2>1. phase \in [Calls -> Phases] /\ GrantsTypeOK /\ c \in Calls
    BY DEF AdmissionInv, AdmissionTypeOK, LedgerTypeOK, Calls
  <2>2. PICK d \in Calls : (BridgeStep(d) /\ d \in BridgeCalls) \/ NativeStep(d)
    BY DEF Next, callVars, Calls
  <2>3. d = c
    BY <2>1, <2>2
       DEF BridgeStep, NativeStep, BeforeHook, LedgerAdmits, HookHears, HookAsksAgain,
           LedgerDispatches, HookReturns, AfterHook, LedgerCompletes, FetchFails, WorkFails, ReportFails,
           InvokeTool, ResumeTool, Generate, AskAndStart, NextChunk, NativeReturns, Moves
  <2>4. NativeStep(c)
    BY <2>2, <2>3, CallAssumption
  <2>5. InvokeTool(c) \/ ResumeTool(c) \/ Generate(c)
    BY <2>1, <2>4 DEF NativeStep, NextChunk, NativeReturns, WorkFails, Moves
  <2>6. Asks(c) /\ CanDispatch(Decided(RequestOf[c]), Len(admissions) + 1)
    BY <2>1, <2>5 DEF InvokeTool, ResumeTool, Generate, AskAndStart
  <2>7. RequestOf[c] \in Requests
    BY <2>1, CallAssumption
  <2>8. Evaluate(RequestOf[c]).decision = "allow"
    BY <2>6, <2>7, DecidedLog DEF CanDispatch
  <2>. QED BY <2>1, <2>8, AllowedIsGranted
<1>. QED BY <1>1, AdmissionInvariant, PTL DEF Spec, NativeStartsOnALiveGrant
=============================================================================
