---------------------------- MODULE GalleyProofs ----------------------------
(***************************************************************************)
(* Proofs about Galley's handlers, for any number of Tickets, Rounds,      *)
(* runners and asks.                                                       *)
(***************************************************************************)
EXTENDS Galley, TLAPS

(* Type correctness, one lemma per group of handlers.                      *)

\* The limit check requests a Stop and names its cause, or does nothing.
LEMMA LimitCheckTyped ==
    ASSUME TypeOK, NEW r \in Round, NEW kinds, EnforceRoundLimits(r, kinds)
    PROVE  /\ stopRequested' \in [Round -> BOOLEAN]
           /\ breach' \in [Round -> Limits \cup {"none"}]
BY DEF TypeOK, EnforceRoundLimits, stopVars

\* What the Owner does to a Ticket keeps every variable in its type.
LEMMA OwnerTicketTyped == ASSUME TypeOK, OwnerTicketStep PROVE TypeOK'
<1>. USE GalleyAssumption DEF TypeOK, Statuses, ticketVars, claimVars, stopVars,
        reconcileVars, askVars, runnerVars
<1>1. ASSUME NEW t \in Ticket, NEW target \in Statuses,
             ChangeTicketStatus(t, target)
      PROVE  TypeOK'
  BY <1>1 DEF ChangeTicketStatus, MoveTicket
<1>2. ASSUME NEW t \in Ticket, AcceptTicket(t) \/ RequestTicketRework(t)
      PROVE  TypeOK'
  BY <1>2 DEF AcceptTicket, RequestTicketRework, MoveTicket
<1>3. ASSUME NEW t \in Ticket, NEW kind \in Assignees, SetAssignee(t, kind)
      PROVE  TypeOK'
  BY <1>3 DEF SetAssignee
<1>4. ASSUME NEW t \in Ticket, NEW named \in SUBSET Inputs,
             NEW given \in SUBSET Inputs, UpdateTicket(t, named, given)
      PROVE  TypeOK'
  BY <1>4 DEF UpdateTicket
<1>5. ASSUME NEW t \in Ticket, ArchiveTicket(t) \/ RestoreTicket(t)
      PROVE  TypeOK'
  BY <1>5 DEF ArchiveTicket, RestoreTicket
<1>. HIDE DEF TypeOK
<1>. QED BY <1>1, <1>2, <1>3, <1>4, <1>5 DEF OwnerTicketStep

\* What the Owner does to a Round or an ask keeps every variable in its type.
LEMMA OwnerRoundTyped == ASSUME TypeOK, OwnerRoundStep PROVE TypeOK'
<1>. USE GalleyAssumption DEF TypeOK, Statuses, ticketVars, claimVars, stopVars,
        reconcileVars, askVars, runnerVars, Decided, EndedStates, Ended, Open,
        OpenStates
<1>1. ASSUME NEW r \in Round, RequestStop(r) PROVE TypeOK'
  BY <1>1 DEF RequestStop
<1>2. ASSUME NEW r \in Round, AttestCessation(r) PROVE TypeOK'
  BY <1>2 DEF AttestCessation, MoveHeldTicket, MoveTicket
<1>3. ASSUME NEW a \in Ask, AnswerQuestion(a) PROVE TypeOK'
  BY <1>3 DEF AnswerQuestion, DecideAsk
<1>4. ASSUME NEW a \in Ask, NEW decision \in Decided, DecidePermission(a, decision)
      PROVE  TypeOK'
  BY <1>4 DEF DecidePermission, DecideAsk
<1>. QED BY <1>1, <1>2, <1>3, <1>4 DEF OwnerRoundStep

\* Pairing, revoking, registering and heartbeating keep every variable in its type.
LEMMA CredentialTyped == ASSUME TypeOK, CredentialStep PROVE TypeOK'
<1>. USE GalleyAssumption DEF TypeOK, ticketVars, claimVars, stopVars,
        reconcileVars, askVars, runnerVars, FlagOpenRound
<1>1. ASSUME NEW rn \in Runner, PairRunner(rn) PROVE TypeOK'
  BY <1>1 DEF PairRunner
<1>2. ASSUME RevokeRunner PROVE TypeOK'
  BY <1>2 DEF RevokeRunner
<1>3. ASSUME RegisterRunner PROVE TypeOK'
  BY <1>3 DEF RegisterRunner
<1>4. ASSUME RunnerHeartbeat PROVE TypeOK'
  <2>1. reconcileRequired' \in [Round -> BOOLEAN]
    BY <1>4 DEF RunnerHeartbeat
  <2>2. /\ stopRequested' \in [Round -> BOOLEAN]
        /\ breach' \in [Round -> Limits \cup {"none"}]
    BY <1>4, LimitCheckTyped DEF RunnerHeartbeat
  <2>. QED BY <1>4, <2>1, <2>2 DEF RunnerHeartbeat
<1>5. ASSUME HealthWindowPasses PROVE TypeOK'
  BY <1>5 DEF HealthWindowPasses
<1>. QED BY <1>1, <1>2, <1>3, <1>4, <1>5 DEF CredentialStep

\* A claim, from its authentication to its answer, keeps every variable in its type.
LEMMA ClaimTyped == ASSUME TypeOK, ClaimStep PROVE TypeOK'
<1>. USE GalleyAssumption DEF TypeOK, ticketVars, claimVars, stopVars,
        reconcileVars, askVars, runnerVars, OpenStates
<1>1. ASSUME AuthenticateClaim PROVE TypeOK'
  BY <1>1 DEF AuthenticateClaim
<1>2. ASSUME NEW rn \in Runner, ClaimNothing(rn) PROVE TypeOK'
  BY <1>2 DEF ClaimNothing
<1>3. ASSUME NEW rn \in Runner, NEW t \in Ticket, NEW r \in Round,
             NEW e \in 1..MaxEpoch, ClaimWork(rn, t, r, e)
      PROVE  TypeOK'
  BY <1>3 DEF ClaimWork
<1>. QED BY <1>1, <1>2, <1>3 DEF ClaimStep

\* A runner's event, Reconcile or authority check keeps every variable in its type.
LEMMA EventTyped == ASSUME TypeOK, EventStep PROVE TypeOK'
<1>. USE GalleyAssumption DEF TypeOK, Statuses, ticketVars, claimVars, stopVars,
        reconcileVars, askVars, runnerVars, OpenStates, EndedStates,
        MoveHeldTicket, MoveTicket
<1>. SUFFICES ASSUME NEW rn \in Runner, NEW r \in Round, Event(rn, r)
              PROVE  TypeOK'
  BY DEF EventStep
<1>1. CASE ExecutionStarted(rn, r) \/ Delivered(rn, r)
  BY <1>1 DEF ExecutionStarted, Delivered
<1>2. CASE ProgressOrUsage(rn, r) \/ CheckAuthority(rn, r)
  BY <1>2, LimitCheckTyped DEF ProgressOrUsage, CheckAuthority
<1>3. CASE StopConfirmed(rn, r) \/ Failed(rn, r) \/ Interrupted(rn, r)
  BY <1>3 DEF StopConfirmed, Failed, Interrupted, EndRound
<1>4. ASSUME NEW a \in Ask, NEW kind \in {"asked", "requested"},
             RaiseAsk(rn, r, a, kind)
      PROVE  TypeOK'
  BY <1>4 DEF RaiseAsk
<1>5. ASSUME NEW a \in Ask, Resumed(rn, r, a) PROVE TypeOK'
  BY <1>5, LimitCheckTyped DEF Resumed
<1>6. ASSUME NEW held \in {"nothing", "running", "stopped", "unknown"},
             Reconcile(rn, r, held)
      PROVE  TypeOK'
  BY <1>6 DEF Reconcile, StillRequired, Executions
<1>. QED BY <1>1, <1>2, <1>3, <1>4, <1>5, <1>6 DEF Event

\* Galley starts with every variable in its type.
LEMMA TypeCorrectInit == Init => TypeOK
BY GalleyAssumption DEF Init, TypeOK, Statuses, Executions

\* No step of Galley takes a variable out of its type.
LEMMA TypeCorrectStep == ASSUME TypeOK, [Next]_vars PROVE TypeOK'
<1>1. ASSUME Next PROVE TypeOK'
  BY <1>1, OwnerTicketTyped, OwnerRoundTyped, CredentialTyped, ClaimTyped,
     EventTyped DEF Next
<1>2. ASSUME UNCHANGED vars PROVE TypeOK'
  BY <1>2 DEF TypeOK, vars, ticketVars, claimVars, stopVars, reconcileVars,
              askVars, runnerVars
<1>. QED BY <1>1, <1>2

\* Every handler leaves every row of the record within its type.
THEOREM TypeCorrect == Spec => []TypeOK
<1>1. Init => TypeOK BY TypeCorrectInit
<1>2. TypeOK /\ [Next]_vars => TypeOK' BY TypeCorrectStep
<1>. QED BY <1>1, <1>2, PTL DEF Spec

-----------------------------------------------------------------------------
(* The slot invariant: one open Round, and its Ticket moves with it.       *)

\* The Owner changes only Tickets without an open Round.
LEMMA OwnerTicketKeepsSlot ==
    ASSUME SlotInv, OwnerTicketStep
    PROVE  Bookkeeping' /\ OneOpenRound' /\ OpenRoundHoldsItsTicket'
<1>1. /\ UNCHANGED <<roundState, claimVars, stopVars, reconcileVars, askVars>>
      /\ \E t \in Ticket :
            /\ ~HasOpenRound(t)
            /\ \A u \in Ticket \ {t} : /\ status'[u] = status[u]
                                       /\ archived'[u] = archived[u]
                                       /\ assignee'[u] = assignee[u]
  BY DEF OwnerTicketStep, ChangeTicketStatus, AcceptTicket, RequestTicketRework,
         SetAssignee, UpdateTicket, ArchiveTicket, RestoreTicket, MoveTicket,
         Mutable, SlotInv, TypeOK
<1>2. \A r \in Round : Open(r)' = Open(r)
  BY <1>1 DEF Open
<1>3. Bookkeeping' /\ OneOpenRound'
  BY <1>1, <1>2 DEF SlotInv, Bookkeeping, OneOpenRound, claimVars, stopVars,
                    reconcileVars, askVars
<1>4. OpenRoundHoldsItsTicket'
  BY <1>1, <1>2 DEF SlotInv, OpenRoundHoldsItsTicket, HasOpenRound, RoundsOf,
                    claimVars
<1>. QED BY <1>3, <1>4

\* What leaves the Rounds' states and the Tickets alone keeps the slot.
LEMMA SlotFrame ==
    ASSUME SlotInv,
           UNCHANGED <<status, archived, assignee, roundState, roundTicket>>,
           \A r \in Round : roundState[r] = "unclaimed" =>
                execution'[r] = execution[r] /\ stopRequested'[r] = stopRequested[r],
           \A a \in Ask :
                /\ askRound'[a] = askRound[a]
                /\ askState[a] = "unraised" <=> askState'[a] = "unraised"
    PROVE  Bookkeeping' /\ OneOpenRound' /\ OpenRoundHoldsItsTicket'
<1>1. \A r \in Round : Open(r)' = Open(r)
  BY DEF Open
<1>2. Bookkeeping'
  BY DEF SlotInv, Bookkeeping
<1>3. OneOpenRound' /\ OpenRoundHoldsItsTicket'
  BY <1>1 DEF SlotInv, OneOpenRound, OpenRoundHoldsItsTicket
<1>. QED BY <1>2, <1>3

\* An event, an attestation or an ask that moves the open Round r moves its
\* Ticket with it.
LEMMA RoundMoveKeepsSlot ==
    ASSUME SlotInv, NEW r \in Round, Open(r),
           NEW next \in OpenStates \cup EndedStates,
           roundState' = [roundState EXCEPT ![r] = next],
           NEW target, MoveHeldTicket(r, target),
           next \in OpenStates => target = TicketStatusHeldBy(next),
           UNCHANGED <<roundTicket, execution>>,
           \A q \in Round \ {r} : stopRequested'[q] = stopRequested[q],
           \A a \in Ask : \/ askRound'[a] = r /\ askState'[a] # "unraised"
                          \/ /\ askRound'[a] = askRound[a]
                             /\ askState'[a] = askState[a]
    PROVE  Bookkeeping' /\ OneOpenRound' /\ OpenRoundHoldsItsTicket'
<1>1. roundState[r] # "unclaimed" /\ next # "unclaimed"
  BY DEF Open, OpenStates, EndedStates
<1>2. \A q \in Round \ {r} : ~Open(q) /\ ~Open(q)'
  BY DEF SlotInv, OneOpenRound, Open, TypeOK
<1>3. Bookkeeping'
  BY <1>1 DEF SlotInv, Bookkeeping, TypeOK
<1>4. OneOpenRound'
  BY <1>2 DEF OneOpenRound
<1>5. ASSUME Open(r)'
      PROVE  /\ status'[roundTicket[r]] = TicketStatusHeldBy(roundState'[r])
             /\ ~archived'[roundTicket[r]]
             /\ assignee'[roundTicket[r]] \in AgentKinds
             /\ roundTicket[r] \in Ticket
  BY <1>5 DEF SlotInv, OpenRoundHoldsItsTicket, Open, TypeOK, MoveHeldTicket,
              MoveTicket
<1>6. OpenRoundHoldsItsTicket'
  BY <1>2, <1>5 DEF OpenRoundHoldsItsTicket
<1>. QED BY <1>3, <1>4, <1>6

\* A claim opens a Round only when none is open, for a Ticket in Ready.
LEMMA ClaimKeepsSlot ==
    ASSUME SlotInv, NEW rn \in Runner, NEW t \in Ticket, NEW r \in Round,
           NEW e \in 1..MaxEpoch, ClaimWork(rn, t, r, e)
    PROVE  Bookkeeping' /\ OneOpenRound' /\ OpenRoundHoldsItsTicket'
<1>1. \A q \in Round : ~Open(q)
  BY DEF ClaimWork, SlotTaken
<1>2. \A q \in Round \ {r} : ~Open(q)'
  BY <1>1 DEF ClaimWork, Open, SlotInv, TypeOK
<1>3. /\ roundState'[r] = "claimed"
      /\ roundTicket'[r] = t
      /\ \A q \in Round \ {r} : /\ roundState'[q] = roundState[q]
                                /\ roundTicket'[q] = roundTicket[q]
      /\ UNCHANGED <<status, archived, assignee, execution, stopRequested,
                     askRound, askState>>
  BY DEF ClaimWork, SlotInv, TypeOK, ticketVars, stopVars, reconcileVars, askVars
<1>4. Bookkeeping'
  BY <1>3 DEF SlotInv, Bookkeeping
<1>5. OneOpenRound'
  BY <1>2 DEF OneOpenRound
<1>6. /\ status[t] = "Ready"
      /\ ~archived[t]
      /\ assignee[t] \in AgentKinds
  BY DEF ClaimWork, AgentWorkRequested
<1>7. OpenRoundHoldsItsTicket'
  BY <1>2, <1>3, <1>6 DEF OpenRoundHoldsItsTicket, TicketStatusHeldBy
<1>. QED BY <1>4, <1>5, <1>7

\* Each event either moves the open Round with its Ticket or leaves both alone.
LEMMA EventKeepsSlot ==
    ASSUME SlotInv, EventStep
    PROVE  Bookkeeping' /\ OneOpenRound' /\ OpenRoundHoldsItsTicket'
<1>. SUFFICES ASSUME NEW rn \in Runner, NEW r \in Round, Event(rn, r)
              PROVE  Bookkeeping' /\ OneOpenRound' /\ OpenRoundHoldsItsTicket'
  BY DEF EventStep
<1>1. CASE ExecutionStarted(rn, r) \/ Delivered(rn, r)
  BY <1>1, RoundMoveKeepsSlot
  DEF ExecutionStarted, Delivered, Reports, Open, OpenStates, EndedStates,
      TicketStatusHeldBy, claimVars, stopVars, reconcileVars, askVars
<1>2. CASE ProgressOrUsage(rn, r) \/ CheckAuthority(rn, r)
  BY <1>2, SlotFrame
  DEF ProgressOrUsage, CheckAuthority, Reports, EnforceRoundLimits, SlotInv, TypeOK,
      ticketVars, claimVars, stopVars, reconcileVars, askVars
<1>3. CASE StopConfirmed(rn, r) \/ Failed(rn, r) \/ Interrupted(rn, r)
  BY <1>3, RoundMoveKeepsSlot
  DEF StopConfirmed, Failed, Interrupted, EndRound, Reports, Open, OpenStates,
      EndedStates, claimVars, stopVars, reconcileVars, askVars
<1>4. ASSUME NEW a \in Ask, NEW kind \in {"asked", "requested"},
             RaiseAsk(rn, r, a, kind)
      PROVE  Bookkeeping' /\ OneOpenRound' /\ OpenRoundHoldsItsTicket'
  BY <1>4, RoundMoveKeepsSlot
  DEF RaiseAsk, Reports, Open, OpenStates, TicketStatusHeldBy, SlotInv, TypeOK,
      claimVars, stopVars, reconcileVars
<1>5. ASSUME NEW a \in Ask, Resumed(rn, r, a)
      PROVE  Bookkeeping' /\ OneOpenRound' /\ OpenRoundHoldsItsTicket'
  <2>1. \A q \in Round \ {r} : stopRequested'[q] = stopRequested[q]
    BY <1>5 DEF Resumed, EnforceRoundLimits, SlotInv, TypeOK, stopVars
  <2>2. /\ Open(r)
        /\ "running" \in OpenStates
        /\ roundState' = [roundState EXCEPT ![r] = "running"]
        /\ MoveHeldTicket(r, "InProgress")
        /\ roundTicket' = roundTicket /\ execution' = execution
        /\ \A b \in Ask : /\ askRound'[b] = askRound[b]
                          /\ askState'[b] = askState[b]
    BY <1>5 DEF Resumed, Reports, Open, OpenStates, claimVars, reconcileVars, askVars
  <2>3. TicketStatusHeldBy("running") = "InProgress"
    BY DEF TicketStatusHeldBy
  <2>. QED BY <2>1, <2>2, <2>3, RoundMoveKeepsSlot
<1>6. ASSUME NEW held \in {"nothing", "running", "stopped", "unknown"},
             Reconcile(rn, r, held)
      PROVE  Bookkeeping' /\ OneOpenRound' /\ OpenRoundHoldsItsTicket'
  BY <1>6, SlotFrame
  DEF Reconcile, Reports, OpenStates, SlotInv, TypeOK, ticketVars, claimVars,
      stopVars, askVars
<1>. QED BY <1>1, <1>2, <1>3, <1>4, <1>5, <1>6 DEF Event

\* The Slot invariant holds before any Round is claimed.
LEMMA SlotInvInit == Init => SlotInv
BY TypeCorrectInit
DEF Init, SlotInv, Bookkeeping, OneOpenRound, OpenRoundHoldsItsTicket, Open,
    OpenStates

\* Every step of the specification keeps the slot invariant.
LEMMA SlotInvStep == ASSUME SlotInv, [Next]_vars PROVE SlotInv'
<1>1. TypeOK'
  BY TypeCorrectStep DEF SlotInv
<1>. SUFFICES Bookkeeping' /\ OneOpenRound' /\ OpenRoundHoldsItsTicket'
  BY <1>1 DEF SlotInv
<1>2. CASE OwnerTicketStep
  BY <1>2, OwnerTicketKeepsSlot
<1>3. CASE OwnerRoundStep
  <2>1. ASSUME NEW r \in Round, RequestStop(r)
        PROVE  Bookkeeping' /\ OneOpenRound' /\ OpenRoundHoldsItsTicket'
    BY <2>1, SlotFrame DEF RequestStop, Open, OpenStates, SlotInv, TypeOK, ticketVars,
                           claimVars, askVars, reconcileVars
  <2>2. ASSUME NEW r \in Round, AttestCessation(r)
        PROVE  Bookkeeping' /\ OneOpenRound' /\ OpenRoundHoldsItsTicket'
    <3>1. /\ Open(r)
          /\ "interrupted" \in EndedStates /\ "interrupted" \notin OpenStates
          /\ roundState' = [roundState EXCEPT ![r] = "interrupted"]
          /\ MoveHeldTicket(r, "Blocked")
          /\ roundTicket' = roundTicket /\ execution' = execution
          /\ \A q \in Round \ {r} : stopRequested'[q] = stopRequested[q]
          /\ \A a \in Ask : /\ askRound'[a] = askRound[a]
                            /\ askState'[a] = askState[a]
      BY <2>2 DEF AttestCessation, EndedStates, OpenStates, claimVars, stopVars,
                  reconcileVars, askVars
    <3>. QED BY <3>1, RoundMoveKeepsSlot
  <2>3. ASSUME NEW a \in Ask, NEW from \in {"asked", "requested"},
               NEW decision \in Decided, DecideAsk(a, from, decision)
        PROVE  Bookkeeping' /\ OneOpenRound' /\ OpenRoundHoldsItsTicket'
    <3>1. \A b \in Ask : askState[b] = "unraised" <=> askState'[b] = "unraised"
      BY <2>3 DEF DecideAsk, SlotInv, TypeOK, Decided
    <3>2. UNCHANGED <<status, archived, assignee, roundState, roundTicket,
                      execution, stopRequested, askRound>>
      BY <2>3 DEF DecideAsk, ticketVars, claimVars, stopVars, reconcileVars
    <3>. QED BY <3>1, <3>2, SlotFrame
  <2>. QED BY <1>3, <2>1, <2>2, <2>3 DEF OwnerRoundStep, AnswerQuestion,
                                         DecidePermission, Decided
<1>4. CASE CredentialStep
  BY <1>4, SlotFrame DEF CredentialStep, PairRunner, RevokeRunner, RegisterRunner,
          RunnerHeartbeat, HealthWindowPasses, EnforceRoundLimits, SlotInv, TypeOK,
          ticketVars, claimVars, stopVars, reconcileVars, askVars
<1>5. CASE ClaimStep
  <2>1. ASSUME AuthenticateClaim \/ \E rn \in Runner : ClaimNothing(rn)
        PROVE  Bookkeeping' /\ OneOpenRound' /\ OpenRoundHoldsItsTicket'
    BY <2>1, SlotFrame DEF AuthenticateClaim, ClaimNothing, ticketVars, claimVars,
                           stopVars, reconcileVars, askVars
  <2>. QED BY <1>5, <2>1, ClaimKeepsSlot DEF ClaimStep
<1>6. CASE EventStep
  BY <1>6, EventKeepsSlot
<1>7. CASE UNCHANGED vars
  BY <1>7, SlotFrame DEF vars, ticketVars, claimVars, stopVars, reconcileVars,
                         askVars
<1>. QED BY <1>2, <1>3, <1>4, <1>5, <1>6, <1>7 DEF Next

\* Two Rounds are never open at once, and the Ticket of the open one stays
\* where that Round holds it.
THEOREM SlotInvariant == Spec => []SlotInv
<1>1. Init => SlotInv BY SlotInvInit
<1>2. SlotInv /\ [Next]_vars => SlotInv' BY SlotInvStep
<1>. QED BY <1>1, <1>2, PTL DEF Spec

\* Racing claims and replaced credentials never open a second Round.
COROLLARY OneOpenRoundHolds == Spec => []OneOpenRound
BY SlotInvariant, PTL DEF SlotInv

\* No interleaving takes an open Round's Ticket from under it.
COROLLARY OpenRoundHoldsItsTicketHolds == Spec => []OpenRoundHoldsItsTicket
BY SlotInvariant, PTL DEF SlotInv

-----------------------------------------------------------------------------
(* The handlers implement the abstract slot.                               *)

\* The Round that is open is the one the slot's refinement mapping names.
LEMMA OpenRoundIs ==
    ASSUME OneOpenRound, NEW r \in Round, Open(r)
    PROVE  OpenRound = r
BY DEF OneOpenRound, OpenRound, SlotTaken

\* The same of the state after a step.
LEMMA OpenRoundIsPrimed ==
    ASSUME OneOpenRound', NEW r \in Round, Open(r)'
    PROVE  OpenRound' = r
BY DEF OneOpenRound, OpenRound, SlotTaken

\* With no Round open the refinement mapping names none.
LEMMA NoOpenRound ==
    /\ (\A r \in Round : ~Open(r)) => OpenRound = NoRound
    /\ (\A r \in Round : ~Open(r)') => OpenRound' = NoRound
BY DEF OpenRound, SlotTaken

\* What leaves the Rounds' states alone, and asks at most the open Round to
\* stop, is a Stop of the slot or a stutter.
LEMMA StopOrStutter ==
    ASSUME SlotInv, SlotInv', UNCHANGED roundState,
           \/ UNCHANGED stopRequested
           \/ \E r \in Round : /\ Open(r)
                              /\ stopRequested' = [stopRequested EXCEPT ![r] = TRUE]
    PROVE  [Slot!Next]_(Slot!vars)
<1>1. OpenRound' = OpenRound
  <2>1. CASE \A r \in Round : ~Open(r)
    BY <2>1, NoOpenRound DEF Open
  <2>2. ASSUME NEW r \in Round, Open(r) PROVE OpenRound' = OpenRound
    BY <2>2, OpenRoundIs, OpenRoundIsPrimed DEF Open, SlotInv
  <2>. QED BY <2>1, <2>2
<1>2. [r \in Round |-> IF Ended(r) THEN roundState[r] ELSE "none"]'
        = [r \in Round |-> IF Ended(r) THEN roundState[r] ELSE "none"]
  BY DEF Ended
<1>3. CASE UNCHANGED stopRequested
  <2>1. {r \in Round : stopRequested[r]}' = {r \in Round : stopRequested[r]}
    BY <1>3
  <2>. QED BY <1>1, <1>2, <2>1 DEF Slot!vars
<1>4. ASSUME NEW r \in Round, Open(r),
             stopRequested' = [stopRequested EXCEPT ![r] = TRUE]
      PROVE  Slot!Next
  <2>1. OpenRound = r
    BY <1>4, OpenRoundIs DEF SlotInv
  <2>2. {q \in Round : stopRequested[q]}' = {q \in Round : stopRequested[q]} \cup {r}
    BY <1>4 DEF SlotInv, TypeOK
  <2>3. Slot!AskToStop(r)
    BY <1>1, <1>2, <2>1, <2>2 DEF Slot!AskToStop
  <2>. QED BY <2>3 DEF Slot!Next
<1>. QED BY <1>3, <1>4

\* Ending the open Round gives up the slot with that outcome.
LEMMA EndingGivesUp ==
    ASSUME SlotInv, SlotInv', NEW r \in Round, Open(r), NEW next \in EndedStates,
           roundState' = [roundState EXCEPT ![r] = next], UNCHANGED stopRequested,
           next = "stopped" => stopRequested[r]
    PROVE  Slot!Next
<1>1. OpenRound = r
  BY OpenRoundIs DEF SlotInv
<1>2. \A q \in Round \ {r} : ~Open(q)
  BY DEF SlotInv, OneOpenRound
<1>3. \A q \in Round : ~Open(q)'
  BY <1>2 DEF Open, SlotInv, TypeOK, OpenStates, EndedStates
<1>4. OpenRound' = NoRound
  BY <1>3, NoOpenRound
<1>5. [q \in Round |-> IF Ended(q) THEN roundState[q] ELSE "none"]'
        = [[q \in Round |-> IF Ended(q) THEN roundState[q] ELSE "none"]
             EXCEPT ![r] = next]
  BY DEF Ended, SlotInv, TypeOK, EndedStates
<1>6. {q \in Round : stopRequested[q]}' = {q \in Round : stopRequested[q]}
  OBVIOUS
<1>7. next \in Slot!Outcomes
  BY DEF Slot!Outcomes, EndedStates
<1>8. Slot!GiveUp(r, next)
  BY <1>1, <1>4, <1>5, <1>6 DEF Slot!GiveUp
<1>. QED BY <1>7, <1>8 DEF Slot!Next

\* Waiting and resuming keep the slot; a limit found on resuming is a Stop.
LEMMA MovingKeepsTheSlot ==
    ASSUME SlotInv, SlotInv', NEW r \in Round, Open(r), NEW next \in OpenStates,
           roundState' = [roundState EXCEPT ![r] = next],
           \/ UNCHANGED stopRequested
           \/ stopRequested' = [stopRequested EXCEPT ![r] = TRUE]
    PROVE  [Slot!Next]_(Slot!vars)
<1>1. OpenRound = r /\ OpenRound' = r
  <2>1. Open(r)'
    BY DEF Open, SlotInv, TypeOK
  <2>. QED BY <2>1, OpenRoundIs, OpenRoundIsPrimed DEF SlotInv
<1>2. [q \in Round |-> IF Ended(q) THEN roundState[q] ELSE "none"]'
        = [q \in Round |-> IF Ended(q) THEN roundState[q] ELSE "none"]
  BY DEF Ended, Open, SlotInv, TypeOK, EndedStates, OpenStates
<1>3. CASE UNCHANGED stopRequested
  <2>1. {q \in Round : stopRequested[q]}' = {q \in Round : stopRequested[q]}
    BY <1>3
  <2>. QED BY <1>1, <1>2, <2>1 DEF Slot!vars
<1>4. CASE stopRequested' = [stopRequested EXCEPT ![r] = TRUE]
  <2>1. {q \in Round : stopRequested[q]}' = {q \in Round : stopRequested[q]} \cup {r}
    BY <1>4 DEF SlotInv, TypeOK
  <2>2. Slot!AskToStop(r)
    BY <1>1, <1>2, <2>1 DEF Slot!AskToStop
  <2>. QED BY <2>2 DEF Slot!Next
<1>. QED BY <1>3, <1>4

\* A claim takes the free slot with a Round that never had it.
LEMMA ClaimTakesTheSlot ==
    ASSUME SlotInv, SlotInv', NEW rn \in Runner, NEW t \in Ticket, NEW r \in Round,
           NEW e \in 1..MaxEpoch, ClaimWork(rn, t, r, e)
    PROVE  Slot!Next
<1>1. OpenRound = NoRound
  BY NoOpenRound DEF ClaimWork, SlotTaken
<1>2. Open(r)'
  BY DEF ClaimWork, Open, OpenStates, SlotInv, TypeOK
<1>3. OpenRound' = r
  BY <1>2, OpenRoundIsPrimed DEF SlotInv
<1>4. roundState' = [roundState EXCEPT ![r] = "claimed"] /\ roundState[r] = "unclaimed"
  BY DEF ClaimWork
<1>5. [q \in Round |-> IF Ended(q) THEN roundState[q] ELSE "none"]'
        = [q \in Round |-> IF Ended(q) THEN roundState[q] ELSE "none"]
  BY <1>4 DEF Ended, SlotInv, TypeOK, EndedStates
<1>6. [q \in Round |-> IF Ended(q) THEN roundState[q] ELSE "none"][r] = "none"
  BY <1>4 DEF Ended, EndedStates
<1>7. /\ {q \in Round : stopRequested[q]}' = {q \in Round : stopRequested[q]}
      /\ r \notin {q \in Round : stopRequested[q]}
  BY <1>4 DEF ClaimWork, stopVars, SlotInv, Bookkeeping
<1>8. Slot!Take(r)
  BY <1>1, <1>3, <1>5, <1>6, <1>7 DEF Slot!Take
<1>. QED BY <1>8 DEF Slot!Next

\* Every step of Galley is a step of the execution slot or leaves it alone.
LEMMA SlotStep == ASSUME SlotInv, SlotInv', [Next]_vars PROVE [Slot!Next]_(Slot!vars)
<1>1. CASE OwnerTicketStep \/ UNCHANGED vars
  <2>1. UNCHANGED <<roundState, stopRequested>>
    BY <1>1 DEF OwnerTicketStep, ChangeTicketStatus, AcceptTicket,
        RequestTicketRework, SetAssignee, UpdateTicket, ArchiveTicket,
        RestoreTicket, vars, stopVars
  <2>. QED BY <2>1, StopOrStutter
<1>2. CASE OwnerRoundStep
  <2>1. ASSUME NEW r \in Round, RequestStop(r) PROVE [Slot!Next]_(Slot!vars)
    BY <2>1, StopOrStutter DEF RequestStop
  <2>2. ASSUME NEW r \in Round, AttestCessation(r) PROVE [Slot!Next]_(Slot!vars)
    BY <2>2, EndingGivesUp DEF AttestCessation, EndedStates, stopVars
  <2>3. ASSUME NEW a \in Ask, NEW from, NEW decision, DecideAsk(a, from, decision)
        PROVE  [Slot!Next]_(Slot!vars)
    BY <2>3, StopOrStutter DEF DecideAsk, stopVars
  <2>. QED BY <1>2, <2>1, <2>2, <2>3 DEF OwnerRoundStep, AnswerQuestion,
                                         DecidePermission
<1>3. CASE CredentialStep
  <2>1. UNCHANGED roundState
    BY <1>3 DEF CredentialStep, PairRunner, RevokeRunner, RegisterRunner,
                RunnerHeartbeat, HealthWindowPasses
  <2>2. \/ UNCHANGED stopRequested
        \/ \E r \in Round : /\ Open(r)
                           /\ stopRequested' = [stopRequested EXCEPT ![r] = TRUE]
    BY <1>3 DEF CredentialStep, PairRunner, RevokeRunner, RegisterRunner,
                RunnerHeartbeat, HealthWindowPasses, EnforceRoundLimits, stopVars,
                Open, OpenStates
  <2>. QED BY <2>1, <2>2, StopOrStutter
<1>4. CASE ClaimStep
  <2>1. ASSUME AuthenticateClaim \/ \E rn \in Runner : ClaimNothing(rn)
        PROVE  [Slot!Next]_(Slot!vars)
    <3>1. UNCHANGED <<roundState, stopRequested>>
      BY <2>1 DEF AuthenticateClaim, ClaimNothing, stopVars
    <3>. QED BY <3>1, StopOrStutter
  <2>. QED BY <1>4, <2>1, ClaimTakesTheSlot DEF ClaimStep
<1>5. CASE EventStep
  <2>. SUFFICES ASSUME NEW rn \in Runner, NEW r \in Round, Event(rn, r)
                PROVE  [Slot!Next]_(Slot!vars)
    BY <1>5 DEF EventStep
  <2>1. CASE ExecutionStarted(rn, r)
    BY <2>1, MovingKeepsTheSlot
    DEF ExecutionStarted, Reports, Open, OpenStates, stopVars
  <2>2. CASE ProgressOrUsage(rn, r) \/ CheckAuthority(rn, r)
    <3>1. UNCHANGED roundState /\ Open(r)
      BY <2>2 DEF ProgressOrUsage, CheckAuthority, Reports, Open, OpenStates
    <3>2. \/ UNCHANGED stopRequested
          \/ stopRequested' = [stopRequested EXCEPT ![r] = TRUE]
      BY <2>2 DEF ProgressOrUsage, CheckAuthority, EnforceRoundLimits, stopVars
    <3>. QED BY <3>1, <3>2, StopOrStutter
  <2>3. CASE Delivered(rn, r)
    BY <2>3, EndingGivesUp
    DEF Delivered, Reports, Open, OpenStates, EndedStates, stopVars
  <2>4. CASE StopConfirmed(rn, r)
    BY <2>4, EndingGivesUp
    DEF StopConfirmed, EndRound, Reports, Open, OpenStates, EndedStates, stopVars
  <2>5. CASE Failed(rn, r) \/ Interrupted(rn, r)
    BY <2>5, EndingGivesUp
    DEF Failed, Interrupted, EndRound, Reports, Open, OpenStates, EndedStates, stopVars
  <2>6. ASSUME NEW a \in Ask, NEW kind \in {"asked", "requested"},
               RaiseAsk(rn, r, a, kind)
        PROVE  [Slot!Next]_(Slot!vars)
    BY <2>6, MovingKeepsTheSlot DEF RaiseAsk, Reports, Open, OpenStates, stopVars
  <2>7. ASSUME NEW a \in Ask, Resumed(rn, r, a) PROVE [Slot!Next]_(Slot!vars)
    BY <2>7, MovingKeepsTheSlot
    DEF Resumed, Reports, Open, OpenStates, EnforceRoundLimits, stopVars
  <2>8. ASSUME NEW held \in {"nothing", "running", "stopped", "unknown"},
               Reconcile(rn, r, held)
        PROVE  [Slot!Next]_(Slot!vars)
    BY <2>8, StopOrStutter DEF Reconcile, stopVars
  <2>. QED BY <2>1, <2>2, <2>3, <2>4, <2>5, <2>6, <2>7, <2>8 DEF Event
<1>. QED BY <1>1, <1>2, <1>3, <1>4, <1>5 DEF Next

\* Galley's initial states are the execution slot's.
LEMMA SlotInit == Init => Slot!Init
<1>. SUFFICES ASSUME Init PROVE Slot!Init
  OBVIOUS
<1>1. OpenRound = NoRound
  BY NoOpenRound DEF Init, Open, OpenStates
<1>2. [r \in Round |-> IF Ended(r) THEN roundState[r] ELSE "none"]
        = [r \in Round |-> "none"]
  BY DEF Init, Ended, EndedStates
<1>3. {r \in Round : stopRequested[r]} = {}
  BY DEF Init
<1>. QED BY <1>1, <1>2, <1>3 DEF Slot!Init

\* Galley's handlers implement the abstract execution slot: whatever runners
\* report late, whoever is paired and whatever the Owner does meanwhile, a
\* Round takes the slot once and gives it up with one outcome.
THEOREM ImplementsSlot == Spec => SlotSpec
<1>1. Init => Slot!Init
  BY SlotInit
<1>2. SlotInv /\ SlotInv' /\ [Next]_vars => [Slot!Next]_(Slot!vars)
  BY SlotStep
<1>3. Spec => []SlotInv
  BY SlotInvariant
<1>. QED BY <1>1, <1>2, <1>3, PTL DEF Spec, SlotSpec, Slot!Spec

-----------------------------------------------------------------------------
(* Properties the slot invariant carries.                                  *)

\* No step changes the outcome, the Stop or the cause of a Round that ended.
THEOREM EndingIsFinalHolds == Spec => EndingIsFinal
<1>1. ASSUME SlotInv, [Next]_vars, NEW r \in Round, Ended(r)
      PROVE  /\ roundState'[r] = roundState[r]
             /\ stopRequested'[r] = stopRequested[r]
             /\ breach'[r] = breach[r]
  <2>. roundState[r] \notin OpenStates /\ roundState[r] # "unclaimed"
    BY <1>1 DEF Ended, EndedStates, OpenStates
  <2>. USE DEF SlotInv, TypeOK, Open, stopVars, OpenStates
  <2>1. CASE OwnerTicketStep \/ UNCHANGED vars
    BY <2>1 DEF OwnerTicketStep, ChangeTicketStatus, AcceptTicket,
        RequestTicketRework, SetAssignee, UpdateTicket, ArchiveTicket,
        RestoreTicket, vars
  <2>2. CASE OwnerRoundStep
    BY <1>1, <2>2 DEF OwnerRoundStep, RequestStop, AttestCessation, AnswerQuestion,
        DecidePermission, DecideAsk
  <2>3. CASE CredentialStep
    BY <1>1, <2>3 DEF CredentialStep, PairRunner, RevokeRunner, RegisterRunner,
        RunnerHeartbeat, HealthWindowPasses, EnforceRoundLimits
  <2>4. CASE ClaimStep
    BY <1>1, <2>4 DEF ClaimStep, AuthenticateClaim, ClaimNothing, ClaimWork
  <2>5. ASSUME NEW rn \in Runner, NEW q \in Round, Event(rn, q)
        PROVE  /\ roundState'[r] = roundState[r]
               /\ stopRequested'[r] = stopRequested[r]
               /\ breach'[r] = breach[r]
    <3>1. q # r
      BY <2>5 DEF Event, Reports, ExecutionStarted, ProgressOrUsage, Delivered,
          StopConfirmed, Failed, Interrupted, RaiseAsk, Resumed, CheckAuthority,
          Reconcile
    <3>2. roundState'[r] = roundState[r]
      BY <1>1, <2>5, <3>1 DEF Event, ExecutionStarted, ProgressOrUsage, Delivered,
          StopConfirmed, Failed, Interrupted, EndRound, RaiseAsk, Resumed,
          CheckAuthority, Reconcile
    <3>3. stopRequested'[r] = stopRequested[r] /\ breach'[r] = breach[r]
      BY <1>1, <2>5, <3>1 DEF Event, ExecutionStarted, ProgressOrUsage, Delivered,
          StopConfirmed, Failed, Interrupted, EndRound, RaiseAsk, Resumed,
          CheckAuthority, Reconcile, EnforceRoundLimits
    <3>. QED BY <3>2, <3>3
  <2>. QED BY <1>1, <2>1, <2>2, <2>3, <2>4, <2>5 DEF Next, EventStep
<1>2. SlotInv /\ [Next]_vars
        => [\A r \in Round : Ended(r) =>
                /\ roundState'[r] = roundState[r]
                /\ stopRequested'[r] = stopRequested[r]
                /\ breach'[r] = breach[r]]_vars
  BY <1>1
<1>. QED BY <1>2, SlotInvariant, PTL DEF Spec, EndingIsFinal

\* While a Round is open, a step changes its Ticket only in Status and only
\* with the Round's own state.
THEOREM OnlyItsRoundMovesTheTicketHolds == Spec => OnlyItsRoundMovesTheTicket
<1>. DEFINE Kept(r) == LET t == roundTicket[r] IN
                /\ archived'[t] = archived[t]
                /\ assignee'[t] = assignee[t]
                /\ inputs'[t] = inputs[t]
                /\ status'[t] # status[t] => roundState'[r] # roundState[r]
<1>1. ASSUME SlotInv, [Next]_vars, NEW r \in Round, Open(r) PROVE Kept(r)
  <2>1. CASE OwnerTicketStep
    <3>1. \E t \in Ticket : /\ t # roundTicket[r]
                          /\ \A u \in Ticket \ {t} : /\ status'[u] = status[u]
                                                     /\ archived'[u] = archived[u]
                                                     /\ assignee'[u] = assignee[u]
                                                     /\ inputs'[u] = inputs[u]
      BY <1>1, <2>1 DEF OwnerTicketStep, ChangeTicketStatus, AcceptTicket,
          RequestTicketRework, SetAssignee, UpdateTicket, ArchiveTicket,
          RestoreTicket, MoveTicket, Mutable, HasOpenRound, RoundsOf, SlotInv, TypeOK
    <3>. QED BY <1>1, <3>1 DEF SlotInv, OpenRoundHoldsItsTicket
  <2>2. CASE OwnerRoundStep \/ EventStep
    <3>1. ASSUME NEW q \in Round, NEW target, Open(q),
                 roundState'[q] # roundState[q], MoveHeldTicket(q, target)
          PROVE  Kept(r)
      <4>1. q = r
        BY <1>1, <3>1 DEF SlotInv, OneOpenRound
      <4>. QED BY <3>1, <4>1 DEF MoveHeldTicket, MoveTicket
    <3>2. ASSUME UNCHANGED ticketVars PROVE Kept(r)
      BY <3>2 DEF ticketVars
    <3>3. ASSUME NEW q \in Round, AttestCessation(q) PROVE Kept(r)
      BY <1>1, <3>3, <3>1 DEF AttestCessation, SlotInv, TypeOK, Open, OpenStates
    <3>4. ASSUME NEW rn \in Runner, NEW q \in Round, Event(rn, q) PROVE Kept(r)
      <4>. USE <1>1 DEF SlotInv, TypeOK, Open, OpenStates, Reports
      <4>1. CASE ExecutionStarted(rn, q)
        BY <4>1, <3>1 DEF ExecutionStarted
      <4>2. CASE Delivered(rn, q)
        BY <4>2, <3>1 DEF Delivered
      <4>3. CASE StopConfirmed(rn, q)
        BY <4>3, <3>1 DEF StopConfirmed, EndRound
      <4>4. CASE Failed(rn, q) \/ Interrupted(rn, q)
        BY <4>4, <3>1 DEF Failed, Interrupted, EndRound
      <4>5. ASSUME NEW a \in Ask, NEW kind, RaiseAsk(rn, q, a, kind) PROVE Kept(r)
        BY <4>5, <3>1 DEF RaiseAsk
      <4>6. ASSUME NEW a \in Ask, Resumed(rn, q, a) PROVE Kept(r)
        BY <4>6, <3>1 DEF Resumed
      <4>7. CASE \/ ProgressOrUsage(rn, q)
                 \/ CheckAuthority(rn, q)
                 \/ \E held \in {"nothing", "running", "stopped", "unknown"} :
                        Reconcile(rn, q, held)
        BY <4>7, <3>2 DEF ProgressOrUsage, CheckAuthority, Reconcile
      <4>. QED BY <3>4, <4>1, <4>2, <4>3, <4>4, <4>5, <4>6, <4>7 DEF Event
    <3>5. ASSUME \/ \E q \in Round : RequestStop(q)
                 \/ \E a \in Ask : \E from, decision : DecideAsk(a, from, decision)
          PROVE  Kept(r)
      BY <3>5, <3>2 DEF RequestStop, DecideAsk
    <3>. HIDE DEF Kept
    <3>. QED BY <2>2, <3>3, <3>4, <3>5 DEF OwnerRoundStep, EventStep,
                                           AnswerQuestion, DecidePermission
  <2>3. CASE CredentialStep \/ ClaimStep \/ UNCHANGED vars
    BY <2>3 DEF CredentialStep, PairRunner, RevokeRunner, RegisterRunner,
        RunnerHeartbeat, HealthWindowPasses, ClaimStep, AuthenticateClaim,
        ClaimNothing, ClaimWork, vars, ticketVars
  <2>. QED BY <1>1, <2>1, <2>2, <2>3 DEF Next
<1>2. SlotInv /\ [Next]_vars => [\A r \in Round : Open(r) => Kept(r)]_vars
  BY <1>1
<1>. QED BY <1>2, SlotInvariant, PTL DEF Spec, OnlyItsRoundMovesTheTicket

-----------------------------------------------------------------------------
(* The outcome of a Round whose Stop a limit asked for.                    *)

\* A Round is Stopped only after a Stop that no technical limit requested.
THEOREM FirstCauseHolds == Spec => []FirstCauseNamesTheOutcome
<1>1. Init => FirstCauseNamesTheOutcome
  BY DEF Init, FirstCauseNamesTheOutcome
<1>2. ASSUME SlotInv, FirstCauseNamesTheOutcome, [Next]_vars
      PROVE  FirstCauseNamesTheOutcome'
  <2>. USE <1>2 DEF FirstCauseNamesTheOutcome, SlotInv, TypeOK, stopVars
  <2>1. CASE OwnerTicketStep \/ UNCHANGED vars
    BY <2>1 DEF OwnerTicketStep, ChangeTicketStatus, AcceptTicket,
        RequestTicketRework, SetAssignee, UpdateTicket, ArchiveTicket,
        RestoreTicket, vars
  <2>2. CASE OwnerRoundStep
    BY <2>2 DEF OwnerRoundStep, RequestStop, AttestCessation, AnswerQuestion,
        DecidePermission, DecideAsk, Open, OpenStates
  <2>3. CASE CredentialStep
    BY <2>3 DEF CredentialStep, PairRunner, RevokeRunner, RegisterRunner,
        RunnerHeartbeat, HealthWindowPasses, EnforceRoundLimits
  <2>4. CASE ClaimStep
    BY <2>4 DEF ClaimStep, AuthenticateClaim, ClaimNothing, ClaimWork
  <2>5. ASSUME NEW rn \in Runner, NEW q \in Round, Event(rn, q)
        PROVE  FirstCauseNamesTheOutcome'
    <3>1. CASE ProgressOrUsage(rn, q) \/ CheckAuthority(rn, q)
      BY <3>1 DEF ProgressOrUsage, CheckAuthority, EnforceRoundLimits, Reports
    <3>2. ASSUME NEW a \in Ask, Resumed(rn, q, a)
          PROVE  FirstCauseNamesTheOutcome'
      BY <3>2 DEF Resumed, EnforceRoundLimits, Reports
    <3>3. CASE StopConfirmed(rn, q)
      BY <3>3 DEF StopConfirmed, EndRound, Reports
    <3>4. CASE ExecutionStarted(rn, q) \/ Delivered(rn, q) \/ Failed(rn, q)
               \/ Interrupted(rn, q)
      BY <3>4 DEF ExecutionStarted, Delivered, Failed, Interrupted, EndRound
    <3>5. ASSUME \/ \E a \in Ask, kind \in {"asked", "requested"} :
                        RaiseAsk(rn, q, a, kind)
                 \/ \E held \in {"nothing", "running", "stopped", "unknown"} :
                        Reconcile(rn, q, held)
          PROVE  FirstCauseNamesTheOutcome'
      BY <3>5 DEF RaiseAsk, Reconcile
    <3>. QED BY <2>5, <3>1, <3>2, <3>3, <3>4, <3>5 DEF Event
  <2>. QED BY <2>1, <2>2, <2>3, <2>4, <2>5 DEF Next, EventStep
<1>. QED BY <1>1, <1>2, SlotInvariant, PTL DEF Spec

-----------------------------------------------------------------------------
(* The Reconcile flag, the claim epochs, the asks and the inputs.          *)

\* A Round its holder lost track of stays flagged until the holder says it runs.
THEOREM UnknownStaysFlagged == Spec => []UnknownExecutionStaysFlagged
<1>1. Init => UnknownExecutionStaysFlagged
  BY DEF Init, UnknownExecutionStaysFlagged
<1>2. ASSUME SlotInv, UnknownExecutionStaysFlagged, [Next]_vars
      PROVE  UnknownExecutionStaysFlagged'
  <2>. USE <1>2 DEF UnknownExecutionStaysFlagged, Open, reconcileVars
  <2>1. CASE OwnerTicketStep \/ UNCHANGED vars
    BY <2>1 DEF OwnerTicketStep, ChangeTicketStatus, AcceptTicket,
        RequestTicketRework, SetAssignee, UpdateTicket, ArchiveTicket,
        RestoreTicket, vars
  <2>2. CASE OwnerRoundStep
    BY <2>2 DEF OwnerRoundStep, RequestStop, AttestCessation, AnswerQuestion,
        DecidePermission, DecideAsk, OpenStates, SlotInv, TypeOK
  <2>3. CASE CredentialStep
    BY <2>3 DEF CredentialStep, PairRunner, RevokeRunner, RegisterRunner,
        RunnerHeartbeat, HealthWindowPasses, FlagOpenRound
  <2>4. CASE ClaimStep
    BY <2>4 DEF ClaimStep, AuthenticateClaim, ClaimNothing, ClaimWork, SlotInv,
        TypeOK, Bookkeeping
  <2>5. ASSUME NEW rn \in Runner, NEW q \in Round, Event(rn, q)
        PROVE  UnknownExecutionStaysFlagged'
    <3>1. ASSUME NEW held \in {"nothing", "running", "stopped", "unknown"},
                 Reconcile(rn, q, held)
          PROVE  UnknownExecutionStaysFlagged'
      BY <3>1 DEF Reconcile, StillRequired, SlotInv, TypeOK
    <3>2. ASSUME \/ ExecutionStarted(rn, q)
                 \/ ProgressOrUsage(rn, q)
                 \/ Delivered(rn, q)
                 \/ StopConfirmed(rn, q)
                 \/ Failed(rn, q)
                 \/ Interrupted(rn, q)
                 \/ \E a \in Ask, kind \in {"asked", "requested"} :
                        RaiseAsk(rn, q, a, kind)
                 \/ \E a \in Ask : Resumed(rn, q, a)
                 \/ CheckAuthority(rn, q)
          PROVE  UnknownExecutionStaysFlagged'
      <4>1. UNCHANGED reconcileVars /\ (Open(q)' => Open(q))
            /\ \A r \in Round \ {q} : roundState'[r] = roundState[r]
        BY <3>2 DEF ExecutionStarted, ProgressOrUsage, Delivered, StopConfirmed,
            Failed, Interrupted, EndRound, RaiseAsk, Resumed, CheckAuthority,
            Reports, OpenStates, SlotInv, TypeOK
      <4>. QED BY <4>1
    <3>. QED BY <2>5, <3>1, <3>2 DEF Event
  <2>. QED BY <2>1, <2>2, <2>3, <2>4, <2>5 DEF Next, EventStep
<1>. QED BY <1>1, <1>2, SlotInvariant, PTL DEF Spec

-----------------------------------------------------------------------------
(* The asks.                                                               *)

\* What the actions that leave the asks' side alone have in common.
LEMMA AsksUntouched ==
    ASSUME SlotInv, WaitsOnItsOwnAsk, UNCHANGED <<askVars, waitingOn>>,
           \A r \in Round :
                /\ roundState[r] = "waiting_for_input"
                        <=> roundState'[r] = "waiting_for_input"
                /\ Open(r)' => Open(r) \/ roundState[r] = "unclaimed"
    PROVE  WaitsOnItsOwnAsk'
<1>1. /\ askRound' = askRound /\ askState' = askState /\ waitingOn' = waitingOn
  BY DEF askVars
<1>2. \A a \in Ask : askState[a] \in {"asked", "requested"} =>
            askRound[a] \in Round /\ roundState[askRound[a]] # "unclaimed"
  BY DEF SlotInv, Bookkeeping
<1>. QED BY <1>1, <1>2 DEF WaitsOnItsOwnAsk

\* An ending, by the holder or by the Owner's attestation, closes the wait.
LEMMA EndingClosesTheWait ==
    ASSUME SlotInv, WaitsOnItsOwnAsk, UNCHANGED askVars,
           NEW q \in Round, NEW outcome \in EndedStates,
           roundState' = [roundState EXCEPT ![q] = outcome],
           waitingOn' = [waitingOn EXCEPT ![q] = NoAsk]
    PROVE  WaitsOnItsOwnAsk'
<1>1. /\ ~Open(q)'
      /\ roundState'[q] # "waiting_for_input" /\ waitingOn'[q] = NoAsk
      /\ \A r \in Round \ {q} : /\ roundState'[r] = roundState[r]
                              /\ waitingOn'[r] = waitingOn[r]
      /\ askRound' = askRound /\ askState' = askState
  BY DEF SlotInv, TypeOK, Open, OpenStates, EndedStates, askVars
<1>2. \A a \in Ask : askState[a] \in {"asked", "requested"} => askRound[a] \in Round
  BY DEF SlotInv, Bookkeeping
<1>. QED BY <1>1, <1>2 DEF WaitsOnItsOwnAsk, Open

\* A Round waits exactly on its own ask, and on the one still to be decided.
THEOREM WaitsOnItsOwnAskHolds == Spec => []WaitsOnItsOwnAsk
<1>1. Init => WaitsOnItsOwnAsk
  BY DEF Init, WaitsOnItsOwnAsk
<1>2. ASSUME SlotInv, WaitsOnItsOwnAsk, [Next]_vars
      PROVE  WaitsOnItsOwnAsk'
  <2>1. ASSUME OwnerTicketStep \/ CredentialStep \/ ClaimStep \/ UNCHANGED vars
        PROVE  WaitsOnItsOwnAsk'
    <3>1. UNCHANGED <<askVars, waitingOn>>
      BY <2>1 DEF OwnerTicketStep, ChangeTicketStatus, AcceptTicket,
          RequestTicketRework, SetAssignee, UpdateTicket, ArchiveTicket,
          RestoreTicket, CredentialStep, PairRunner, RevokeRunner,
          RegisterRunner, RunnerHeartbeat, HealthWindowPasses, ClaimStep,
          AuthenticateClaim, ClaimNothing, ClaimWork, vars
    <3>2. \/ roundState' = roundState
          \/ \E r \in Round : /\ roundState[r] = "unclaimed"
                             /\ roundState' = [roundState EXCEPT ![r] = "claimed"]
      BY <2>1 DEF OwnerTicketStep, ChangeTicketStatus, AcceptTicket,
          RequestTicketRework, SetAssignee, UpdateTicket, ArchiveTicket,
          RestoreTicket, CredentialStep, PairRunner, RevokeRunner,
          RegisterRunner, RunnerHeartbeat, HealthWindowPasses, ClaimStep,
          AuthenticateClaim, ClaimNothing, ClaimWork, vars
    <3>3. \A r \in Round :
            /\ roundState[r] = "waiting_for_input"
                    <=> roundState'[r] = "waiting_for_input"
            /\ Open(r)' => Open(r) \/ roundState[r] = "unclaimed"
      BY <1>2, <3>2 DEF SlotInv, TypeOK, Open
    <3>. QED BY <1>2, <3>1, <3>3, AsksUntouched
  <2>2. ASSUME NEW r \in Round, RequestStop(r)
        PROVE  WaitsOnItsOwnAsk'
    <3>1. UNCHANGED <<askVars, waitingOn>> /\ roundState' = roundState
      BY <2>2 DEF RequestStop
    <3>. QED BY <1>2, <3>1, AsksUntouched DEF Open
  <2>3. ASSUME NEW r \in Round, AttestCessation(r)
        PROVE  WaitsOnItsOwnAsk'
    <3>1. /\ UNCHANGED askVars
          /\ "interrupted" \in EndedStates
          /\ roundState' = [roundState EXCEPT ![r] = "interrupted"]
          /\ waitingOn' = [waitingOn EXCEPT ![r] = NoAsk]
      BY <2>3 DEF AttestCessation, EndedStates
    <3>. QED BY <1>2, <3>1, EndingClosesTheWait
  <2>4. ASSUME NEW a \in Ask, AnswerQuestion(a) \/ (\E d \in Decided : DecidePermission(a, d))
        PROVE  WaitsOnItsOwnAsk'
    <3>1. /\ askState[a] \in {"asked", "requested"}
          /\ askState'[a] \in Decided
          /\ \A b \in Ask \ {a} : askState'[b] = askState[b]
          /\ askRound' = askRound
          /\ waitingOn' = waitingOn
          /\ roundState' = roundState
      BY <1>2, <2>4 DEF AnswerQuestion, DecidePermission, DecideAsk, Decided,
          SlotInv, TypeOK
    <3>. QED BY <1>2, <3>1 DEF WaitsOnItsOwnAsk, Open, Decided
  <2>5. ASSUME NEW rn \in Runner, NEW q \in Round, Event(rn, q)
        PROVE  WaitsOnItsOwnAsk'
    <3>1. ASSUME \/ ExecutionStarted(rn, q)
                 \/ ProgressOrUsage(rn, q)
                 \/ Delivered(rn, q)
                 \/ CheckAuthority(rn, q)
                 \/ \E held \in {"nothing", "running", "stopped", "unknown"} :
                        Reconcile(rn, q, held)
          PROVE  WaitsOnItsOwnAsk'
      <4>1. UNCHANGED <<askVars, waitingOn>>
        BY <3>1 DEF ExecutionStarted, ProgressOrUsage, Delivered, CheckAuthority,
            Reconcile
      <4>2. \A r \in Round :
              /\ roundState[r] = "waiting_for_input"
                      <=> roundState'[r] = "waiting_for_input"
              /\ Open(r)' => Open(r) \/ roundState[r] = "unclaimed"
        BY <1>2, <3>1 DEF ExecutionStarted, ProgressOrUsage, Delivered,
            CheckAuthority, Reconcile, Reports, Open, OpenStates, SlotInv, TypeOK
      <4>. QED BY <1>2, <4>1, <4>2, AsksUntouched
    <3>2. ASSUME StopConfirmed(rn, q) \/ Failed(rn, q) \/ Interrupted(rn, q)
          PROVE  WaitsOnItsOwnAsk'
      <4>1. PICK outcome \in EndedStates :
              /\ UNCHANGED askVars
              /\ roundState' = [roundState EXCEPT ![q] = outcome]
              /\ waitingOn' = [waitingOn EXCEPT ![q] = NoAsk]
        BY <3>2 DEF StopConfirmed, Failed, Interrupted, EndRound, EndedStates
      <4>. QED BY <1>2, <4>1, EndingClosesTheWait
    <3>3. ASSUME NEW a \in Ask, NEW kind \in {"asked", "requested"},
                 RaiseAsk(rn, q, a, kind)
          PROVE  WaitsOnItsOwnAsk'
      <4>1. /\ roundState[q] = "running" /\ askState[a] = "unraised"
            /\ roundState'[q] = "waiting_for_input" /\ waitingOn'[q] = a
            /\ askRound'[a] = q
            /\ \A r \in Round \ {q} : /\ roundState'[r] = roundState[r]
                                    /\ waitingOn'[r] = waitingOn[r]
            /\ \A b \in Ask \ {a} : /\ askRound'[b] = askRound[b]
                                  /\ askState'[b] = askState[b]
        BY <1>2, <3>3 DEF RaiseAsk, Reports, SlotInv, TypeOK
      <4>2. a # NoAsk /\ Open(q) /\ waitingOn[q] = NoAsk
        BY <1>2, <4>1, GalleyAssumption DEF Open, OpenStates, WaitsOnItsOwnAsk
      <4>3. /\ \A b \in Ask : askState[b] # "unraised" => askRound[b] \in Round
            /\ \A r \in Round : waitingOn[r] \in Ask \cup {NoAsk}
        BY <1>2 DEF SlotInv, Bookkeeping, TypeOK
      <4>4. \A r \in Round \ {q} : waitingOn[r] # NoAsk => waitingOn[r] # a
        BY <4>1, <1>2, GalleyAssumption DEF WaitsOnItsOwnAsk, SlotInv, Bookkeeping
      <4>. QED BY <1>2, <4>1, <4>2, <4>3, <4>4, GalleyAssumption
               DEF WaitsOnItsOwnAsk, Open
    <3>4. ASSUME NEW a \in Ask, Resumed(rn, q, a)
          PROVE  WaitsOnItsOwnAsk'
      <4>1. /\ waitingOn[q] = a /\ askState[a] \in {"answered", "approved"}
            /\ Open(q)
            /\ roundState'[q] = "running" /\ waitingOn'[q] = NoAsk
            /\ \A r \in Round \ {q} : /\ roundState'[r] = roundState[r]
                                    /\ waitingOn'[r] = waitingOn[r]
            /\ askRound' = askRound /\ askState' = askState
        BY <1>2, <3>4 DEF Resumed, Reports, SlotInv, TypeOK, askVars, Open, OpenStates
      <4>2. \A b \in Ask : askState[b] # "unraised" => askRound[b] \in Round
        BY <1>2 DEF SlotInv, Bookkeeping
      <4>. QED BY <1>2, <4>1, <4>2 DEF WaitsOnItsOwnAsk, Open
    <3>. QED BY <2>5, <3>1, <3>2, <3>3, <3>4 DEF Event
  <2>. QED BY <1>2, <2>1, <2>2, <2>3, <2>4, <2>5
           DEF Next, EventStep, OwnerRoundStep
<1>. QED BY <1>1, <1>2, SlotInvariant, PTL DEF Spec

\* A Round asked to stop while it waits undecided only ever ends.
THEOREM StopOutranksTheAnswerHolds == Spec => StopOutranksTheAnswer
<1>1. ASSUME SlotInv, WaitsOnItsOwnAsk, [Next]_vars,
             NEW r \in Round, stopRequested[r], WaitsUndecided(r)
      PROVE  (stopRequested[r] /\ WaitsUndecided(r))' \/ Ended(r)'
  <2>1. /\ Open(r) /\ roundState[r] = "waiting_for_input"
        /\ waitingOn[r] \in Ask
        /\ askRound[waitingOn[r]] = r
        /\ askState[waitingOn[r]] \in {"asked", "requested"}
    BY <1>1 DEF WaitsUndecided, Open, OpenStates, WaitsOnItsOwnAsk, SlotInv, TypeOK
  <2>2. ASSUME UNCHANGED <<roundState, waitingOn, askState>>, stopRequested'[r]
        PROVE  (stopRequested[r] /\ WaitsUndecided(r))'
    BY <1>1, <2>2 DEF WaitsUndecided
  <2>3. CASE OwnerTicketStep \/ CredentialStep \/ UNCHANGED vars
    <3>1. UNCHANGED <<roundState, waitingOn, askState>>
      BY <2>3 DEF OwnerTicketStep, ChangeTicketStatus, AcceptTicket,
          RequestTicketRework, SetAssignee, UpdateTicket, ArchiveTicket,
          RestoreTicket, CredentialStep, PairRunner, RevokeRunner, RegisterRunner,
          RunnerHeartbeat, HealthWindowPasses, vars, askVars
    <3>2. stopRequested'[r]
      BY <1>1, <2>3 DEF OwnerTicketStep, ChangeTicketStatus, AcceptTicket,
          RequestTicketRework, SetAssignee, UpdateTicket, ArchiveTicket,
          RestoreTicket, CredentialStep, PairRunner, RevokeRunner, RegisterRunner,
          RunnerHeartbeat, HealthWindowPasses, vars, stopVars, EnforceRoundLimits,
          SlotInv, TypeOK
    <3>. QED BY <2>2, <3>1, <3>2
  <2>4. CASE OwnerRoundStep
    <3>1. ASSUME NEW q \in Round, RequestStop(q)
          PROVE  (stopRequested[r] /\ WaitsUndecided(r))'
      BY <1>1, <2>2, <3>1 DEF RequestStop, askVars, SlotInv, TypeOK
    <3>2. ASSUME NEW q \in Round, AttestCessation(q)
          PROVE  (stopRequested[r] /\ WaitsUndecided(r))' \/ Ended(r)'
      BY <1>1, <3>2 DEF AttestCessation, askVars, stopVars, WaitsUndecided, Ended,
          EndedStates, SlotInv, TypeOK
    <3>3. ASSUME NEW a \in Ask, NEW from, NEW decision, DecideAsk(a, from, decision)
          PROVE  (stopRequested[r] /\ WaitsUndecided(r))'
      <4>1. a # waitingOn[r]
        BY <1>1, <2>1, <3>3 DEF DecideAsk
      <4>. QED BY <1>1, <2>1, <3>3, <4>1 DEF DecideAsk, stopVars, WaitsUndecided,
                 SlotInv, TypeOK
    <3>. QED BY <2>4, <3>1, <3>2, <3>3
             DEF OwnerRoundStep, AnswerQuestion, DecidePermission
  <2>5. CASE ClaimStep
    BY <1>1, <2>1, <2>5 DEF ClaimStep, AuthenticateClaim, ClaimNothing, ClaimWork,
        WaitsUndecided, askVars, stopVars, SlotInv, TypeOK
  <2>6. ASSUME NEW rn \in Runner, NEW q \in Round, Event(rn, q)
        PROVE  (stopRequested[r] /\ WaitsUndecided(r))' \/ Ended(r)'
    <3>1. q = r
      BY <1>1, <2>1, <2>6 DEF Event, ExecutionStarted, ProgressOrUsage, Delivered,
          StopConfirmed, Failed, Interrupted, RaiseAsk, Resumed, CheckAuthority,
          Reconcile, Reports, Open, OpenStates, SlotInv, OneOpenRound
    <3>2. CASE StopConfirmed(rn, q) \/ Interrupted(rn, q)
      BY <1>1, <3>1, <3>2 DEF StopConfirmed, Interrupted, EndRound, Ended,
          EndedStates, SlotInv, TypeOK
    <3>3. ASSUME NEW held \in {"nothing", "running", "stopped", "unknown"},
                 Reconcile(rn, q, held)
          PROVE  (stopRequested[r] /\ WaitsUndecided(r))'
      BY <1>1, <2>2, <3>3 DEF Reconcile, stopVars, askVars
    <3>. QED BY <2>1, <2>6, <3>1, <3>2, <3>3 DEF Event, ExecutionStarted,
              ProgressOrUsage, Delivered, Failed, RaiseAsk, Resumed,
              CheckAuthority, Reports
  <2>. QED BY <1>1, <2>3, <2>4, <2>5, <2>6 DEF Next, EventStep
<1>2. ASSUME SlotInv, WaitsOnItsOwnAsk, [Next]_vars
      PROVE  [\A r \in Round : stopRequested[r] /\ WaitsUndecided(r)
                => (stopRequested[r] /\ WaitsUndecided(r))' \/ Ended(r)']_vars
  BY <1>1, <1>2
<1>. QED BY <1>2, SlotInvariant, WaitsOnItsOwnAskHolds, PTL
         DEF Spec, StopOutranksTheAnswer

-----------------------------------------------------------------------------
(* The inputs.                                                             *)

\* A Ticket that asks for Agent work, or is being worked on, has its inputs.
THEOREM ReadyAgentHasItsInputsHolds == Spec => []ReadyAgentHasItsInputs
<1>1. Init => ReadyAgentHasItsInputs
  BY DEF Init, ReadyAgentHasItsInputs, AgentReady, AgentKinds, HasOpenRound,
         RoundsOf, Open, OpenStates
<1>2. ASSUME SlotInv, ReadyAgentHasItsInputs, [Next]_vars
      PROVE  ReadyAgentHasItsInputs'
  <2>1. ASSUME UNCHANGED ticketVars,
               \A t \in Ticket : HasOpenRound(t)' => HasOpenRound(t)
        PROVE  ReadyAgentHasItsInputs'
    BY <1>2, <2>1 DEF ReadyAgentHasItsInputs, ticketVars
  <2>2. ASSUME UNCHANGED <<archived, assignee, inputs>>,
               NEW t \in Ticket, NEW target \in Statuses,
               status' = [status EXCEPT ![t] = target],
               AgentReady(target, assignee[t], inputs[t]),
               \A u \in Ticket : HasOpenRound(u)' => HasOpenRound(u)
        PROVE  ReadyAgentHasItsInputs'
    BY <1>2, <2>2 DEF ReadyAgentHasItsInputs, SlotInv, TypeOK
  <2>3. ASSUME UNCHANGED <<roundState, roundTicket>>
        PROVE  \A t \in Ticket : HasOpenRound(t)' <=> HasOpenRound(t)
    BY <2>3 DEF HasOpenRound, RoundsOf, Open
  <2>4. CASE OwnerTicketStep
    <3>1. \A u \in Ticket : HasOpenRound(u)' <=> HasOpenRound(u)
      BY <2>3, <2>4 DEF OwnerTicketStep, ChangeTicketStatus, AcceptTicket,
          RequestTicketRework, SetAssignee, UpdateTicket, ArchiveTicket,
          RestoreTicket, claimVars
    <3>2. PICK t \in Ticket :
            \/ \E target \in Statuses : ChangeTicketStatus(t, target)
            \/ AcceptTicket(t)
            \/ RequestTicketRework(t)
            \/ \E kind \in Assignees : SetAssignee(t, kind)
            \/ \E named, given \in SUBSET Inputs : UpdateTicket(t, named, given)
            \/ ArchiveTicket(t)
            \/ RestoreTicket(t)
      BY <2>4 DEF OwnerTicketStep
    <3>3. \A target \in Statuses : ChangeTicketStatus(t, target)
                => ReadyAgentHasItsInputs'
      BY <2>2, <3>1 DEF ChangeTicketStatus, PlainStatusChangeAllowed, MoveTicket
    <3>4. AcceptTicket(t) \/ RequestTicketRework(t) => ReadyAgentHasItsInputs'
      BY <2>2, <3>1 DEF AcceptTicket, RequestTicketRework, MoveTicket, AgentReady,
          Statuses
    <3>5. ASSUME NEW kind \in Assignees, SetAssignee(t, kind)
          PROVE  ReadyAgentHasItsInputs'
      BY <1>2, <3>1, <3>5 DEF SetAssignee, Mutable, ReadyAgentHasItsInputs,
          SlotInv, TypeOK
    <3>6. ASSUME NEW named \in SUBSET Inputs, NEW given \in SUBSET Inputs,
                 UpdateTicket(t, named, given)
          PROVE  ReadyAgentHasItsInputs'
      <4>1. AgentReady(status'[t], assignee'[t], inputs'[t])
        BY <1>2, <3>6 DEF UpdateTicket, Mutable, TicketUpdateAllowed, AgentReady,
            ReadyAgentHasItsInputs, SlotInv, TypeOK
      <4>. QED BY <1>2, <3>1, <3>6, <4>1 DEF UpdateTicket, Mutable,
                 ReadyAgentHasItsInputs, SlotInv, TypeOK
    <3>7. ASSUME ArchiveTicket(t) \/ RestoreTicket(t)
          PROVE  ReadyAgentHasItsInputs'
      BY <1>2, <3>1, <3>7 DEF ArchiveTicket, RestoreTicket, AgentReady,
          ReadyAgentHasItsInputs, SlotInv, TypeOK
    <3>. QED BY <3>2, <3>3, <3>4, <3>5, <3>6, <3>7
  <2>5. CASE CredentialStep \/ UNCHANGED vars
    BY <2>1, <2>3, <2>5 DEF CredentialStep, PairRunner, RevokeRunner,
        RegisterRunner, RunnerHeartbeat, HealthWindowPasses, claimVars, vars
  <2>6. CASE ClaimStep
    <3>1. ASSUME NEW rn \in Runner, NEW t \in Ticket, NEW r \in Round,
                 NEW e \in 1..MaxEpoch, ClaimWork(rn, t, r, e)
          PROVE  ReadyAgentHasItsInputs'
      <4>1. /\ NeededInputs(assignee[t]) \subseteq inputs[t]
            /\ UNCHANGED ticketVars
        BY <3>1 DEF ClaimWork, AgentWorkRequested
      <4>2. \A u \in Ticket \ {t} : HasOpenRound(u)' => HasOpenRound(u)
        BY <1>2, <3>1 DEF ClaimWork, HasOpenRound, RoundsOf, Open, SlotInv, TypeOK
      <4>. QED BY <1>2, <4>1, <4>2 DEF ReadyAgentHasItsInputs, ticketVars
    <3>2. CASE AuthenticateClaim \/ \E rn \in Runner : ClaimNothing(rn)
      BY <2>1, <2>3, <3>2 DEF AuthenticateClaim, ClaimNothing, claimVars
    <3>. QED BY <2>6, <3>1, <3>2 DEF ClaimStep
  <2>7. CASE OwnerRoundStep
    <3>1. ASSUME NEW r \in Round, AttestCessation(r)
          PROVE  ReadyAgentHasItsInputs'
      <4>1. \A u \in Ticket : HasOpenRound(u)' => HasOpenRound(u)
        BY <1>2, <3>1 DEF AttestCessation, HasOpenRound, RoundsOf, Open, OpenStates,
            claimVars, SlotInv, TypeOK
      <4>2. /\ roundTicket[r] \in Ticket /\ "Blocked" \in Statuses
            /\ UNCHANGED <<archived, assignee, inputs>>
            /\ status' = [status EXCEPT ![roundTicket[r]] = "Blocked"]
        BY <1>2, <3>1 DEF AttestCessation, MoveHeldTicket, MoveTicket, Statuses,
            SlotInv, OpenRoundHoldsItsTicket
      <4>. QED BY <2>2, <4>1, <4>2 DEF AgentReady
    <3>2. CASE \/ \E r \in Round : RequestStop(r)
               \/ \E a \in Ask : \/ AnswerQuestion(a)
                                  \/ \E d \in Decided : DecidePermission(a, d)
      BY <2>1, <2>3, <3>2 DEF RequestStop, AnswerQuestion, DecidePermission,
          DecideAsk, claimVars
    <3>. QED BY <2>7, <3>1, <3>2 DEF OwnerRoundStep
  <2>8. ASSUME NEW rn \in Runner, NEW q \in Round, Event(rn, q)
        PROVE  ReadyAgentHasItsInputs'
    <3>1. roundTicket[q] \in Ticket /\ Open(q)
      BY <1>2, <2>8 DEF Event, ExecutionStarted, ProgressOrUsage, Delivered,
          StopConfirmed, Failed, Interrupted, RaiseAsk, Resumed, CheckAuthority,
          Reconcile, Reports, Open, OpenStates, SlotInv, OpenRoundHoldsItsTicket
    <3>2. \A u \in Ticket : HasOpenRound(u)' => HasOpenRound(u)
      <4>1. roundTicket' = roundTicket
        BY <2>8 DEF Event, ExecutionStarted, ProgressOrUsage, Delivered,
            StopConfirmed, Failed, Interrupted, EndRound, RaiseAsk, Resumed,
            CheckAuthority, Reconcile, claimVars
      <4>2. \A r \in Round \ {q} : roundState'[r] = roundState[r]
        BY <1>2, <2>8 DEF Event, ExecutionStarted, ProgressOrUsage, Delivered,
            StopConfirmed, Failed, Interrupted, EndRound, RaiseAsk, Resumed,
            CheckAuthority, Reconcile, SlotInv, TypeOK
      <4>. QED BY <3>1, <4>1, <4>2 DEF HasOpenRound, RoundsOf, Open
    <3>3. \/ UNCHANGED ticketVars
          \/ \E target \in Statuses \ {"Ready"} :
                MoveTicket(roundTicket[q], target)
      BY <2>8 DEF Event, ExecutionStarted, ProgressOrUsage, Delivered,
          StopConfirmed, Failed, Interrupted, EndRound, RaiseAsk, Resumed,
          CheckAuthority, Reconcile, MoveHeldTicket, Statuses
    <3>4. ASSUME NEW target \in Statuses \ {"Ready"},
                 MoveTicket(roundTicket[q], target)
          PROVE  ReadyAgentHasItsInputs'
      BY <2>2, <3>1, <3>2, <3>4 DEF MoveTicket, AgentReady
    <3>. QED BY <2>1, <3>2, <3>3, <3>4
  <2>. QED BY <1>2, <2>4, <2>5, <2>6, <2>7, <2>8 DEF Next, EventStep
<1>. QED BY <1>1, <1>2, SlotInvariant, PTL DEF Spec

=============================================================================
