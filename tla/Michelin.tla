------------------------------ MODULE Michelin ------------------------------
(***************************************************************************)
(* One Michelin process against Galley: the heartbeat loop, the claim loop, *)
(* the command loop, the Reconcile they share and the controlled engine    *)
(* that walks a script.  Every request may be lost, or be handled and its  *)
(* answer lost; the process may restart at any moment; the Owner acts      *)
(* meanwhile.  What Galley does with a request is the action of Galley     *)
(* that handles it, whole.                                                 *)
(*                                                                         *)
(* Left out: times and backoffs (a wait lasts as long as it likes), the    *)
(* status loop, acknowledgements of commands, wait and usage steps (they   *)
(* do what a delay and a progress step do), the feedback note after start, *)
(* and the grants behind an authority check.                               *)
(***************************************************************************)
EXTENDS Galley, Sequences

CONSTANTS
    Me,              \* the credential Michelin was given
    Script,          \* the kinds of the engine's steps; a step's number is its ask
    MaxRestarts,     \* bound on the process's restarts
    LateClaims,      \* may Galley handle a claim its sender did not live to hear?
    Lossy            \* the kinds of request that may be lost, or their answers

LastKinds == {"deliver", "fail", "interrupt", "hold"}
StepKinds == {"start", "progress", "ask", "act", "retry_act"} \cup LastKinds

\* The scripts Michelin starts with: one start, first, and what ends a script or
\* holds it only at its end.
ValidScript(script) ==
    /\ script \in Seq(StepKinds)
    /\ script # <<>> /\ script[1] = "start"
    /\ \A i \in 2..Len(script) : script[i] \in StepKinds \ {"start"}
    /\ \A i \in DOMAIN script : script[i] \in LastKinds => i = Len(script)

ASSUME MichelinAssumption ==
    /\ Me \in Runner
    /\ DOMAIN Script \subseteq Ask
    /\ ValidScript(Script)
    /\ MaxRestarts \in Nat
    /\ LateClaims \in BOOLEAN
    /\ Lossy \subseteq {"beat", "claim", "reconcile", "event", "check"}

VARIABLES
    registered, owed,      \* the Registration the loops share
    beat,                  \* Galley's answer on its way to the heartbeat loop
    rec,                   \* the Reconcile in flight
    claim, keyRound,       \* the claim being asked, the Round under its key
    held, engine,          \* the claimed Round and its engine
    dropped, stopSeen, inbox,
    recorded,              \* the event keys Galley recorded for the Round
    restarts

heartbeatVars == <<registered, owed, beat>>
claimLoopVars == <<claim, keyRound>>
heldVars == <<held, dropped, stopSeen, inbox>>
michelinVars == <<heartbeatVars, rec, claimLoopVars, heldVars, engine, recorded,
                  restarts>>
allVars == <<vars, michelinVars>>

NoReconcile == [belief |-> "none", stale |-> FALSE, answer |-> "none"]

Idle == [phase |-> "idle", step |-> 1, event |-> "none", gate |-> "closed",
         failed |-> FALSE, unsent |-> "none"]

Endings == {"delivered", "failed", "interrupted", "stop_confirmed"}
Events == Endings \cup {"start", "note", "performed", "answer_note", "ask",
                        "request", "resumed"}

MichelinTypeOK ==
    /\ registered \in BOOLEAN /\ owed \in BOOLEAN
    /\ beat \in {"none", "registered", "required", "fine"}
    /\ rec \in [belief : {"none", "nothing", "running", "stopped"},
                stale : BOOLEAN,
                answer : {"none", "null", "continue", "stop", "stop_confirmed",
                          "interrupted", "hold", "refused"}]
    /\ claim \in {"none", "asked"}
    /\ keyRound \in Round \cup {NoRound} /\ held \in Round \cup {NoRound}
    /\ engine \in [phase : {"idle", "step", "sending", "checking", "denied",
                            "waiting", "holding", "halted", "gone"},
                   step : 1..(Len(Script) + 1),
                   event : Events \cup {"none"},
                   gate : {"closed", "waiting", "open", "through"},
                   failed : BOOLEAN,
                   unsent : Events \cup {"none"}]
    /\ dropped \in BOOLEAN /\ stopSeen \in BOOLEAN
    /\ inbox \subseteq Ask
    /\ recorded \subseteq (1..(Len(Script) + 1)) \X Events
    /\ restarts \in 0..MaxRestarts

-----------------------------------------------------------------------------
Kind == IF engine.step \in DOMAIN Script THEN Script[engine.step] ELSE "end"

\* The engine's next states.
Sending(event) ==
    [engine EXCEPT !.phase = "sending", !.event = event, !.gate = "closed",
                   !.failed = FALSE]
InPhase(phase) == [Idle EXCEPT !.phase = phase, !.step = engine.step]
NextStep == [Idle EXCEPT !.phase = "step", !.step = engine.step + 1]
Gone == [engine EXCEPT !.phase = "gone"]

\* onHalted: the engine reports itself stopped once it confirms a Stop or gave
\* up on a report, and never takes that back.
Ceased ==
    \/ engine.phase = "halted"
    \/ engine.unsent # "none"
    \/ engine.event = "stop_confirmed"
    \/ engine.gate = "through"

\* Raising the flag outdates the Reconcile in flight.
RaiseReconcile ==
    /\ owed' = TRUE
    /\ rec' = IF rec.belief = "none" THEN rec ELSE [rec EXCEPT !.stale = TRUE]

-----------------------------------------------------------------------------
(* The heartbeat loop: register, then a heartbeat each interval.           *)

Register ==
    /\ ~registered /\ beat = "none" /\ runner = Me
    /\ RegisterRunner
    /\ beat' = "registered"
    /\ UNCHANGED <<registered, owed, rec, claimLoopVars, heldVars, engine, recorded,
                   restarts>>

Heartbeat ==
    /\ registered /\ beat = "none" /\ runner = Me
    /\ RunnerHeartbeat
    /\ beat' = IF \E r \in Round : Open(r) /\ reconcileRequired'[r]
               THEN "required" ELSE "fine"
    /\ UNCHANGED <<registered, owed, rec, claimLoopVars, heldVars, engine, recorded,
                   restarts>>

BeatAnswered ==
    /\ beat # "none"
    /\ beat' = "none"
    /\ registered' = TRUE
    /\ IF beat = "fine" THEN UNCHANGED <<owed, rec>> ELSE RaiseReconcile
    /\ UNCHANGED <<vars, claimLoopVars, heldVars, engine, recorded, restarts>>

\* No answer: a heartbeat's may hide a gap, a registration is made again.
BeatLost ==
    /\ "beat" \in Lossy
    /\ beat' = "none"
    /\ IF registered THEN RaiseReconcile ELSE UNCHANGED <<owed, rec>>
    /\ UNCHANGED <<vars, registered, claimLoopVars, heldVars, engine, recorded,
                   restarts>>

\* 401: the credential was revoked.
BeatRefused ==
    /\ runner # Me /\ beat = "none"
    /\ registered' = FALSE
    /\ IF registered THEN RaiseReconcile ELSE UNCHANGED <<owed, rec>>
    /\ UNCHANGED <<vars, beat, claimLoopVars, heldVars, engine, recorded, restarts>>

-----------------------------------------------------------------------------
(* The Reconcile the loops share: one in flight, the held Round and what    *)
(* its engine believes read when it starts.                                *)

\* Asked by the claim loop holding nothing, by the watch and the gate while a
\* Round is held, and by a halted engine whether it is owed or not.
ReconcileAsked ==
    \/ owed /\ held # NoRound
    \/ owed /\ held = NoRound /\ registered /\ claim = "none"
    \/ engine.phase = "halted"

StartReconcile ==
    /\ rec.belief = "none"
    /\ ReconcileAsked
    /\ rec' = [NoReconcile EXCEPT !.belief =
                    IF held = NoRound THEN "nothing"
                    ELSE IF Ceased THEN "stopped" ELSE "running"]
    /\ UNCHANGED <<vars, heartbeatVars, claimLoopVars, heldVars, engine, recorded,
                   restarts>>

\* Mutant: what the runner believes is echoed for a disposition.
DispositionEchoed(belief, stop) == IF stop THEN "stop" ELSE belief

Disposition(belief, stop) ==
    CASE belief = "running" -> IF stop THEN "stop" ELSE "continue"
      [] belief = "stopped" -> IF stop THEN "stop_confirmed" ELSE "interrupted"
      [] OTHER -> "hold"

\* Mutant: a Reconcile that names no Round is answered with none.
HandleReconcileOfTheHeld ==
    /\ rec.belief # "none" /\ rec.answer = "none"
    /\ \/ /\ runner = Me
          /\ \E r \in Round :
                /\ held = r
                /\ Reconcile(Me, r, rec.belief)
                /\ rec' = [rec EXCEPT !.answer =
                                Disposition(rec.belief, stopRequested[r])]
       \/ /\ runner = Me /\ held = NoRound
          /\ rec' = [rec EXCEPT !.answer = "null"]
          /\ UNCHANGED vars
       \/ /\ runner # Me \/ (held # NoRound /\ Ended(held))
          /\ rec' = [rec EXCEPT !.answer = "refused"]
          /\ UNCHANGED vars
    /\ UNCHANGED <<heartbeatVars, claimLoopVars, heldVars, engine, recorded, restarts>>

\* Galley handles it: for the held Round, or holding nothing for the open one.
HandleReconcile ==
    /\ rec.belief # "none" /\ rec.answer = "none"
    /\ \/ /\ runner = Me
          /\ \E r \in Round :
                /\ held \in {r, NoRound}
                /\ Reconcile(Me, r, rec.belief)
                /\ rec' = [rec EXCEPT !.answer =
                                Disposition(rec.belief, stopRequested[r])]
       \/ /\ runner = Me /\ held = NoRound /\ ~SlotTaken
          /\ rec' = [rec EXCEPT !.answer = "null"]
          /\ UNCHANGED vars
       \/ /\ runner # Me \/ (held # NoRound /\ Ended(held))
          /\ rec' = [rec EXCEPT !.answer = "refused"]
          /\ UNCHANGED vars
    /\ UNCHANGED <<heartbeatVars, claimLoopVars, heldVars, engine, recorded, restarts>>

\* The answer is lost, and the same Reconcile is asked again.
ReconcileLost ==
    /\ "reconcile" \in Lossy
    /\ rec.answer # "none"
    /\ rec' = [rec EXCEPT !.answer = "none"]
    /\ UNCHANGED <<vars, heartbeatVars, claimLoopVars, heldVars, engine, recorded,
                   restarts>>

\* Mutant: a halted engine told to continue goes on with its script.
AnswerToTheHaltedResuming(answer) ==
    CASE answer \in {"hold", "refused"} -> Gone
      [] answer \in {"stop_confirmed", "interrupted"} ->
            Sending(IF engine.unsent \in Endings THEN engine.unsent ELSE answer)
      [] OTHER -> NextStep

\* recoverHalted: only an answer to the stopped belief says how the Round may
\* end, with the ending that went unsent if there was one.
AnswerToTheHalted(answer) ==
    CASE answer \in {"hold", "refused"} -> Gone
      [] answer \in {"stop_confirmed", "interrupted"} ->
            Sending(IF engine.unsent \in Endings THEN engine.unsent ELSE answer)
      [] OTHER -> [engine EXCEPT !.gate = "closed"]

\* What the answer does to an engine that waits for it at its gate.
ThroughTheGate(answer) ==
    IF engine.gate # "waiting" \/ engine.phase = "gone" THEN engine
    ELSE IF engine.phase = "halted" THEN AnswerToTheHalted(answer)
    ELSE
    CASE answer \in {"null", "continue"} -> [engine EXCEPT !.gate = "open"]
      [] answer = "stop" ->
            IF engine.event = "stop_confirmed" THEN [engine EXCEPT !.gate = "open"]
            ELSE Sending("stop_confirmed")
      [] answer \in {"stop_confirmed", "interrupted"} /\ engine.event = "stop_confirmed" ->
            [engine EXCEPT !.gate = "through", !.event = answer]
      [] OTHER -> Gone

\* Mutant: an answer clears the flag whatever was raised since it was asked.
FinishReconcileClearing ==
    /\ rec.answer # "none"
    /\ rec' = NoReconcile
    /\ owed' = (owed /\ rec.answer \notin {"null", "continue", "stop"})
    /\ stopSeen' = (stopSeen \/ rec.answer = "stop")
    /\ dropped' = (dropped \/ (rec.answer \in {"hold", "refused"} /\ held # NoRound))
    /\ engine' = ThroughTheGate(rec.answer)
    /\ UNCHANGED <<vars, registered, beat, claimLoopVars, held, inbox, recorded,
                   restarts>>

\* The answer settles the flag unless it was raised again since.
FinishReconcile ==
    /\ rec.answer # "none"
    /\ rec' = NoReconcile
    /\ owed' = (owed /\ (rec.stale \/ rec.answer \notin {"null", "continue", "stop"}))
    /\ stopSeen' = (stopSeen \/ rec.answer = "stop")
    /\ dropped' = (dropped \/ (rec.answer \in {"hold", "refused"} /\ held # NoRound))
    /\ engine' = ThroughTheGate(rec.answer)
    /\ UNCHANGED <<vars, registered, beat, claimLoopVars, held, inbox, recorded,
                   restarts>>

-----------------------------------------------------------------------------
(* The claim loop.                                                         *)

AskClaim ==
    /\ registered /\ held = NoRound /\ claim = "none"
    /\ ~owed /\ rec.belief = "none"
    /\ Me \notin claiming       \* bound: one claim of this process at Galley
    /\ claim' = "asked"
    /\ UNCHANGED <<vars, heartbeatVars, rec, keyRound, heldVars, engine, recorded,
                   restarts>>

TakeClaim ==
    /\ claim = "asked" /\ keyRound = NoRound /\ runner = Me
    /\ AuthenticateClaim
    /\ UNCHANGED michelinVars

\* The Round is recorded under the key of the claim that asked for it.
AdmitClaim ==
    /\ \E t \in Ticket, r \in Round, e \in 1..MaxEpoch :
        /\ ClaimWork(Me, t, r, e)
        /\ keyRound' = IF claim = "asked" THEN r ELSE keyRound
    /\ UNCHANGED <<heartbeatVars, rec, claim, heldVars, engine, recorded, restarts>>

\* 204, heard or lost: the handler found nothing, or the runner disconnected.
ClaimAnsweredEmpty ==
    /\ \/ ClaimNothing(Me)
       \/ /\ claim = "asked" /\ keyRound = NoRound /\ Me \notin claiming
          /\ contact # "recent"
          /\ UNCHANGED vars
    /\ claim' \in IF "claim" \in Lossy THEN {claim, "none"} ELSE {"none"}
    /\ UNCHANGED <<heartbeatVars, rec, keyRound, heldVars, engine, recorded, restarts>>

\* 201, or 200 for the same key asked again: the Round is Michelin's to run.
HoldRound ==
    /\ claim = "asked" /\ keyRound # NoRound /\ runner = Me
    /\ claim' = "none"
    /\ keyRound' = NoRound
    /\ held' = keyRound
    /\ engine' = InPhase("step")
    /\ recorded' = {}
    /\ UNCHANGED <<vars, heartbeatVars, rec, dropped, stopSeen, inbox, restarts>>

\* 409 once the Round under the key left "claimed", 401 once revoked.
ClaimRefused ==
    /\ claim = "asked"
    /\ \/ keyRound # NoRound /\ roundState[keyRound] # "claimed"
       \/ runner # Me /\ Me \notin claiming
    /\ claim' = "none"
    /\ keyRound' = NoRound
    /\ UNCHANGED <<vars, heartbeatVars, rec, heldVars, engine, recorded, restarts>>

\* runRound's end: the Round is let go of once no Reconcile speaks for it.
Release ==
    /\ engine.phase = "gone" /\ rec.belief = "none"
    /\ held' = NoRound
    /\ engine' = Idle
    /\ dropped' = FALSE /\ stopSeen' = FALSE /\ inbox' = {}
    /\ UNCHANGED <<vars, heartbeatVars, rec, claimLoopVars, recorded, restarts>>

\* A new process keeps nothing: not the Round, not the claim's key.
Restart ==
    /\ restarts < MaxRestarts
    /\ restarts' = restarts + 1
    /\ claiming' \in IF LateClaims THEN {claiming, claiming \ {Me}} ELSE {claiming \ {Me}}
    /\ registered' = FALSE /\ owed' = FALSE /\ beat' = "none"
    /\ rec' = NoReconcile
    /\ claim' = "none" /\ keyRound' = NoRound
    /\ held' = NoRound /\ engine' = Idle
    /\ dropped' = FALSE /\ stopSeen' = FALSE /\ inbox' = {}
    /\ UNCHANGED <<ticketVars, roundState, claimVars, stopVars, waitingOn,
                   reconcileVars, askVars, runner, contact, everPaired, recorded>>

-----------------------------------------------------------------------------
(* The engine.  At every step it first looks whether the Round was dropped  *)
(* or a Stop has come.                                                     *)

FirstEvent ==
    [start |-> "start", progress |-> "note", ask |-> "ask", deliver |-> "delivered",
     fail |-> "failed", interrupt |-> "interrupted"]

BeginStep ==
    /\ engine.phase = "step" /\ ~dropped
    /\ engine' = IF stopSeen THEN Sending("stop_confirmed") ELSE
        CASE Kind = "end" -> Gone
          [] Kind = "hold" -> InPhase("holding")
          [] Kind \in {"act", "retry_act"} -> InPhase("checking")
          [] OTHER -> Sending(FirstEvent[Kind])
    /\ UNCHANGED <<vars, heartbeatVars, rec, claimLoopVars, heldVars, recorded,
                   restarts>>

LeaveDropped ==
    /\ dropped /\ engine.phase # "gone"
    /\ engine' = Gone
    /\ UNCHANGED <<vars, heartbeatVars, rec, claimLoopVars, heldVars, recorded,
                   restarts>>

\* Before each report and each check an owed Reconcile is waited for; a halted
\* engine waits for one in any case.
JoinReconcile ==
    /\ engine.gate = "closed" /\ ~dropped
    /\ \/ owed /\ engine.phase \in {"sending", "checking"} /\ engine.unsent = "none"
       \/ engine.phase = "halted"
    /\ engine' = [engine EXCEPT !.gate = "waiting"]
    /\ UNCHANGED <<vars, heartbeatVars, rec, claimLoopVars, heldVars, recorded,
                   restarts>>

Ungated ==
    /\ ~dropped
    /\ \/ engine.gate \in {"open", "through"}
       \/ engine.gate = "closed" /\ (~owed \/ engine.unsent # "none")

\* One event has one key: the Round's, with its step, or its stop or halt.
Key == <<engine.step, engine.event>>

\* What the engine does once Galley answered that the event is recorded.
Advance ==
    IF engine.unsent # "none" THEN Gone ELSE
    CASE engine.event \in {"start", "note", "performed", "answer_note"} -> NextStep
      [] engine.event \in {"ask", "request"} -> InPhase("waiting")
      [] engine.event = "resumed" ->
            IF Kind = "ask" THEN Sending("answer_note") ELSE InPhase("checking")
      [] OTHER -> Gone

\* A recorded ending that names no start is read as no answer at all, unless
\* it is a stop_confirmed.
AnswerIsUsable == engine.event = "interrupted" => <<1, "start">> \in recorded

TryAgain ==
    [engine EXCEPT !.failed = TRUE, !.gate = IF @ = "through" THEN @ ELSE "closed"]

\* The event that went unsent is the one composed, whatever the gate renamed.
HaltLocally ==
    [InPhase("halted") EXCEPT !.unsent =
        IF engine.unsent # "none" THEN engine.unsent
        ELSE IF engine.gate = "through" THEN "stop_confirmed"
        ELSE engine.event]

\* Mutant: a report nobody answered within the bound is given up, and the
\* script goes on.
AfterAFailureMovingOn == {TryAgain} \cup IF engine.failed THEN {NextStep} ELSE {}

\* A failed report is retried until the bound counted from the first failure.
AfterAFailure == {TryAgain} \cup IF engine.failed THEN {HaltLocally} ELSE {}

\* What an answer that arrives does to the engine.
Answered == IF AnswerIsUsable THEN {Advance} ELSE AfterAFailure

Reporting == engine.phase = "sending" /\ Ungated

\* Galley's handling of the engine's event.
HandledByGalley ==
    \/ engine.event = "start" /\ ExecutionStarted(Me, held)
    \/ engine.event \in {"note", "performed", "answer_note"}
            /\ ProgressOrUsage(Me, held)
    \/ engine.event = "ask" /\ RaiseAsk(Me, held, engine.step, "asked")
    \/ engine.event = "request" /\ RaiseAsk(Me, held, engine.step, "requested")
    \/ engine.event = "resumed" /\ Resumed(Me, held, engine.step)
    \/ engine.event = "delivered" /\ Delivered(Me, held)
    \/ engine.event = "failed" /\ Failed(Me, held)
    \/ engine.event = "interrupted" /\ Interrupted(Me, held)
    \/ engine.event = "stop_confirmed" /\ StopConfirmed(Me, held)

\* Does the Round's state take the engine's event?
Suits ==
    CASE engine.event = "start" -> roundState[held] = "claimed"
      [] engine.event = "resumed" ->
            /\ roundState[held] = "waiting_for_input"
            /\ waitingOn[held] = engine.step
            /\ askState[engine.step] \in {"answered", "approved"}
      [] engine.event = "interrupted" -> Open(held)
      [] engine.event = "stop_confirmed" -> Open(held) /\ stopRequested[held]
      [] OTHER -> roundState[held] = "running"

\* 201, and the answer arrives.
EventRecorded ==
    /\ Reporting /\ runner = Me /\ Key \notin recorded
    /\ HandledByGalley
    /\ recorded' = recorded \cup {Key}
    /\ engine' \in Answered
    /\ UNCHANGED <<heartbeatVars, rec, claimLoopVars, heldVars, restarts>>

\* 201, and the answer is lost.
EventRecordedUnheard ==
    /\ Reporting /\ runner = Me /\ Key \notin recorded /\ "event" \in Lossy
    /\ HandledByGalley
    /\ recorded' = recorded \cup {Key}
    /\ engine' \in AfterAFailure
    /\ UNCHANGED <<heartbeatVars, rec, claimLoopVars, heldVars, restarts>>

\* 200: Galley returns what it recorded under the key.
EventReplayed ==
    /\ Reporting /\ runner = Me /\ Key \in recorded
    /\ engine' \in Answered
    /\ UNCHANGED <<vars, heartbeatVars, rec, claimLoopVars, heldVars, recorded, restarts>>

\* The request is lost, or the answer to a replay.
EventLost ==
    /\ Reporting /\ "event" \in Lossy
    /\ engine' \in AfterAFailure
    /\ UNCHANGED <<vars, heartbeatVars, rec, claimLoopVars, heldVars, recorded, restarts>>

\* 401 or 409: a refusal is final, and the Round is abandoned locally.
EventRefused ==
    /\ Reporting
    /\ runner # Me \/ (Key \notin recorded /\ ~Suits)
    /\ engine' = Gone
    /\ UNCHANGED <<vars, heartbeatVars, rec, claimLoopVars, heldVars, recorded, restarts>>

-----------------------------------------------------------------------------
(* Waiting for the Owner, and the authority checks.                        *)

\* An answer is kept for the one who will wait for it, or wakes the one waiting.
Arrived == engine.step \in inbox

\* A Stop outranks an answer that came with it.
Wake ==
    /\ ~dropped
    /\ \/ engine.phase = "waiting" /\ (stopSeen \/ Arrived)
       \/ engine.phase = "holding" /\ stopSeen
       \/ engine.phase = "denied"
    /\ engine' = IF stopSeen THEN Sending("stop_confirmed")
                 ELSE IF engine.phase = "denied" THEN InPhase("checking")
                 ELSE Sending("resumed")
    /\ UNCHANGED <<vars, heartbeatVars, rec, claimLoopVars, heldVars, recorded, restarts>>

\* Mutant: a pull brings the Owner's answers only.
PullAnswers ==
    /\ held # NoRound /\ engine.phase # "gone" /\ runner = Me /\ Open(held)
    /\ inbox' = inbox \cup
            {a \in Ask : askRound[a] = held /\ askState[a] = "answered"}
    /\ UNCHANGED <<vars, heartbeatVars, rec, claimLoopVars, held, dropped, stopSeen,
                   engine, recorded, restarts>>

\* The answers and approvals a pull brings.
AnswersPulled ==
    {a \in Ask : askRound[a] = held /\ askState[a] \in {"answered", "approved"}}

PullCommands ==
    /\ held # NoRound /\ engine.phase # "gone" /\ runner = Me /\ Open(held)
    /\ stopSeen' = (stopSeen \/ stopRequested[held])
    /\ inbox' = inbox \cup AnswersPulled
    /\ UNCHANGED <<vars, heartbeatVars, rec, claimLoopVars, held, dropped, engine,
                   recorded, restarts>>

Checking == engine.phase = "checking" /\ Ungated

\* act asks for a Permission at the first denial and fails at one after the
\* Owner's approval; retry_act tries again, and gives the step up at the last.
Denied ==
    IF Kind = "retry_act" THEN {InPhase("denied"), NextStep}
    ELSE IF <<engine.step, "resumed">> \in recorded THEN {Sending("failed")}
    ELSE {Sending("request")}

CheckAnswered ==
    /\ Checking /\ runner = Me
    /\ CheckAuthority(Me, held)
    /\ engine' \in {Sending("performed")} \cup Denied
    /\ UNCHANGED <<heartbeatVars, rec, claimLoopVars, heldVars, recorded, restarts>>

\* An undeclared capability is refused before the Round is looked at.
CheckUnsupported ==
    /\ Checking /\ runner = Me
    /\ engine' = Sending("failed")
    /\ UNCHANGED <<vars, heartbeatVars, rec, claimLoopVars, heldVars, recorded, restarts>>

\* Asked and recorded, or not asked at all, but not heard: asked again.
CheckLost ==
    /\ Checking /\ "check" \in Lossy
    /\ UNCHANGED vars \/ (runner = Me /\ CheckAuthority(Me, held))
    /\ engine' = [engine EXCEPT !.gate = "closed"]
    /\ UNCHANGED <<heartbeatVars, rec, claimLoopVars, heldVars, recorded, restarts>>

\* 409 while Galley cannot see the runner or the Round is flagged: asked again
\* after a Reconcile.
CheckUnanswered ==
    /\ Checking /\ runner = Me /\ Open(held)
    /\ contact # "recent" \/ reconcileRequired[held]
    /\ engine' = [engine EXCEPT !.gate = "closed"]
    /\ IF contact = "recent" THEN RaiseReconcile ELSE UNCHANGED <<owed, rec>>
    /\ UNCHANGED <<vars, registered, beat, claimLoopVars, heldVars, recorded, restarts>>

CheckRefused ==
    /\ Checking
    /\ runner # Me \/ Ended(held)
    /\ engine' = Gone
    /\ UNCHANGED <<vars, heartbeatVars, rec, claimLoopVars, heldVars, recorded, restarts>>

-----------------------------------------------------------------------------
(* The Owner, and the passing of time, while the runner works.             *)

OwnerStep ==
    /\ \/ \E r \in Round : RequestStop(r) \/ AttestCessation(r)
       \/ \E a \in Ask :
            \/ AnswerQuestion(a)
            \/ \E decision \in Decided : DecidePermission(a, decision)
       \/ RevokeRunner
       \/ "beat" \in Lossy /\ HealthWindowPasses
    /\ UNCHANGED michelinVars

\* The Owner paired Michelin's credential and made the Tickets ready for work.
MichelinInit ==
    /\ status = [t \in Ticket |-> "Ready"]
    /\ archived = [t \in Ticket |-> FALSE]
    /\ assignee \in [Ticket -> Assignees \cap AgentKinds]
    /\ inputs = [t \in Ticket |-> Inputs]
    /\ roundState = [r \in Round |-> "unclaimed"]
    /\ roundTicket = [r \in Round |-> NoTicket]
    /\ holder = [r \in Round |-> NotPaired]
    /\ epoch = [r \in Round |-> 0]
    /\ stopRequested = [r \in Round |-> FALSE]
    /\ breach = [r \in Round |-> "none"]
    /\ waitingOn = [r \in Round |-> NoAsk]
    /\ reconcileRequired = [r \in Round |-> FALSE]
    /\ execution = [r \in Round |-> "none"]
    /\ askRound = [a \in Ask |-> NoRound]
    /\ askState = [a \in Ask |-> "unraised"]
    /\ runner = Me /\ contact = "unregistered"
    /\ everPaired = {Me} /\ claiming = {}
    /\ registered = FALSE /\ owed = FALSE /\ beat = "none"
    /\ rec = NoReconcile
    /\ claim = "none" /\ keyRound = NoRound
    /\ held = NoRound /\ engine = Idle
    /\ dropped = FALSE /\ stopSeen = FALSE /\ inbox = {}
    /\ recorded = {} /\ restarts = 0

HeartbeatStep == Register \/ Heartbeat \/ BeatAnswered \/ BeatLost \/ BeatRefused

ReconcileStep ==
    StartReconcile \/ HandleReconcile \/ ReconcileLost \/ FinishReconcile

ClaimLoopStep ==
    \/ AskClaim \/ TakeClaim \/ AdmitClaim \/ ClaimAnsweredEmpty
    \/ HoldRound \/ ClaimRefused \/ Release

\* What the engine does without an answer from Galley.
EngineMove == BeginStep \/ LeaveDropped \/ JoinReconcile \/ Wake

EngineRequest ==
    \/ EventRecorded \/ EventRecordedUnheard \/ EventReplayed \/ EventLost
    \/ EventRefused
    \/ CheckAnswered \/ CheckUnsupported \/ CheckLost \/ CheckUnanswered
    \/ CheckRefused

MichelinNext ==
    \/ HeartbeatStep \/ ReconcileStep \/ ClaimLoopStep
    \/ EngineMove \/ EngineRequest \/ PullCommands
    \/ OwnerStep \/ Restart

MichelinSafety == MichelinInit /\ [][MichelinNext]_allVars

\* The loops keep running, and a request asked over and over is at last
\* handled and answered; nothing is assumed of the Owner.
MichelinSpec ==
    /\ MichelinSafety
    /\ WF_allVars(Register \/ Heartbeat)
    /\ WF_allVars(StartReconcile \/ HandleReconcile)
    /\ WF_allVars(PullCommands)
    /\ WF_allVars(EngineMove \/ Release)
    /\ SF_allVars(BeatAnswered)
    /\ SF_allVars(FinishReconcile)
    /\ SF_allVars(EventRecorded \/ EventReplayed \/ EventRefused)
    /\ SF_allVars(CheckAnswered \/ CheckRefused)
    /\ SF_allVars(HoldRound \/ ClaimRefused)

-----------------------------------------------------------------------------
(* Safety.                                                                 *)

\* Once Galley recorded an ending this engine reported, the engine does no more
\* of its script, however many answers were lost and whatever was retried: it
\* repeats the ending, waits to be told so, or is gone.
NoWorkAfterTheEnding ==
    held # NoRound /\ (\E k \in recorded : k[2] \in Endings)
        => \/ engine.phase \in {"halted", "gone"}
           \/ engine.phase = "sending" /\ engine.event \in Endings

\* Galley's log of a Round is the script without a gap: an event is recorded
\* only after every report of the steps before it was.  Lost reports, retries,
\* halts and a Stop cut the log short; they never make a hole in it.
RecordedInOrder ==
    \A k \in recorded : \A i \in 1..(k[1] - 1) :
        CASE Script[i] = "start" -> <<i, "start">> \in recorded
          [] Script[i] = "progress" -> <<i, "note">> \in recorded
          [] Script[i] = "ask" -> <<i, "answer_note">> \in recorded
          [] Script[i] = "act" -> <<i, "performed">> \in recorded
          [] OTHER -> TRUE

\* A Round that Galley flagged is never forgotten by the runner: it owes a
\* Reconcile, or is about to hear of one, or has yet to register.  Otherwise
\* its authority checks would be refused with nobody set to settle the flag.
FlagIsKnown ==
    \A r \in Round : Open(r) /\ reconcileRequired[r]
        => owed \/ beat \in {"required", "registered"} \/ ~registered

\* An open Round this runner no longer works on, holds under no key and owes
\* no Reconcile for, is one the Owner may attest the cessation of.
StrandedRoundIsAttestable ==
    \A r \in Round :
        /\ Open(r) /\ registered /\ beat = "none"
        /\ held = NoRound /\ claim = "none" /\ ~owed
        => ~HolderAnswersForIt(r)

\* A Round that ended interrupted on the runner's word had started: the event's
\* result has no start only for a Round stopped before it started.
InterruptedOnlyOnceStarted ==
    (\E k \in recorded : k[2] = "interrupted") => <<1, "start">> \in recorded

\* An engine that reported itself stopped to a Reconcile never works again: as
\* long as the Round is held it stays so, and reports only the Round's ending.
\* Galley names the cessation on the strength of that belief.
CeasedForGood ==
    [][Ceased /\ held # NoRound
        => \/ held' # held
           \/ Ceased' /\ \A k \in recorded' \ recorded : k[2] \in Endings]_allVars

-----------------------------------------------------------------------------
(* Liveness.                                                               *)

\* A Stop asked of the Round Michelin holds ends it, by the runner's word or
\* before it, unless the process restarts or its credential is revoked first.
StopIsTaken ==
    \A r \in Round, k \in 0..MaxRestarts :
        held = r /\ Open(r) /\ stopRequested[r] /\ restarts = k
            ~> Ended(r) \/ runner # Me \/ restarts > k

\* An answer or approval the Owner gives reaches the engine: the Round leaves
\* the wait, unless the process restarts or its credential is revoked first.
AnswerIsTaken ==
    \A r \in Round, a \in Ask, k \in 0..MaxRestarts :
        held = r /\ waitingOn[r] = a /\ askState[a] \in {"answered", "approved"}
                 /\ restarts = k
            ~> waitingOn[r] # a \/ runner # Me \/ restarts > k

\* A Round a restarted Michelin does not hold is reported unknown, which lets
\* the Owner attest its cessation, unless it ends or the credential is revoked.
StrandedIsReported ==
    \A r \in Round :
        Open(r) /\ held = NoRound /\ claim = "none" /\ Me \notin claiming
            ~> \/ Ended(r) \/ execution[r] = "unknown"
               \/ held = r \/ runner # Me

=============================================================================
