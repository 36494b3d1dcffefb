--------------------------- MODULE MichelinProofs ---------------------------
(***************************************************************************)
(* Proofs about one Michelin process against Galley, for any script, any   *)
(* number of Tickets, Rounds, credentials and restarts, and whatever is    *)
(* lost.                                                                   *)
(***************************************************************************)
EXTENDS Michelin, GalleyProofs

\* The events, other than an ending, that a step of the script reports.
ReportedAt(kind, event) ==
    \/ kind = "start" /\ event = "start"
    \/ kind = "progress" /\ event = "note"
    \/ kind = "ask" /\ event \in {"ask", "resumed", "answer_note"}
    \/ kind = "act" /\ event \in {"request", "resumed", "performed"}
    \/ kind = "retry_act" /\ event = "performed"

\* The engine reports an event of its step, or an ending; where it waits is where the
\* step's kind waits; and what it gave up on it gave up on for good.
EngineFits ==
    /\ held = NoRound => engine = Idle /\ ~dropped
    /\ engine.phase = "sending" =>
          engine.event \in Endings \/ ReportedAt(Kind, engine.event)
    /\ engine.phase = "waiting" => Kind \in {"ask", "act"}
    /\ engine.phase = "checking" => Kind \in {"act", "retry_act"}
    /\ engine.phase = "denied" => Kind = "retry_act"
    /\ engine.phase \notin {"sending", "gone"} => engine.event = "none"
    /\ engine.phase = "halted" => engine.unsent # "none"
    /\ engine.unsent # "none" =>
          \/ engine.phase \in {"halted", "gone"}
          \/ engine.phase = "sending" /\ engine.event \in Endings
    /\ engine.gate = "through" =>
          /\ engine.phase \in {"sending", "gone"}
          /\ engine.event \in {"stop_confirmed", "interrupted"}

\* The step has nothing more to report.
Accounted(i, log) ==
    /\ Script[i] = "start" => <<i, "start">> \in log
    /\ Script[i] = "progress" => <<i, "note">> \in log
    /\ Script[i] = "ask" => <<i, "answer_note">> \in log
    /\ Script[i] = "act" => <<i, "performed">> \in log

InOrder(log) == \A k \in log : \A i \in 1 .. (k[1] - 1) : Accounted(i, log)

\* Nothing of a later step is recorded, and everything of the earlier ones is.
LogFits ==
    /\ held # NoRound => \A k \in recorded : k[1] <= engine.step
    /\ held # NoRound => \A i \in 1 .. (engine.step - 1) : Accounted(i, recorded)
    /\ InOrder(recorded)
    /\ NoWorkAfterTheEnding

\* The loops' requests: which answer follows which state of the registration, and
\* which belief which hold.
LoopsFit ==
    /\ beat \in {"fine", "required"} => registered
    /\ beat = "registered" => ~registered
    /\ rec.belief = "none" => rec.answer = "none"
    /\ rec.belief # "none" => claim = "none"
    /\ claim = "asked" => held = NoRound
    /\ rec.belief = "nothing" => held = NoRound /\ owed
    /\ rec.belief \in {"running", "stopped"} => held # NoRound

\* The runner hears of the flag, or has yet to register.
WillHear == beat \in {"required", "registered"} \/ ~registered

Flagged(r) == Open(r) /\ reconcileRequired[r]

\* An answer that settles the flag, and that no later one outdates, was given when no
\* Round was flagged; what was flagged since the runner will hear of.
FlagFits ==
    /\ \A r \in Round : roundState[r] = "unclaimed" => ~reconcileRequired[r]
    /\ rec.answer \in {"null", "continue", "stop"} /\ ~rec.stale =>
          \A r \in Round : Flagged(r) => WillHear
    /\ FlagIsKnown

MichelinInv == SlotInv /\ MichelinTypeOK /\ EngineFits /\ LogFits /\ LoopsFit /\ FlagFits

-----------------------------------------------------------------------------
(* The engine's next states.                                               *)

EngineStates ==
    [phase : {"idle", "step", "sending", "checking", "denied", "waiting", "holding",
              "halted", "gone"},
     step : 1..(Len(Script) + 1),
     event : Events \cup {"none"},
     gate : {"closed", "waiting", "open", "through"},
     failed : BOOLEAN,
     unsent : Events \cup {"none"}]

\* A step that is one of the script is not its end.
LEMMA ScriptFacts ==
    /\ Len(Script) \in Nat /\ DOMAIN Script = 1 .. Len(Script) /\ DOMAIN Script \subseteq Ask
    /\ \A i \in DOMAIN Script : Script[i] \in StepKinds
    /\ Len(Script) >= 1
    /\ Endings \subseteq Events /\ "none" \notin Events
BY MichelinAssumption DEF ValidScript, Events, Endings

\* What the engine goes over to has the fields it was given.
LEMMA NextEngines ==
    ASSUME engine \in EngineStates
    PROVE  /\ \A event \in Events :
                 /\ Sending(event) \in EngineStates
                 /\ Sending(event).phase = "sending" /\ Sending(event).step = engine.step
                 /\ Sending(event).event = event /\ Sending(event).gate = "closed"
                 /\ Sending(event).unsent = engine.unsent
           /\ \A phase \in {"step", "checking", "waiting", "denied", "holding"} :
                 /\ InPhase(phase) \in EngineStates
                 /\ InPhase(phase).phase = phase /\ InPhase(phase).step = engine.step
                 /\ InPhase(phase).event = "none" /\ InPhase(phase).gate = "closed"
                 /\ InPhase(phase).unsent = "none"
           /\ engine.step \in DOMAIN Script => NextStep \in EngineStates
           /\ NextStep.phase = "step" /\ NextStep.step = engine.step + 1
           /\ NextStep.event = "none" /\ NextStep.gate = "closed"
           /\ NextStep.unsent = "none"
           /\ Gone \in EngineStates
           /\ Gone.phase = "gone" /\ Gone.step = engine.step /\ Gone.event = engine.event
           /\ Gone.gate = engine.gate /\ Gone.unsent = engine.unsent
<1>. USE ScriptFacts
<1>1. \A event \in Events :
        /\ Sending(event) \in EngineStates
        /\ Sending(event).phase = "sending" /\ Sending(event).step = engine.step
        /\ Sending(event).event = event /\ Sending(event).gate = "closed"
        /\ Sending(event).unsent = engine.unsent
  BY DEF Sending, EngineStates
<1>2. \A phase \in {"step", "checking", "waiting", "denied", "holding"} :
        /\ InPhase(phase) \in EngineStates
        /\ InPhase(phase).phase = phase /\ InPhase(phase).step = engine.step
        /\ InPhase(phase).event = "none" /\ InPhase(phase).gate = "closed"
        /\ InPhase(phase).unsent = "none"
  BY DEF InPhase, Idle, EngineStates
<1>. DEFINE next == engine.step + 1
<1>5. engine.step \in Nat /\ (engine.step \in DOMAIN Script => next \in 1 .. (Len(Script) + 1))
  BY DEF EngineStates
<1>6. NextStep = [phase |-> "step", step |-> next, event |-> "none", gate |-> "closed",
                  failed |-> FALSE, unsent |-> "none"]
  <2>1. NextStep = [Idle EXCEPT !.phase = "step", !.step = next]
    BY DEF NextStep
  <2>. HIDE DEF next
  <2>. QED BY <2>1 DEF Idle
<1>7. engine.step \in DOMAIN Script => NextStep \in EngineStates
  <2>. HIDE DEF next
  <2>. QED BY <1>5, <1>6 DEF EngineStates
<1>3. /\ engine.step \in DOMAIN Script => NextStep \in EngineStates
      /\ NextStep.phase = "step" /\ NextStep.step = engine.step + 1
      /\ NextStep.event = "none" /\ NextStep.gate = "closed"
      /\ NextStep.unsent = "none"
  BY <1>6, <1>7
<1>4. /\ Gone \in EngineStates
      /\ Gone.phase = "gone" /\ Gone.step = engine.step /\ Gone.event = engine.event
      /\ Gone.gate = engine.gate /\ Gone.unsent = engine.unsent
  BY DEF Gone, EngineStates
<1>. QED BY <1>1, <1>2, <1>3, <1>4

\* Giving up a report keeps the step and names what went unsent.
LEMMA Halting ==
    ASSUME engine \in EngineStates, EngineFits, engine.phase = "sending"
    PROVE  /\ HaltLocally \in EngineStates
           /\ HaltLocally.phase = "halted" /\ HaltLocally.step = engine.step
           /\ HaltLocally.event = "none" /\ HaltLocally.gate = "closed"
           /\ HaltLocally.unsent # "none"
<1>1. engine.event \in Events
  BY ScriptFacts DEF EngineFits, ReportedAt, EngineStates
<1>2. "stop_confirmed" \in Events
  BY DEF Events, Endings
<1>. DEFINE unsent == IF engine.unsent # "none" THEN engine.unsent
                      ELSE IF engine.gate = "through" THEN "stop_confirmed"
                      ELSE engine.event
<1>3. unsent \in Events
  BY <1>1, <1>2 DEF EngineStates
<1>6. HaltLocally = [InPhase("halted") EXCEPT !.unsent = unsent]
  BY DEF HaltLocally
<1>. HIDE DEF unsent
<1>4. HaltLocally = [phase |-> "halted", step |-> engine.step, event |-> "none",
                     gate |-> "closed", failed |-> FALSE, unsent |-> unsent]
  BY <1>6 DEF InPhase, Idle
<1>5. HaltLocally \in EngineStates
  BY <1>3, <1>4 DEF EngineStates
<1>. QED BY <1>3, <1>4, <1>5, ScriptFacts

-----------------------------------------------------------------------------
(* Where the engine may go.                                                *)

\* The engine is at its script: nothing it will not take back was said.
Working ==
    \/ engine.phase \in {"step", "waiting", "checking", "denied"}
    \/ engine.phase = "sending" /\ engine.event \notin Endings

\* Its ways on: another turn of the same, gone, an ending, a report of its step, the
\* next wait, the next step, a report given up, or the ending Galley named instead.
GoesOn ==
    \/ /\ engine.gate # "through"
       /\ \E gate \in {"closed", "waiting", "open"}, failed \in BOOLEAN :
             engine' = [engine EXCEPT !.gate = gate, !.failed = failed]
    \/ engine' = [engine EXCEPT !.failed = TRUE]
    \/ engine' = Gone
    \/ /\ Ceased => engine.unsent # "none"
       /\ \E event \in Endings : engine' = Sending(event)
    \/ Working /\ \E event \in Events : ReportedAt(Kind, event) /\ engine' = Sending(event)
    \/ /\ Working
       /\ \/ engine' = InPhase("checking") /\ Kind \in {"act", "retry_act"}
          \/ engine' = InPhase("waiting") /\ Kind \in {"ask", "act"}
          \/ engine' = InPhase("denied") /\ Kind = "retry_act"
          \/ engine' = InPhase("holding")
    \/ /\ Working /\ engine.step \in DOMAIN Script
       /\ Accounted(engine.step, recorded')
       /\ engine' = NextStep
    \/ engine.phase = "sending" /\ engine' = HaltLocally
    \/ /\ engine.phase = "sending" /\ engine.event = "stop_confirmed"
       /\ \E event \in {"stop_confirmed", "interrupted"} :
             engine' = [engine EXCEPT !.gate = "through", !.event = event]

\* Only a report adds to the log.
Logs ==
    \/ recorded' = recorded
    \/ engine.phase = "sending" /\ recorded' = recorded \cup {Key}

LogTyped == recorded \subseteq (1..(Len(Script) + 1)) \X Events

\* The same engine at the same report, but for how its request stands.
AnotherTurn ==
    /\ engine' \in EngineStates
    /\ engine'.phase = engine.phase /\ engine'.step = engine.step
    /\ engine'.event = engine.event /\ engine'.unsent = engine.unsent
    /\ engine'.gate = engine.gate \/ "through" \notin {engine.gate, engine'.gate}

\* The ending that Galley's answer names in place of a confirmed Stop.
NamedInstead ==
    /\ engine' \in EngineStates
    /\ engine.phase = "sending" /\ engine.event = "stop_confirmed"
    /\ engine'.phase = "sending" /\ engine'.step = engine.step
    /\ engine'.event \in {"stop_confirmed", "interrupted"}
    /\ engine'.unsent = engine.unsent /\ engine'.gate = "through"

\* The changes of single fields, as what they change.
LEMMA SmallChanges ==
    ASSUME engine \in EngineStates
    PROVE  /\ \A gate \in {"closed", "waiting", "open"}, failed \in BOOLEAN :
                 /\ engine.gate # "through"
                 /\ engine' = [engine EXCEPT !.gate = gate, !.failed = failed]
                 => AnotherTurn
           /\ engine' = [engine EXCEPT !.failed = TRUE] => AnotherTurn
           /\ \A event \in {"stop_confirmed", "interrupted"} :
                 /\ engine.phase = "sending" /\ engine.event = "stop_confirmed"
                 /\ engine' = [engine EXCEPT !.gate = "through", !.event = event]
                 => NamedInstead
<1>1. ASSUME NEW gate \in {"closed", "waiting", "open"}, NEW failed \in BOOLEAN,
             engine.gate # "through",
             engine' = [engine EXCEPT !.gate = gate, !.failed = failed]
      PROVE  AnotherTurn
  BY <1>1 DEF EngineStates, AnotherTurn
<1>2. ASSUME engine' = [engine EXCEPT !.failed = TRUE] PROVE AnotherTurn
  BY <1>2 DEF EngineStates, AnotherTurn
<1>3. ASSUME NEW event \in {"stop_confirmed", "interrupted"}, engine.phase = "sending",
             engine.event = "stop_confirmed",
             engine' = [engine EXCEPT !.gate = "through", !.event = event]
      PROVE  NamedInstead
  BY <1>3 DEF EngineStates, NamedInstead, Events, Endings
<1>. QED BY <1>1, <1>2, <1>3

\* The ways on by what they change.
LEMMA WaysOn ==
    ASSUME engine \in EngineStates, GoesOn
    PROVE  \/ AnotherTurn
           \/ engine' = Gone
           \/ (Ceased => engine.unsent # "none") /\ \E event \in Endings : engine' = Sending(event)
           \/ Working /\ \E event \in Events : ReportedAt(Kind, event) /\ engine' = Sending(event)
           \/ Working /\ engine' = InPhase("checking") /\ Kind \in {"act", "retry_act"}
           \/ Working /\ engine' = InPhase("waiting") /\ Kind \in {"ask", "act"}
           \/ Working /\ engine' = InPhase("denied") /\ Kind = "retry_act"
           \/ Working /\ engine' = InPhase("holding")
           \/ /\ Working /\ engine.step \in DOMAIN Script
              /\ Accounted(engine.step, recorded') /\ engine' = NextStep
           \/ engine.phase = "sending" /\ engine' = HaltLocally
           \/ NamedInstead
BY SmallChanges DEF GoesOn

\* What the engine goes over to fits its step and what it said before.
LEMMA GoingOnFits ==
    ASSUME engine \in EngineStates, EngineFits, GoesOn, held # NoRound, held' = held
    PROVE  engine' \in EngineStates /\ EngineFits'
<1>. USE ScriptFacts, NextEngines
<1>k. engine'.step = engine.step => Kind' = Kind
  BY DEF Kind
<1>1. CASE AnotherTurn
  BY <1>1, <1>k DEF AnotherTurn, EngineFits, Endings, ReportedAt
<1>3. CASE engine' = Gone
  BY <1>3 DEF EngineFits
<1>4. ASSUME NEW event \in Endings, engine' = Sending(event)
      PROVE  engine' \in EngineStates /\ EngineFits'
  BY <1>4 DEF EngineFits, Endings
<1>5. ASSUME Working, NEW event \in Events, ReportedAt(Kind, event),
             engine' = Sending(event)
      PROVE  engine' \in EngineStates /\ EngineFits'
  <2>1. engine.unsent = "none"
    BY <1>5 DEF Working, EngineFits
  <2>. QED BY <1>5, <2>1, <1>k DEF EngineFits
<1>6. ASSUME engine' = InPhase("checking"), Kind \in {"act", "retry_act"}
      PROVE  engine' \in EngineStates /\ EngineFits'
  BY <1>6, <1>k DEF EngineFits
<1>7. ASSUME engine' = InPhase("waiting"), Kind \in {"ask", "act"}
      PROVE  engine' \in EngineStates /\ EngineFits'
  BY <1>7, <1>k DEF EngineFits
<1>8. ASSUME engine' = InPhase("denied"), Kind = "retry_act"
      PROVE  engine' \in EngineStates /\ EngineFits'
  BY <1>8, <1>k DEF EngineFits
<1>9. ASSUME engine' = InPhase("holding")
      PROVE  engine' \in EngineStates /\ EngineFits'
  BY <1>9 DEF EngineFits
<1>10. ASSUME engine.step \in DOMAIN Script, engine' = NextStep
       PROVE  engine' \in EngineStates /\ EngineFits'
  BY <1>10 DEF EngineFits
<1>11. ASSUME engine.phase = "sending", engine' = HaltLocally
       PROVE  engine' \in EngineStates /\ EngineFits'
  BY <1>11, Halting DEF EngineFits
<1>12. CASE NamedInstead
  BY <1>12 DEF NamedInstead, EngineFits, Endings
<1>. QED BY <1>1, <1>3, <1>4, <1>5, <1>6, <1>7, <1>8, <1>9, <1>10, <1>11, <1>12, WaysOn

\* An engine at work has ceased nothing, and its Round's log has no ending.
LEMMA WorkingFacts ==
    ASSUME EngineFits, LogFits, Working, held # NoRound
    PROVE  /\ ~Ceased /\ engine.unsent = "none" /\ engine.gate # "through"
           /\ \A k \in recorded : k[2] \notin Endings
BY DEF Working, EngineFits, LogFits, NoWorkAfterTheEnding, Ceased, Endings

\* The log keeps its order and its typed keys.
LEMMA LoggingFits ==
    ASSUME engine \in EngineStates, LogTyped, EngineFits, LogFits, Logs, held # NoRound
    PROVE  /\ LogTyped' /\ recorded \subseteq recorded'
           /\ \A k \in recorded' : k[1] <= engine.step
           /\ \A i \in 1 .. (engine.step - 1) : Accounted(i, recorded')
           /\ InOrder(recorded')
<1>. USE ScriptFacts
<1>1. engine.phase = "sending" => engine.event \in Events
  BY DEF EngineFits, ReportedAt, Events
<1>2. engine.step \in 1 .. (Len(Script) + 1)
  BY DEF EngineStates
<1>3. recorded \subseteq recorded' /\ \A k \in recorded' : k \in recorded \/ k = Key
  BY DEF Logs
<1>4. LogTyped'
  BY <1>1, <1>2 DEF Logs, LogTyped, Key
<1>5. \A k \in recorded' : k[1] <= engine.step
  <2>1. Key[1] = engine.step
    BY DEF Key
  <2>. QED BY <2>1, <1>2, <1>3 DEF LogFits
<1>6. \A i : Accounted(i, recorded) => Accounted(i, recorded')
  BY <1>3 DEF Accounted
<1>7. \A i \in 1 .. (engine.step - 1) : Accounted(i, recorded')
  BY <1>6 DEF LogFits
<1>8. ASSUME NEW k \in recorded', NEW i \in 1 .. (k[1] - 1) PROVE Accounted(i, recorded')
  <2>1. CASE k \in recorded
    BY <1>6, <2>1 DEF LogFits, InOrder
  <2>2. CASE k = Key
    <3>1. i \in 1 .. (engine.step - 1)
      BY <2>2 DEF Key
    <3>. QED BY <3>1, <1>7
  <2>. QED BY <2>1, <2>2, <1>3
<1>9. InOrder(recorded')
  BY <1>8 DEF InOrder
<1>. QED BY <1>3, <1>4, <1>5, <1>7, <1>9

\* Going on from a log in order leaves it so, with nothing done after an ending.
LEMMA GoingOnLogs ==
    ASSUME engine \in EngineStates, LogTyped, EngineFits, LogFits, GoesOn, Logs,
           held # NoRound, held' = held
    PROVE  LogTyped' /\ LogFits'
<1>. USE ScriptFacts, NextEngines
<1>. DEFINE Stays == engine'.step = engine.step
            Further == /\ engine'.step = engine.step + 1 /\ Accounted(engine.step, recorded')
            EndingLogged == \E k \in recorded' : k[2] \in Endings
            Over == \/ engine'.phase \in {"halted", "gone"}
                    \/ engine'.phase = "sending" /\ engine'.event \in Endings
<1>1. Stays \/ Further
  BY Halting, WaysOn DEF AnotherTurn, NamedInstead
<1>2. engine.step \in Nat
  BY DEF EngineStates
<1>3. /\ LogTyped' /\ InOrder(recorded')
      /\ \A k \in recorded' : k[1] <= engine.step /\ k[1] \in Nat
      /\ \A i \in 1 .. (engine.step - 1) : Accounted(i, recorded')
  BY LoggingFits DEF LogTyped
<1>4. \A k \in recorded' : k[1] <= engine'.step
  BY <1>1, <1>2, <1>3
<1>5. \A i \in 1 .. (engine'.step - 1) : Accounted(i, recorded')
  BY <1>1, <1>2, <1>3
<1>6. CASE Working
  <2>1. \A k \in recorded' : k \in recorded \/ (k = Key /\ engine.phase = "sending")
    BY DEF Logs
  <2>2. engine.phase = "sending" => Key[2] \notin Endings
    BY <1>6 DEF Key, Working
  <2>3. ~EndingLogged
    BY <1>6, <2>1, <2>2, WorkingFacts
  <2>. QED BY <2>3, <1>3, <1>4, <1>5 DEF LogFits, NoWorkAfterTheEnding
<1>7. CASE ~Working
  <2>1. EndingLogged => \/ engine.phase \in {"halted", "gone"}
                        \/ engine.phase = "sending" /\ engine.event \in Endings
    BY DEF Logs, LogFits, NoWorkAfterTheEnding, Key
  <2>2. AnotherTurn => (EndingLogged => Over)
    BY <2>1 DEF AnotherTurn
  <2>3. NamedInstead => Over
    BY DEF NamedInstead, Endings
  <2>4. EndingLogged => Over
    BY <1>7, <2>2, <2>3, Halting, WaysOn
  <2>. QED BY <2>4, <1>3, <1>4, <1>5 DEF LogFits, NoWorkAfterTheEnding
<1>. QED BY <1>6, <1>7

\* An engine that ceased has ceased for good, and logs nothing but endings.
LEMMA GoingOnCeased ==
    ASSUME engine \in EngineStates, EngineFits, LogFits, GoesOn, Logs, held # NoRound, Ceased
    PROVE  Ceased' /\ \A k \in recorded' \ recorded : k[2] \in Endings
<1>. USE ScriptFacts, NextEngines
<1>1. ~Working
  BY WorkingFacts
<1>2. ASSUME NEW k \in recorded' \ recorded PROVE k[2] \in Endings
  <2>1. engine.phase = "sending" /\ k = Key
    BY <1>2 DEF Logs
  <2>. QED BY <1>1, <2>1 DEF Working, Key
<1>3. AnotherTurn => Ceased'
  BY DEF AnotherTurn, Ceased
<1>4. NamedInstead => Ceased'
  BY DEF NamedInstead, Ceased
<1>5. ASSUME engine' = Gone PROVE Ceased'
  BY <1>5 DEF Ceased, EngineFits
<1>6. ASSUME engine.unsent # "none", NEW event \in Endings, engine' = Sending(event)
      PROVE  Ceased'
  BY <1>6 DEF Ceased
<1>7. ASSUME engine.phase = "sending", engine' = HaltLocally PROVE Ceased'
  BY <1>7, Halting DEF Ceased
<1>8. Ceased'
  BY <1>1, <1>3, <1>4, <1>5, <1>6, <1>7, WaysOn
<1>. QED BY <1>2, <1>8

-----------------------------------------------------------------------------
(* Every action of the engine is a way on, and every other one leaves it.  *)

EngineActs == held # NoRound /\ held' = held /\ GoesOn /\ Logs

EngineStill ==
    /\ engine' = engine /\ held' = held /\ recorded' = recorded
    /\ held = NoRound /\ ~dropped => ~dropped'

EnginePart == engine \in EngineStates /\ LogTyped /\ EngineFits /\ LogFits

\* An engine that does anything works on a Round.
LEMMA ActiveHolds ==
    ASSUME EngineFits
    PROVE  /\ engine.phase # "idle" => held # NoRound
           /\ engine.gate # "closed" => held # NoRound
           /\ dropped => held # NoRound
BY DEF EngineFits, Idle

\* A step of the script has its kind.
LEMMA KindFacts ==
    ASSUME engine \in EngineStates
    PROVE  /\ Kind \in StepKinds \cup {"end"}
           /\ Kind # "end" => engine.step \in DOMAIN Script /\ Kind = Script[engine.step]
BY ScriptFacts DEF Kind, StepKinds, LastKinds

\* An engine that waits for the Owner, holds or is between checks ceased nothing.
LEMMA NotYetCeased ==
    ASSUME EngineFits, engine.phase \notin {"sending", "halted", "gone"}
    PROVE  ~Ceased
BY DEF EngineFits, Ceased

\* What the engine does without an answer from Galley is a way on.
LEMMA MovesGoOn == ASSUME EnginePart, EngineMove PROVE EngineActs
<1>0. EngineFits /\ engine \in EngineStates
  BY DEF EnginePart
<1>1. CASE BeginStep
  <2>1. held # NoRound /\ Working /\ ~Ceased
    BY <1>0, <1>1, ActiveHolds, NotYetCeased DEF BeginStep, Working
  <2>2. held' = held /\ recorded' = recorded
    BY <1>1 DEF BeginStep, heldVars
  <2>3. CASE stopSeen
    <3>1. engine' = Sending("stop_confirmed") /\ "stop_confirmed" \in Endings
      BY <1>1, <2>3 DEF BeginStep, Endings
    <3>. QED BY <2>1, <2>2, <3>1 DEF GoesOn, EngineActs, Logs
  <2>4. CASE ~stopSeen /\ Kind \in {"end", "hold", "act", "retry_act"}
    <3>1. \/ engine' = Gone
          \/ engine' = InPhase("holding")
          \/ engine' = InPhase("checking") /\ Kind \in {"act", "retry_act"}
      BY <1>1, <2>4 DEF BeginStep
    <3>. QED BY <2>1, <2>2, <3>1 DEF GoesOn, EngineActs, Logs
  <2>5. CASE ~stopSeen /\ Kind \notin {"end", "hold", "act", "retry_act"}
    <3>1. engine' = Sending(FirstEvent[Kind])
      BY <1>1, <2>5 DEF BeginStep
    <3>2. Kind \in {"start", "progress", "ask", "deliver", "fail", "interrupt"}
      BY <1>0, <2>5, KindFacts DEF StepKinds, LastKinds
    <3>3. FirstEvent[Kind] \in Endings \/ (FirstEvent[Kind] \in Events /\ ReportedAt(Kind, FirstEvent[Kind]))
      BY <3>2 DEF FirstEvent, Endings, Events, ReportedAt
    <3>4. CASE FirstEvent[Kind] \in Endings
      BY <2>1, <2>2, <3>1, <3>4 DEF GoesOn, EngineActs, Logs
    <3>5. CASE FirstEvent[Kind] \in Events /\ ReportedAt(Kind, FirstEvent[Kind])
      BY <2>1, <2>2, <3>1, <3>5 DEF GoesOn, EngineActs, Logs
    <3>. QED BY <3>3, <3>4, <3>5
  <2>. QED BY <2>3, <2>4, <2>5
<1>2. CASE LeaveDropped
  BY <1>0, <1>2, ActiveHolds DEF LeaveDropped, heldVars, EngineActs, GoesOn, Logs
<1>3. CASE JoinReconcile
  <2>1. engine' = [engine EXCEPT !.gate = "waiting", !.failed = engine.failed]
    BY <1>0, <1>3 DEF JoinReconcile, EngineStates
  <2>2. engine.gate # "through" /\ engine.failed \in BOOLEAN
    BY <1>0, <1>3 DEF JoinReconcile, EngineStates
  <2>3. GoesOn
    BY <2>1, <2>2 DEF GoesOn
  <2>4. held # NoRound
    BY <1>0, <1>3, ActiveHolds DEF JoinReconcile
  <2>. QED BY <1>3, <2>3, <2>4 DEF JoinReconcile, heldVars, EngineActs, Logs
<1>4. CASE Wake
  <2>1. held # NoRound /\ ~Ceased
    BY <1>0, <1>4, ActiveHolds, NotYetCeased DEF Wake
  <2>2. held' = held /\ recorded' = recorded
    BY <1>4 DEF Wake, heldVars
  <2>3. CASE stopSeen
    <3>1. engine' = Sending("stop_confirmed") /\ "stop_confirmed" \in Endings
      BY <1>4, <2>3 DEF Wake, Endings
    <3>. QED BY <2>1, <2>2, <3>1 DEF GoesOn, EngineActs, Logs
  <2>4. CASE ~stopSeen /\ engine.phase = "denied"
    <3>1. engine' = InPhase("checking") /\ Kind \in {"act", "retry_act"} /\ Working
      BY <1>0, <1>4, <2>4 DEF Wake, EngineFits, Working
    <3>. QED BY <2>1, <2>2, <3>1 DEF GoesOn, EngineActs, Logs
  <2>5. CASE ~stopSeen /\ engine.phase # "denied"
    <3>1. engine' = Sending("resumed") /\ engine.phase = "waiting"
      BY <1>4, <2>5 DEF Wake
    <3>2. ReportedAt(Kind, "resumed") /\ "resumed" \in Events
      BY <1>0, <3>1 DEF EngineFits, ReportedAt, Events
    <3>3. Working
      BY <3>1 DEF Working
    <3>. QED BY <2>1, <2>2, <3>1, <3>2, <3>3 DEF GoesOn, EngineActs, Logs
  <2>. QED BY <2>3, <2>4, <2>5
<1>. QED BY <1>1, <1>2, <1>3, <1>4 DEF EngineMove

\* A report that failed is tried again or given up.
LEMMA FailureGoesOn ==
    ASSUME EnginePart, engine.phase = "sending", engine' \in AfterAFailure
    PROVE  GoesOn
<1>1. engine' = TryAgain \/ engine' = HaltLocally
  BY DEF AfterAFailure
<1>2. CASE engine' = HaltLocally
  BY <1>2 DEF GoesOn
<1>3. CASE engine' = TryAgain /\ engine.gate = "through"
  <2>1. engine' = [engine EXCEPT !.failed = TRUE]
    BY <1>3 DEF TryAgain, EnginePart, EngineStates
  <2>. QED BY <2>1 DEF GoesOn
<1>4. CASE engine' = TryAgain /\ engine.gate # "through"
  <2>1. engine' = [engine EXCEPT !.gate = "closed", !.failed = TRUE]
    BY <1>4 DEF TryAgain, EnginePart, EngineStates
  <2>. QED BY <1>4, <2>1 DEF GoesOn
<1>. QED BY <1>1, <1>2, <1>3, <1>4

\* A report that is answered takes the engine on once it is in the log.
LEMMA AnswerGoesOn ==
    ASSUME EnginePart, engine.phase = "sending", Key \in recorded', engine' \in Answered
    PROVE  GoesOn
<1>. USE KindFacts
<1>1. CASE engine' \in AfterAFailure
  BY <1>1, FailureGoesOn
<1>2. CASE engine' = Advance
  <2>1. engine.event \in Endings \/ ReportedAt(Kind, engine.event)
    BY DEF EnginePart, EngineFits
  <2>2. engine.event \in {"start", "note", "performed", "answer_note", "ask", "request",
                          "resumed"} => Working /\ ReportedAt(Kind, engine.event)
    BY <2>1 DEF Working, Endings
  <2>3. CASE engine.unsent # "none"
    <3>1. engine' = Gone
      BY <1>2, <2>3 DEF Advance
    <3>. QED BY <3>1 DEF GoesOn
  <2>4. CASE engine.unsent = "none" /\ engine.event \in {"start", "note", "performed", "answer_note"}
    <3>1. engine' = NextStep
      BY <1>2, <2>4 DEF Advance
    <3>2. engine.step \in DOMAIN Script /\ Kind = Script[engine.step]
      BY <2>2, <2>4 DEF ReportedAt, EnginePart
    <3>3. Accounted(engine.step, recorded')
      BY <2>2, <2>4, <3>2 DEF ReportedAt, Accounted, Key
    <3>. QED BY <2>2, <2>4, <3>1, <3>2, <3>3 DEF GoesOn
  <2>5. CASE engine.unsent = "none" /\ engine.event \in {"ask", "request"}
    BY <1>2, <2>2, <2>5 DEF Advance, GoesOn, ReportedAt
  <2>6. CASE engine.unsent = "none" /\ engine.event = "resumed" /\ Kind = "ask"
    <3>1. engine' = Sending("answer_note")
      BY <1>2, <2>6 DEF Advance
    <3>. QED BY <2>2, <2>6, <3>1 DEF GoesOn, ReportedAt, Events
  <2>7. CASE engine.unsent = "none" /\ engine.event = "resumed" /\ Kind # "ask"
    BY <1>2, <2>2, <2>7 DEF Advance, GoesOn, ReportedAt
  <2>8. CASE engine.unsent = "none" /\ engine.event \in Endings
    BY <1>2, <2>8 DEF Advance, GoesOn, Endings
  <2>. QED BY <2>1, <2>3, <2>4, <2>5, <2>6, <2>7, <2>8 DEF ReportedAt
<1>. QED BY <1>1, <1>2 DEF Answered

\* What the engine does with Galley's answer, or for want of one, is a way on.
LEMMA RequestsGoOn == ASSUME EnginePart, EngineRequest PROVE EngineActs
<1>. USE ActiveHolds
<1>0. EngineFits /\ LogFits /\ engine \in EngineStates
  BY DEF EnginePart
<1>1. CASE EventRecorded
  <2>1. engine.phase = "sending" /\ recorded' = recorded \cup {Key} /\ engine' \in Answered
        /\ held' = held
    BY <1>1 DEF EventRecorded, Reporting, heldVars
  <2>2. GoesOn
    BY <2>1, AnswerGoesOn
  <2>. QED BY <1>0, <2>1, <2>2 DEF EngineActs, Logs
<1>2. CASE EventRecordedUnheard
  <2>1. engine.phase = "sending" /\ recorded' = recorded \cup {Key} /\ engine' \in AfterAFailure
        /\ held' = held
    BY <1>2 DEF EventRecordedUnheard, Reporting, heldVars
  <2>2. GoesOn
    BY <2>1, FailureGoesOn
  <2>. QED BY <1>0, <2>1, <2>2 DEF EngineActs, Logs
<1>3. CASE EventReplayed
  <2>1. engine.phase = "sending" /\ recorded' = recorded /\ Key \in recorded
        /\ engine' \in Answered /\ held' = held
    BY <1>3 DEF EventReplayed, Reporting, heldVars
  <2>2. GoesOn
    BY <2>1, AnswerGoesOn
  <2>. QED BY <1>0, <2>1, <2>2 DEF EngineActs, Logs
<1>4. CASE EventLost
  <2>1. engine.phase = "sending" /\ recorded' = recorded /\ engine' \in AfterAFailure
        /\ held' = held
    BY <1>4 DEF EventLost, Reporting, heldVars
  <2>2. GoesOn
    BY <2>1, FailureGoesOn
  <2>. QED BY <1>0, <2>1, <2>2 DEF EngineActs, Logs
<1>5. CASE EventRefused
  BY <1>0, <1>5 DEF EventRefused, Reporting, heldVars, EngineActs, Logs, GoesOn
<1>6. ASSUME Checking, recorded' = recorded, held' = held
      PROVE  /\ held # NoRound /\ Working /\ ~Ceased /\ Logs
             /\ Kind \in {"act", "retry_act"} /\ engine.gate # "through"
  BY <1>0, <1>6, WorkingFacts DEF Checking, Working, Logs, EngineFits
<1>7. CASE CheckAnswered
  <2>1. Checking /\ recorded' = recorded /\ held' = held
        /\ engine' \in {Sending("performed")} \cup Denied
    BY <1>7 DEF CheckAnswered, heldVars
  <2>2. CASE engine' = Sending("performed")
    BY <1>6, <2>1, <2>2 DEF EngineActs, GoesOn, ReportedAt, Events
  <2>3. CASE engine' \in Denied /\ Kind = "retry_act"
    <3>1. engine' = InPhase("denied") \/ engine' = NextStep
      BY <2>3 DEF Denied
    <3>2. engine.step \in DOMAIN Script /\ Accounted(engine.step, recorded')
      BY <1>0, <2>3, KindFacts DEF Accounted
    <3>. QED BY <1>6, <2>1, <2>3, <3>1, <3>2 DEF EngineActs, GoesOn
  <2>4. CASE engine' \in Denied /\ Kind = "act"
    <3>1. engine' = Sending("failed") \/ engine' = Sending("request")
      BY <2>4 DEF Denied
    <3>2. "failed" \in Endings /\ "request" \in Events /\ ReportedAt(Kind, "request")
      BY <2>4 DEF Endings, Events, ReportedAt
    <3>. QED BY <1>6, <2>1, <3>1, <3>2 DEF EngineActs, GoesOn
  <2>. QED BY <1>6, <2>1, <2>2, <2>3, <2>4
<1>8. CASE CheckUnsupported
  BY <1>6, <1>8 DEF CheckUnsupported, heldVars, EngineActs, GoesOn, Endings
<1>9. ASSUME Checking, recorded' = recorded, held' = held,
             engine' = [engine EXCEPT !.gate = "closed"]
      PROVE  EngineActs
  <2>1. engine' = [engine EXCEPT !.gate = "closed", !.failed = engine.failed]
        /\ engine.failed \in BOOLEAN
    BY <1>0, <1>9 DEF EngineStates
  <2>. QED BY <1>6, <1>9, <2>1 DEF EngineActs, GoesOn
<1>10. CASE CheckLost \/ CheckUnanswered
  BY <1>9, <1>10 DEF CheckLost, CheckUnanswered, heldVars
<1>11. CASE CheckRefused
  BY <1>6, <1>11 DEF CheckRefused, heldVars, EngineActs, GoesOn
<1>. QED BY <1>1, <1>2, <1>3, <1>4, <1>5, <1>7, <1>8, <1>10, <1>11 DEF EngineRequest

\* A Reconcile's answer takes an engine on that waits for it, and leaves any other.
LEMMA FinishingGoesOn ==
    ASSUME EnginePart, rec.answer \in {"null", "continue", "stop", "stop_confirmed",
                                       "interrupted", "hold", "refused"},
           FinishReconcile
    PROVE  EngineActs \/ EngineStill
<1>. USE ActiveHolds DEF EnginePart
<1>0. /\ held' = held /\ recorded' = recorded /\ engine' = ThroughTheGate(rec.answer)
      /\ dropped' = (dropped \/ (rec.answer \in {"hold", "refused"} /\ held # NoRound))
  BY DEF FinishReconcile
<1>1. /\ held' = held /\ recorded' = recorded /\ engine' = ThroughTheGate(rec.answer)
      /\ held = NoRound /\ ~dropped => ~dropped'
  BY <1>0
<1>2. CASE engine.gate # "waiting" \/ engine.phase = "gone"
  <2>1. engine' = engine
    BY <1>1, <1>2 DEF ThroughTheGate
  <2>. QED BY <1>1, <2>1 DEF EngineStill
<1>3. ASSUME engine.gate = "waiting", engine.phase # "gone" PROVE GoesOn
  <2>1. engine.failed \in BOOLEAN
        /\ \A gate \in {"closed", "open"} :
              [engine EXCEPT !.gate = gate]
                 = [engine EXCEPT !.gate = gate, !.failed = engine.failed]
    BY DEF EngineStates
  <2>2. CASE engine.phase = "halted"
    <3>0. engine.unsent # "none"
      BY <2>2 DEF EngineFits
    <3>1. engine' = AnswerToTheHalted(rec.answer) /\ engine.unsent # "none"
      BY <1>1, <1>3, <2>2, <3>0 DEF ThroughTheGate
    <3>2. \/ engine' = Gone
          \/ \E event \in Endings : engine' = Sending(event)
          \/ engine' = [engine EXCEPT !.gate = "closed"]
      BY <3>1 DEF AnswerToTheHalted, Endings
    <3>. QED BY <1>3, <2>1, <3>1, <3>2 DEF GoesOn
  <2>3. CASE engine.phase # "halted" /\ engine.event = "stop_confirmed"
    <3>1. engine.phase = "sending"
      BY <1>3, <2>3 DEF EngineFits
    <3>2. \/ engine' = [engine EXCEPT !.gate = "open"]
          \/ \E event \in {"stop_confirmed", "interrupted"} :
                engine' = [engine EXCEPT !.gate = "through", !.event = event]
          \/ engine' = Gone
      BY <1>1, <1>3, <2>3 DEF ThroughTheGate
    <3>. QED BY <1>3, <2>1, <2>3, <3>1, <3>2 DEF GoesOn
  <2>4. CASE engine.phase # "halted" /\ engine.event # "stop_confirmed"
    <3>1. Ceased => engine.unsent # "none"
      BY <1>3, <2>4 DEF Ceased
    <3>2. \/ engine' = [engine EXCEPT !.gate = "open"]
          \/ engine' = Sending("stop_confirmed")
          \/ engine' = Gone
      BY <1>1, <1>3, <2>4 DEF ThroughTheGate
    <3>. QED BY <1>3, <2>1, <3>1, <3>2 DEF GoesOn, Endings
  <2>. QED BY <2>2, <2>3, <2>4
<1>. QED BY <1>1, <1>2, <1>3 DEF EngineActs, Logs

\* The loops, the Owner and a pull leave the engine where it is.
LEMMA OthersLeaveTheEngine ==
    ASSUME \/ HeartbeatStep \/ StartReconcile \/ HandleReconcile \/ ReconcileLost
           \/ AskClaim \/ TakeClaim \/ AdmitClaim \/ ClaimAnsweredEmpty \/ ClaimRefused
           \/ PullCommands \/ OwnerStep
    PROVE  EngineStill
<1>. USE DEF EngineStill, heldVars, michelinVars
<1>1. CASE HeartbeatStep
  BY <1>1 DEF HeartbeatStep, Register, Heartbeat, BeatAnswered, BeatLost, BeatRefused
<1>2. CASE StartReconcile \/ HandleReconcile \/ ReconcileLost
  BY <1>2 DEF StartReconcile, HandleReconcile, ReconcileLost
<1>3. CASE AskClaim \/ TakeClaim \/ AdmitClaim \/ ClaimAnsweredEmpty \/ ClaimRefused
  BY <1>3 DEF AskClaim, TakeClaim, AdmitClaim, ClaimAnsweredEmpty, ClaimRefused
<1>4. CASE PullCommands \/ OwnerStep
  BY <1>4 DEF PullCommands, OwnerStep
<1>. QED BY <1>1, <1>2, <1>3, <1>4

-----------------------------------------------------------------------------
(* The engine's part of the invariant, and an engine that ceased.          *)

\* A step is one of the engine's, or holds, lets go of or forgets a Round, or leaves
\* the engine where it is.
LEMMA StepsOfTheEngine ==
    ASSUME EnginePart, MichelinTypeOK, LoopsFit, [MichelinNext]_allVars
    PROVE  EngineActs \/ EngineStill \/ HoldRound \/ Release \/ Restart
<1>1. CASE ReconcileStep
  <2>1. CASE FinishReconcile
    <3>1. rec.answer \in {"null", "continue", "stop", "stop_confirmed", "interrupted",
                          "hold", "refused"}
      BY <2>1 DEF FinishReconcile, MichelinTypeOK
    <3>. QED BY <2>1, <3>1, FinishingGoesOn
  <2>. QED BY <1>1, <2>1, OthersLeaveTheEngine DEF ReconcileStep
<1>2. CASE ClaimLoopStep
  BY <1>2, OthersLeaveTheEngine DEF ClaimLoopStep
<1>3. CASE EngineMove
  BY <1>3, MovesGoOn
<1>4. CASE EngineRequest
  BY <1>4, RequestsGoOn
<1>5. CASE HeartbeatStep \/ PullCommands \/ OwnerStep
  BY <1>5, OthersLeaveTheEngine
<1>6. CASE allVars' = allVars
  BY <1>6 DEF allVars, michelinVars, heldVars, EngineStill
<1>. QED BY <1>1, <1>2, <1>3, <1>4, <1>5, <1>6 DEF MichelinNext

\* A step keeps the engine in line with its script, its log and what it said, and never
\* takes back that it ceased.
LEMMA EngineStep ==
    ASSUME EnginePart, MichelinTypeOK, LoopsFit, [MichelinNext]_allVars
    PROVE  /\ EnginePart'
           /\ Ceased /\ held # NoRound
                => \/ held' # held
                   \/ Ceased' /\ \A k \in recorded' \ recorded : k[2] \in Endings
<1>0. engine \in EngineStates /\ LogTyped /\ EngineFits /\ LogFits
  BY DEF EnginePart
<1>1. CASE EngineActs
  <2>1. EnginePart'
    BY <1>0, <1>1, GoingOnFits, GoingOnLogs DEF EngineActs, EnginePart
  <2>. QED BY <1>0, <1>1, <2>1, GoingOnCeased DEF EngineActs
<1>2. CASE EngineStill
  <2>1. Kind' = Kind /\ (Ceased => Ceased')
    BY <1>2 DEF EngineStill, Kind, Ceased
  <2>2. EngineFits'
    BY <1>0, <1>2, <2>1 DEF EngineStill, EngineFits
  <2>3. LogFits' /\ LogTyped' /\ engine' \in EngineStates
    BY <1>0, <1>2 DEF EngineStill, LogFits, LogTyped, NoWorkAfterTheEnding
  <2>. QED BY <1>2, <2>1, <2>2, <2>3 DEF EnginePart, EngineStill
<1>3. CASE HoldRound
  <2>1. held = NoRound /\ engine = Idle
    BY <1>0, <1>3 DEF HoldRound, LoopsFit, EngineFits
  <2>2. /\ engine' \in EngineStates
        /\ engine'.phase = "step" /\ engine'.step = 1 /\ engine'.event = "none"
        /\ engine'.gate = "closed" /\ engine'.unsent = "none"
    BY <1>0, <1>3, <2>1, NextEngines DEF HoldRound, Idle
  <2>3. held' # NoRound /\ recorded' = {}
    BY <1>3 DEF HoldRound
  <2>4. EngineFits'
    BY <2>2, <2>3 DEF EngineFits
  <2>5. LogFits' /\ LogTyped'
    BY <2>2, <2>3 DEF LogFits, LogTyped, InOrder, NoWorkAfterTheEnding
  <2>. QED BY <2>1, <2>2, <2>4, <2>5 DEF EnginePart
<1>4. CASE Release \/ Restart
  <2>1. held' = NoRound /\ engine' = Idle /\ dropped' = FALSE /\ recorded' = recorded
    BY <1>4 DEF Release, Restart
  <2>2. engine' \in EngineStates
    BY <2>1, ScriptFacts DEF Idle, EngineStates
  <2>3. EngineFits'
    BY <2>1 DEF EngineFits, Idle
  <2>4. LogFits' /\ LogTyped'
    BY <1>0, <2>1 DEF LogFits, LogTyped, NoWorkAfterTheEnding
  <2>. QED BY <2>1, <2>2, <2>3, <2>4 DEF EnginePart
<1>. QED BY <1>1, <1>2, <1>3, <1>4, StepsOfTheEngine

-----------------------------------------------------------------------------
(* Every step of Michelin's is one of Galley's handlers, or none of them.  *)

\* A Round that is held is one of Galley's; a step of the script is an ask's number.
LEMMA ReportsOfTheHeld ==
    ASSUME EnginePart, MichelinTypeOK, Reporting, HandledByGalley
    PROVE  Next
<1>1. held \in Round /\ Me \in Runner
  BY ActiveHolds, MichelinAssumption DEF EnginePart, MichelinTypeOK, Reporting
<1>2. engine.event \in {"ask", "request", "resumed"} => engine.step \in Ask
  BY KindFacts, ScriptFacts DEF EnginePart, EngineFits, Reporting, ReportedAt, Endings
<1>3. Event(Me, held)
  BY <1>1, <1>2 DEF HandledByGalley, Event
<1>. QED BY <1>1, <1>3 DEF Next, EventStep

LEMMA GalleyStep ==
    ASSUME EnginePart, MichelinTypeOK, LoopsFit, [MichelinNext]_allVars
    PROVE  [Next]_vars
<1>0. Me \in Runner
  BY MichelinAssumption
<1>1. CASE HeartbeatStep
  BY <1>1 DEF HeartbeatStep, Register, Heartbeat, BeatAnswered, BeatLost, BeatRefused,
              Next, CredentialStep
<1>2. CASE ReconcileStep
  <2>1. ASSUME NEW r \in Round, rec.belief # "none", Reconcile(Me, r, rec.belief)
        PROVE  Next
    <3>1. rec.belief \in {"nothing", "running", "stopped", "unknown"}
      BY <2>1 DEF MichelinTypeOK
    <3>2. Event(Me, r)
      BY <2>1, <3>1 DEF Event
    <3>. QED BY <1>0, <3>2 DEF Next, EventStep
  <2>. QED BY <1>2, <2>1 DEF ReconcileStep, StartReconcile, HandleReconcile, ReconcileLost,
                             FinishReconcile
<1>3. CASE ClaimLoopStep
  <2>1. CASE AdmitClaim
    BY <1>0, <2>1 DEF AdmitClaim, Next, ClaimStep
  <2>2. CASE TakeClaim
    BY <2>2 DEF TakeClaim, Next, ClaimStep
  <2>3. CASE ClaimAnsweredEmpty
    BY <1>0, <2>3 DEF ClaimAnsweredEmpty, Next, ClaimStep
  <2>. QED BY <1>3, <2>1, <2>2, <2>3 DEF ClaimLoopStep, AskClaim, HoldRound, ClaimRefused,
                                         Release
<1>4. CASE EngineMove \/ PullCommands
  BY <1>4 DEF EngineMove, BeginStep, LeaveDropped, JoinReconcile, Wake, PullCommands
<1>5. CASE EngineRequest
  <2>1. CASE EventRecorded \/ EventRecordedUnheard
    BY <2>1, ReportsOfTheHeld DEF EventRecorded, EventRecordedUnheard
  <2>2. CASE CheckAnswered \/ CheckLost
    <3>1. held \in Round
      BY <2>2, ActiveHolds DEF EnginePart, MichelinTypeOK, CheckAnswered, CheckLost, Checking
    <3>2. CheckAuthority(Me, held) => Next
      BY <1>0, <3>1 DEF Event, Next, EventStep
    <3>. QED BY <2>2, <3>2 DEF CheckAnswered, CheckLost
  <2>. QED BY <1>5, <2>1, <2>2 DEF EngineRequest, EventReplayed, EventLost, EventRefused,
                                   CheckUnsupported, CheckUnanswered, CheckRefused
<1>6. CASE OwnerStep
  BY <1>6 DEF OwnerStep, Next, OwnerRoundStep, CredentialStep
<1>7. CASE Restart
  <2>1. CASE claiming' = claiming
    BY <1>7, <2>1 DEF Restart, vars, runnerVars
  <2>2. CASE claiming' = claiming \ {Me} /\ Me \in claiming
    <3>1. ClaimNothing(Me)
      BY <1>7, <2>2 DEF Restart, ClaimNothing
    <3>. QED BY <1>0, <3>1 DEF Next, ClaimStep
  <2>3. CASE claiming' = claiming \ {Me} /\ Me \notin claiming
    <3>1. claiming' = claiming
      BY <2>3
    <3>. QED BY <1>7, <3>1 DEF Restart, vars, runnerVars
  <2>. QED BY <1>7, <2>1, <2>2, <2>3 DEF Restart
<1>8. CASE allVars' = allVars
  BY <1>8 DEF allVars
<1>. QED BY <1>1, <1>2, <1>3, <1>4, <1>5, <1>6, <1>7, <1>8 DEF MichelinNext

-----------------------------------------------------------------------------
(* The loops: types, and what their requests go with.                      *)

\* The variables of the loops, typed.
LoopsTyped ==
    /\ registered \in BOOLEAN /\ owed \in BOOLEAN
    /\ beat \in {"none", "registered", "required", "fine"}
    /\ rec \in [belief : {"none", "nothing", "running", "stopped"},
                stale : BOOLEAN,
                answer : {"none", "null", "continue", "stop", "stop_confirmed",
                          "interrupted", "hold", "refused"}]
    /\ claim \in {"none", "asked"}
    /\ keyRound \in Round \cup {NoRound} /\ held \in Round \cup {NoRound}
    /\ dropped \in BOOLEAN /\ stopSeen \in BOOLEAN
    /\ inbox \subseteq Ask
    /\ restarts \in 0..MaxRestarts

LEMMA TypesApart == MichelinTypeOK <=> LoopsTyped /\ engine \in EngineStates /\ LogTyped
BY DEF MichelinTypeOK, LoopsTyped, EngineStates, LogTyped

\* What a Reconcile's flag does to it.
LEMMA Raising ==
    ASSUME LoopsTyped, RaiseReconcile
    PROVE  /\ owed' = TRUE
           /\ rec' \in [belief : {"none", "nothing", "running", "stopped"},
                        stale : BOOLEAN,
                        answer : {"none", "null", "continue", "stop", "stop_confirmed",
                                  "interrupted", "hold", "refused"}]
           /\ rec'.belief = rec.belief /\ rec'.answer = rec.answer
           /\ rec.belief # "none" => rec'.stale = TRUE
<1>1. CASE rec.belief = "none"
  BY <1>1 DEF RaiseReconcile, LoopsTyped
<1>2. CASE rec.belief # "none"
  BY <1>2 DEF RaiseReconcile, LoopsTyped
<1>. QED BY <1>1, <1>2

\* Every step keeps the loops' variables in their types.
LEMMA LoopsTypedStep ==
    ASSUME SlotInv, LoopsTyped, [MichelinNext]_allVars
    PROVE  LoopsTyped'
<1>. USE DEF LoopsTyped, heartbeatVars, claimLoopVars, heldVars, michelinVars
<1>1. CASE HeartbeatStep
  <2>1. CASE Register \/ Heartbeat
    BY <2>1 DEF Register, Heartbeat
  <2>2. CASE BeatAnswered \/ BeatLost \/ BeatRefused
    BY <2>2, Raising DEF BeatAnswered, BeatLost, BeatRefused
  <2>. QED BY <1>1, <2>1, <2>2 DEF HeartbeatStep
<1>2. CASE ReconcileStep
  <2>1. CASE StartReconcile
    BY <2>1 DEF StartReconcile, NoReconcile
  <2>2. CASE HandleReconcile
    <3>1. ASSUME NEW stop \in BOOLEAN, NEW belief
          PROVE  Disposition(belief, stop) \in {"continue", "stop", "stop_confirmed",
                                                "interrupted", "hold"}
      BY <3>1 DEF Disposition
    <3>2. \A r \in Round : stopRequested[r] \in BOOLEAN
      BY DEF SlotInv, TypeOK
    <3>. QED BY <2>2, <3>1, <3>2 DEF HandleReconcile
  <2>3. CASE ReconcileLost
    BY <2>3 DEF ReconcileLost
  <2>4. CASE FinishReconcile
    BY <2>4 DEF FinishReconcile, NoReconcile
  <2>. QED BY <1>2, <2>1, <2>2, <2>3, <2>4 DEF ReconcileStep
<1>3. CASE ClaimLoopStep
  <2>1. CASE AdmitClaim
    BY <2>1 DEF AdmitClaim
  <2>2. CASE ClaimAnsweredEmpty
    BY <2>2 DEF ClaimAnsweredEmpty
  <2>. QED BY <1>3, <2>1, <2>2 DEF ClaimLoopStep, AskClaim, TakeClaim, HoldRound,
                                   ClaimRefused, Release
<1>4. CASE EngineMove
  BY <1>4 DEF EngineMove, BeginStep, LeaveDropped, JoinReconcile, Wake
<1>5. CASE EngineRequest
  <2>1. CASE CheckUnanswered
    BY <2>1, Raising DEF CheckUnanswered
  <2>. QED BY <1>5, <2>1 DEF EngineRequest, EventRecorded, EventRecordedUnheard,
              EventReplayed, EventLost, EventRefused, CheckAnswered, CheckUnsupported,
              CheckLost, CheckRefused
<1>6. CASE PullCommands
  <2>1. stopRequested[held] \in BOOLEAN
    BY <1>6 DEF PullCommands, SlotInv, TypeOK
  <2>2. AnswersPulled \subseteq Ask
    BY DEF AnswersPulled
  <2>. QED BY <1>6, <2>1, <2>2 DEF PullCommands
<1>7. CASE OwnerStep
  BY <1>7 DEF OwnerStep
<1>8. CASE Restart
  <2>1. restarts' \in 0..MaxRestarts
    BY <1>8, MichelinAssumption DEF Restart
  <2>2. rec' \in [belief : {"none", "nothing", "running", "stopped"},
                  stale : BOOLEAN,
                  answer : {"none", "null", "continue", "stop", "stop_confirmed",
                            "interrupted", "hold", "refused"}]
    BY <1>8 DEF Restart, NoReconcile
  <2>. QED BY <1>8, <2>1, <2>2 DEF Restart
<1>9. CASE allVars' = allVars
  BY <1>9 DEF allVars
<1>. QED BY <1>1, <1>2, <1>3, <1>4, <1>5, <1>6, <1>7, <1>8, <1>9 DEF MichelinNext

\* A request in flight keeps to the hold it was made under, and a heartbeat's answer to
\* the registration it was sent under.
LEMMA LoopsFitStep ==
    ASSUME LoopsTyped, LoopsFit, EngineFits, [MichelinNext]_allVars
    PROVE  LoopsFit'
<1>. USE DEF LoopsFit, heartbeatVars, claimLoopVars, heldVars, michelinVars
<1>1. CASE HeartbeatStep
  <2>1. CASE Register \/ Heartbeat
    BY <2>1 DEF Register, Heartbeat
  <2>2. CASE BeatAnswered \/ BeatLost \/ BeatRefused
    BY <2>2, Raising DEF BeatAnswered, BeatLost, BeatRefused
  <2>. QED BY <1>1, <2>1, <2>2 DEF HeartbeatStep
<1>2. CASE ReconcileStep
  <2>1. CASE StartReconcile
    <3>1. rec'.belief = IF held = NoRound THEN "nothing"
                        ELSE IF Ceased THEN "stopped" ELSE "running"
      BY <2>1 DEF StartReconcile, NoReconcile
    <3>2. rec'.answer = "none"
      BY <2>1 DEF StartReconcile, NoReconcile
    <3>3. engine.phase = "halted" => held # NoRound
      BY ActiveHolds
    <3>4. (held = NoRound => owed) /\ claim = "none"
      BY <2>1, <3>3 DEF StartReconcile, ReconcileAsked, LoopsTyped
    <3>5. UNCHANGED <<registered, owed, beat, claim, held>>
      BY <2>1 DEF StartReconcile
    <3>. QED BY <3>1, <3>2, <3>4, <3>5
  <2>2. CASE HandleReconcile
    <3>1. rec'.belief = rec.belief /\ rec.belief # "none"
      BY <2>2 DEF HandleReconcile, LoopsTyped
    <3>2. UNCHANGED <<registered, owed, beat, claim, held>>
      BY <2>2 DEF HandleReconcile
    <3>. QED BY <3>1, <3>2
  <2>3. CASE ReconcileLost
    BY <2>3 DEF ReconcileLost, LoopsTyped
  <2>4. CASE FinishReconcile
    BY <2>4 DEF FinishReconcile, NoReconcile
  <2>. QED BY <1>2, <2>1, <2>2, <2>3, <2>4 DEF ReconcileStep
<1>3. CASE ClaimLoopStep
  BY <1>3 DEF ClaimLoopStep, AskClaim, TakeClaim, AdmitClaim, ClaimAnsweredEmpty,
              HoldRound, ClaimRefused, Release
<1>4. CASE EngineMove
  BY <1>4 DEF EngineMove, BeginStep, LeaveDropped, JoinReconcile, Wake
<1>5. CASE EngineRequest
  <2>1. CASE CheckUnanswered
    BY <2>1, Raising DEF CheckUnanswered
  <2>. QED BY <1>5, <2>1 DEF EngineRequest, EventRecorded, EventRecordedUnheard,
              EventReplayed, EventLost, EventRefused, CheckAnswered, CheckUnsupported,
              CheckLost, CheckRefused
<1>6. CASE PullCommands \/ OwnerStep
  BY <1>6 DEF PullCommands, OwnerStep
<1>7. CASE Restart
  BY <1>7 DEF Restart, NoReconcile
<1>8. CASE allVars' = allVars
  BY <1>8 DEF allVars
<1>. QED BY <1>1, <1>2, <1>3, <1>4, <1>5, <1>6, <1>7, <1>8 DEF MichelinNext

-----------------------------------------------------------------------------
(* The flag.                                                               *)

\* A Round goes forward: it is never unclaimed again, and never open again.
RoundsGoForward ==
    \A r \in Round :
        /\ roundState'[r] = "unclaimed" => roundState[r] = "unclaimed"
        /\ Open(r)' => Open(r) \/ roundState[r] = "unclaimed"

LEMMA GoingForward == ASSUME SlotInv, [Next]_vars PROVE RoundsGoForward
<1>1. ASSUME NEW r \in Round
      PROVE  \/ roundState'[r] = roundState[r]
             \/ Open(r) /\ roundState'[r] # "unclaimed"
             \/ roundState[r] = "unclaimed"
  <2>. DEFINE Forward == \/ roundState'[r] = roundState[r]
                         \/ Open(r) /\ roundState'[r] # "unclaimed"
                         \/ roundState[r] = "unclaimed"
  <2>. USE DEF SlotInv, TypeOK, Open, OpenStates
  <2>1. CASE OwnerTicketStep \/ UNCHANGED vars
    BY <2>1 DEF OwnerTicketStep, ChangeTicketStatus, AcceptTicket,
        RequestTicketRework, SetAssignee, UpdateTicket, ArchiveTicket,
        RestoreTicket, vars
  <2>2. CASE OwnerRoundStep
    BY <2>2 DEF OwnerRoundStep, RequestStop, AttestCessation, AnswerQuestion,
        DecidePermission, DecideAsk
  <2>3. CASE CredentialStep
    BY <2>3 DEF CredentialStep, PairRunner, RevokeRunner, RegisterRunner,
        RunnerHeartbeat, HealthWindowPasses
  <2>4. CASE ClaimStep
    BY <2>4 DEF ClaimStep, AuthenticateClaim, ClaimNothing, ClaimWork
  <2>5. ASSUME NEW rn \in Runner, NEW q \in Round, Event(rn, q) PROVE Forward
    BY <2>5 DEF Event, Reports, ExecutionStarted, ProgressOrUsage, Delivered,
        StopConfirmed, Failed, Interrupted, EndRound, RaiseAsk, Resumed,
        CheckAuthority, Reconcile
  <2>. QED BY <2>1, <2>2, <2>3, <2>4, <2>5 DEF Next, EventStep
<1>. QED BY <1>1 DEF RoundsGoForward, Open, OpenStates

\* No Round is flagged anew while the flags stay as they are.
LEMMA FlagsStay ==
    ASSUME FlagFits, RoundsGoForward, reconcileRequired' = reconcileRequired
    PROVE  /\ \A r \in Round : Flagged(r)' => Flagged(r)
           /\ \A r \in Round : roundState'[r] = "unclaimed" => ~reconcileRequired'[r]
BY DEF FlagFits, RoundsGoForward, Flagged

\* The registration and the Reconcile stay as they are.
LoopsStill == owed' = owed /\ beat' = beat /\ registered' = registered /\ rec' = rec

\* A flag that is not raised anew stays known while the loops' requests stay.
LEMMA FlagFitsStill ==
    ASSUME FlagFits, RoundsGoForward, reconcileRequired' = reconcileRequired, LoopsStill
    PROVE  FlagFits'
BY FlagsStay DEF FlagFits, LoopsStill, FlagIsKnown, Flagged, WillHear

\* Once the runner owes a Reconcile and none in flight is still of use, or has yet to
\* register, every flag is known.
LEMMA FlagFitsRaised ==
    ASSUME FlagFits, RoundsGoForward, reconcileRequired' = reconcileRequired,
           LoopsTyped, LoopsFit,
           RaiseReconcile \/ ~registered'
    PROVE  FlagFits'
<1>1. \A r \in Round : roundState'[r] = "unclaimed" => ~reconcileRequired'[r]
  BY FlagsStay
<1>2. CASE RaiseReconcile
  BY <1>1, <1>2, Raising DEF FlagFits, FlagIsKnown, LoopsFit
<1>3. CASE ~registered'
  BY <1>1, <1>3 DEF FlagFits, FlagIsKnown, WillHear
<1>. QED BY <1>2, <1>3

\* What Galley's answer to a Reconcile leaves flagged, the runner owes another for.
LEMMA FlagFitsHandled ==
    ASSUME SlotInv, LoopsTyped, LoopsFit, FlagFits, HandleReconcile
    PROVE  FlagFits'
<1>. USE DEF heartbeatVars
<1>1. UNCHANGED <<owed, beat, registered>>
  BY DEF HandleReconcile
<1>2. ASSUME NEW r \in Round, Reconcile(Me, r, rec.belief), rec.belief # "none",
             rec' = [rec EXCEPT !.answer = Disposition(rec.belief, stopRequested[r])]
      PROVE  FlagFits'
  <2>1. /\ Open(r) /\ roundState' = roundState
        /\ reconcileRequired' = [reconcileRequired EXCEPT ![r] =
              StillRequired(IF rec.belief = "nothing" THEN "unknown" ELSE rec.belief, @)]
    BY <1>2 DEF Reconcile, Reports, Open
  <2>2. \A q \in Round : Open(q) => q = r
    BY <2>1 DEF SlotInv, OneOpenRound
  <2>3. \A q \in Round : q # r => reconcileRequired'[q] = reconcileRequired[q]
    BY <2>1 DEF SlotInv, TypeOK
  <2>4. \A q \in Round : roundState'[q] = "unclaimed" => ~reconcileRequired'[q]
    BY <2>1, <2>3 DEF FlagFits, Open, OpenStates
  <2>5. rec.belief \in {"nothing", "running", "stopped"}
    BY <1>2 DEF LoopsTyped
  <2>6. /\ rec'.answer = Disposition(rec.belief, stopRequested[r])
        /\ reconcileRequired'[r] =
              StillRequired(IF rec.belief = "nothing" THEN "unknown" ELSE rec.belief,
                            reconcileRequired[r])
    BY <1>2, <2>1 DEF LoopsTyped, SlotInv, TypeOK
  <2>7. CASE rec.belief = "running"
    <3>1. reconcileRequired'[r] = FALSE
      BY <2>6, <2>7 DEF StillRequired
    <3>2. \A q \in Round : ~(Flagged(q)')
      BY <2>1, <2>2, <3>1 DEF Flagged, Open
    <3>. QED BY <2>4, <3>2 DEF FlagFits, FlagIsKnown, Flagged
  <2>8. CASE rec.belief = "stopped"
    <3>1. reconcileRequired'[r] = reconcileRequired[r]
      BY <2>6, <2>8 DEF StillRequired
    <3>2. rec'.answer \in {"stop_confirmed", "interrupted"}
      BY <2>6, <2>8 DEF Disposition
    <3>3. \A q \in Round : Flagged(q)' => Flagged(q)
      BY <2>1, <2>3, <3>1 DEF Flagged, Open
    <3>. QED BY <1>1, <2>4, <3>2, <3>3 DEF FlagFits, FlagIsKnown, Flagged
  <2>9. CASE rec.belief = "nothing"
    <3>1. owed
      BY <2>9 DEF LoopsFit
    <3>2. rec'.answer = "hold"
      BY <2>6, <2>9 DEF Disposition
    <3>. QED BY <1>1, <2>4, <3>1, <3>2 DEF FlagFits, FlagIsKnown
  <2>. QED BY <2>5, <2>7, <2>8, <2>9
<1>3. CASE UNCHANGED vars /\ ~SlotTaken
  <2>1. \A q \in Round : ~(Flagged(q)')
    BY <1>3 DEF Flagged, Open, SlotTaken, vars
  <2>2. \A q \in Round : roundState'[q] = "unclaimed" => ~reconcileRequired'[q]
    BY <1>3 DEF vars, reconcileVars, FlagFits
  <2>. QED BY <2>1, <2>2 DEF FlagFits, FlagIsKnown, Flagged
<1>4. CASE UNCHANGED vars /\ rec' = [rec EXCEPT !.answer = "refused"]
  <2>1. rec'.answer = "refused"
    BY <1>4 DEF LoopsTyped
  <2>2. roundState' = roundState /\ reconcileRequired' = reconcileRequired
    BY <1>4 DEF vars, reconcileVars
  <2>. QED BY <1>1, <2>1, <2>2 DEF FlagFits, FlagIsKnown, Open
<1>. QED BY <1>2, <1>3, <1>4 DEF HandleReconcile

\* A registration's answer, or a heartbeat's that names the flag, is on its way to the
\* loop that raises the Reconcile.
LEMMA FlagFitsBeats ==
    ASSUME SlotInv, FlagFits, Register \/ Heartbeat
    PROVE  FlagFits'
<1>1. /\ roundState' = roundState
      /\ reconcileRequired' = reconcileRequired \/ FlagOpenRound
  BY DEF Register, RegisterRunner, Heartbeat, RunnerHeartbeat
<1>2. \A r \in Round : roundState'[r] = "unclaimed" => ~reconcileRequired'[r]
  BY <1>1 DEF FlagFits, FlagOpenRound, Open, OpenStates
<1>3. \A r \in Round : Flagged(r)' => WillHear'
  <2>1. CASE Register
    BY <2>1 DEF Register, WillHear
  <2>2. CASE Heartbeat
    BY <1>1, <2>2 DEF Heartbeat, WillHear, Flagged, Open
  <2>. QED BY <2>1, <2>2
<1>. QED BY <1>2, <1>3 DEF FlagFits, FlagIsKnown, Flagged, WillHear

\* An answer to a heartbeat that owes nothing found no Round flagged, and one to a
\* Reconcile settles the flag only when nothing raised it since.
LEMMA FlagFitsAnswers ==
    ASSUME LoopsTyped, LoopsFit, FlagFits, BeatAnswered \/ FinishReconcile
    PROVE  FlagFits'
<1>0. roundState' = roundState /\ reconcileRequired' = reconcileRequired
  BY DEF BeatAnswered, FinishReconcile, vars, reconcileVars
<1>1. RoundsGoForward
  BY <1>0 DEF RoundsGoForward, Open
<1>2. CASE BeatAnswered /\ beat # "fine"
  BY <1>0, <1>1, <1>2, FlagFitsRaised DEF BeatAnswered
<1>3. CASE BeatAnswered /\ beat = "fine"
  <2>1. ~WillHear /\ owed' = owed /\ rec' = rec
    BY <1>3 DEF BeatAnswered, WillHear, LoopsFit
  <2>. QED BY <1>0, <2>1 DEF FlagFits, FlagIsKnown, Flagged, Open, WillHear
<1>4. CASE FinishReconcile
  <2>1. /\ rec'.answer = "none"
        /\ UNCHANGED <<beat, registered>>
        /\ owed' = (owed /\ (rec.stale \/ rec.answer \notin {"null", "continue", "stop"}))
    BY <1>4 DEF FinishReconcile, NoReconcile
  <2>2. (\A r \in Round : Flagged(r) => WillHear) \/ (owed => owed')
    BY <2>1 DEF FlagFits, LoopsTyped
  <2>. QED BY <1>0, <2>1, <2>2 DEF FlagFits, FlagIsKnown, Flagged, Open, WillHear
<1>. QED BY <1>2, <1>3, <1>4

\* Every step leaves the flag known.
LEMMA FlagFitsStep ==
    ASSUME SlotInv, RoundsGoForward, LoopsTyped, LoopsFit, FlagFits,
           [MichelinNext]_allVars
    PROVE  FlagFits'
<1>. USE DEF heartbeatVars, michelinVars
<1>1. CASE HeartbeatStep
  <2>1. CASE BeatLost \/ BeatRefused
    <3>1. reconcileRequired' = reconcileRequired
      BY <2>1 DEF BeatLost, BeatRefused, vars, reconcileVars
    <3>2. RaiseReconcile \/ ~registered'
      BY <2>1 DEF BeatLost, BeatRefused
    <3>. QED BY <3>1, <3>2, FlagFitsRaised
  <2>. QED BY <1>1, <2>1, FlagFitsBeats, FlagFitsAnswers DEF HeartbeatStep
<1>2. CASE ReconcileStep
  <2>1. CASE StartReconcile \/ ReconcileLost
    <3>1. /\ rec'.answer = "none" /\ owed' = owed /\ beat' = beat /\ registered' = registered
          /\ roundState' = roundState /\ reconcileRequired' = reconcileRequired
      BY <2>1 DEF StartReconcile, ReconcileLost, NoReconcile, LoopsTyped, vars, reconcileVars
    <3>. QED BY <3>1 DEF FlagFits, FlagIsKnown, Open
  <2>. QED BY <1>2, <2>1, FlagFitsHandled, FlagFitsAnswers DEF ReconcileStep
<1>3. CASE ClaimLoopStep
  <2>1. LoopsStill
    BY <1>3 DEF ClaimLoopStep, AskClaim, TakeClaim, AdmitClaim, ClaimAnsweredEmpty,
                HoldRound, ClaimRefused, Release, LoopsStill
  <2>2. reconcileRequired' = reconcileRequired
    BY <1>3 DEF ClaimLoopStep, AskClaim, TakeClaim, AdmitClaim, ClaimAnsweredEmpty,
                HoldRound, ClaimRefused, Release, AuthenticateClaim, ClaimWork,
                ClaimNothing, vars, reconcileVars
  <2>. QED BY <2>1, <2>2, FlagFitsStill
<1>4. CASE EngineMove \/ PullCommands
  <2>1. LoopsStill /\ reconcileRequired' = reconcileRequired
    BY <1>4 DEF EngineMove, BeginStep, LeaveDropped, JoinReconcile, Wake, PullCommands,
                LoopsStill, vars, reconcileVars
  <2>. QED BY <2>1, FlagFitsStill
<1>5. CASE EngineRequest
  <2>1. reconcileRequired' = reconcileRequired
    <3>1. HandledByGalley => reconcileRequired' = reconcileRequired
      BY DEF HandledByGalley, ExecutionStarted, ProgressOrUsage, RaiseAsk, Resumed,
             Delivered, Failed, Interrupted, StopConfirmed, EndRound, reconcileVars
    <3>2. CheckAuthority(Me, held) => reconcileRequired' = reconcileRequired
      BY DEF CheckAuthority, reconcileVars
    <3>. QED BY <1>5, <3>1, <3>2 DEF EngineRequest, EventRecorded, EventRecordedUnheard,
              EventReplayed, EventLost, EventRefused, CheckAnswered, CheckUnsupported,
              CheckLost, CheckUnanswered, CheckRefused, vars, reconcileVars
  <2>2. RaiseReconcile \/ LoopsStill
    BY <1>5 DEF EngineRequest, EventRecorded, EventRecordedUnheard,
              EventReplayed, EventLost, EventRefused, CheckAnswered, CheckUnsupported,
              CheckLost, CheckUnanswered, CheckRefused, LoopsStill
  <2>. QED BY <2>1, <2>2, FlagFitsStill, FlagFitsRaised
<1>6. CASE OwnerStep
  <2>1. LoopsStill
    BY <1>6 DEF OwnerStep, LoopsStill
  <2>2. reconcileRequired' = reconcileRequired
    BY <1>6 DEF OwnerStep, RequestStop, AttestCessation, AnswerQuestion, DecidePermission,
                DecideAsk, RevokeRunner, HealthWindowPasses, reconcileVars
  <2>. QED BY <2>1, <2>2, FlagFitsStill
<1>7. CASE Restart
  <2>1. ~registered' /\ reconcileRequired' = reconcileRequired
    BY <1>7 DEF Restart, reconcileVars
  <2>. QED BY <2>1, FlagFitsRaised
<1>8. CASE allVars' = allVars
  <2>1. LoopsStill /\ reconcileRequired' = reconcileRequired
    BY <1>8 DEF allVars, LoopsStill, vars, reconcileVars
  <2>. QED BY <2>1, FlagFitsStill
<1>. QED BY <1>1, <1>2, <1>3, <1>4, <1>5, <1>6, <1>7, <1>8 DEF MichelinNext

-----------------------------------------------------------------------------
(* The theorems.                                                           *)

\* The invariant holds once Michelin is paired and the Tickets are ready for work.
LEMMA MichelinInvInit == MichelinInit => MichelinInv
<1>. SUFFICES ASSUME MichelinInit PROVE MichelinInv
  OBVIOUS
<1>1. TypeOK
  BY GalleyAssumption, MichelinAssumption DEF MichelinInit, TypeOK, Statuses, Executions
<1>2. SlotInv
  BY <1>1 DEF MichelinInit, SlotInv, Bookkeeping, OneOpenRound, OpenRoundHoldsItsTicket,
              Open, OpenStates
<1>3. engine \in EngineStates /\ LogTyped
  BY ScriptFacts DEF MichelinInit, Idle, EngineStates, LogTyped
<1>4. LoopsTyped
  <2>1. restarts \in 0..MaxRestarts
    BY MichelinAssumption DEF MichelinInit
  <2>2. rec \in [belief : {"none", "nothing", "running", "stopped"},
                 stale : BOOLEAN,
                 answer : {"none", "null", "continue", "stop", "stop_confirmed",
                           "interrupted", "hold", "refused"}]
    BY DEF MichelinInit, NoReconcile
  <2>. QED BY <2>1, <2>2 DEF MichelinInit, LoopsTyped
<1>5. EngineFits
  BY DEF MichelinInit, EngineFits, Idle
<1>6. LogFits
  BY DEF MichelinInit, LogFits, InOrder, NoWorkAfterTheEnding
<1>7. LoopsFit
  BY DEF MichelinInit, LoopsFit, NoReconcile
<1>8. FlagFits
  BY DEF MichelinInit, FlagFits, FlagIsKnown, NoReconcile
<1>. QED BY <1>2, <1>3, <1>4, <1>5, <1>6, <1>7, <1>8, TypesApart DEF MichelinInv

\* Every step keeps the invariant, is a step of Galley's, and takes back no cessation.
LEMMA MichelinInvStep ==
    ASSUME MichelinInv, [MichelinNext]_allVars
    PROVE  /\ MichelinInv' /\ [Next]_vars
           /\ Ceased /\ held # NoRound
                => \/ held' # held
                   \/ Ceased' /\ \A k \in recorded' \ recorded : k[2] \in Endings
<1>1. EnginePart /\ LoopsTyped
  BY TypesApart DEF MichelinInv, EnginePart
<1>2. [Next]_vars
  BY <1>1, GalleyStep DEF MichelinInv
<1>3. SlotInv'
  BY <1>2, SlotInvStep DEF MichelinInv
<1>4. /\ EnginePart'
      /\ Ceased /\ held # NoRound
           => \/ held' # held
              \/ Ceased' /\ \A k \in recorded' \ recorded : k[2] \in Endings
  BY <1>1, EngineStep DEF MichelinInv
<1>5. LoopsTyped'
  BY <1>1, LoopsTypedStep DEF MichelinInv
<1>6. MichelinTypeOK'
  BY <1>4, <1>5, TypesApart DEF EnginePart, MichelinTypeOK, LoopsTyped, EngineStates, LogTyped
<1>7. LoopsFit'
  BY <1>1, LoopsFitStep DEF MichelinInv
<1>8. FlagFits'
  BY <1>1, <1>2, GoingForward, FlagFitsStep DEF MichelinInv
<1>. QED BY <1>2, <1>3, <1>4, <1>6, <1>7, <1>8 DEF MichelinInv, EnginePart

\* One process with any script, however its requests are lost and whenever it restarts,
\* keeps its engine, its log, its loops and Galley's flag in step.
THEOREM MichelinInvariant == MichelinSafety => []MichelinInv
<1>1. MichelinInv /\ [MichelinNext]_allVars => MichelinInv'
  BY MichelinInvStep
<1>. QED BY <1>1, MichelinInvInit, PTL DEF MichelinSafety

\* Michelin's variables keep their types, the engine's and the log's among them.
COROLLARY MichelinTypeCorrect == MichelinSafety => []MichelinTypeOK
BY MichelinInvariant, PTL DEF MichelinInv

\* Lost reports, retries, halts and a Stop cut Galley's log of a Round short; they never
\* make a hole in it.
THEOREM RecordedInOrderHolds == MichelinSafety => []RecordedInOrder
<1>1. MichelinInv => RecordedInOrder
  BY DEF MichelinInv, LogFits, InOrder, Accounted, RecordedInOrder
<1>. QED BY <1>1, MichelinInvariant, PTL

\* An engine whose ending Galley recorded does no more of its script.
COROLLARY NoWorkAfterTheEndingHolds == MichelinSafety => []NoWorkAfterTheEnding
<1>1. MichelinInv => NoWorkAfterTheEnding
  BY DEF MichelinInv, LogFits
<1>. QED BY <1>1, MichelinInvariant, PTL

\* A flag Galley raised on an open Round is one the runner owes a Reconcile for, is
\* about to hear of, or will hear of when it registers.
COROLLARY FlagIsKnownHolds == MichelinSafety => []FlagIsKnown
<1>1. MichelinInv => FlagIsKnown
  BY DEF MichelinInv, FlagFits
<1>. QED BY <1>1, MichelinInvariant, PTL

\* What a Reconcile was told has stopped stays stopped.
THEOREM CeasedForGoodHolds == MichelinSafety => CeasedForGood
<1>1. MichelinInv /\ [MichelinNext]_allVars
        => [Ceased /\ held # NoRound
              => \/ held' # held
                 \/ Ceased' /\ \A k \in recorded' \ recorded : k[2] \in Endings]_allVars
  BY MichelinInvStep
<1>. QED BY <1>1, MichelinInvariant, PTL DEF MichelinSafety, CeasedForGood

\* Everything Michelin does to Galley is a step of one of Galley's handlers: what is
\* proved of Galley's steps holds while Michelin runs.
THEOREM MichelinStepsGalley == MichelinSafety => [][Next]_vars
<1>1. MichelinInv /\ [MichelinNext]_allVars => [Next]_vars
  BY MichelinInvStep
<1>. QED BY <1>1, MichelinInvariant, PTL DEF MichelinSafety

=============================================================================
