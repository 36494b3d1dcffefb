---------------------------- MODULE RunnerCommands ----------------------------
(***************************************************************************)
(* The commands of one Round that Michelin runs: the Owner's acts put them *)
(* into Galley, the command loop pulls them, hands Stops and answers to    *)
(* the engine and acknowledges the rest, and the engine acknowledges what  *)
(* it has carried out.  Both wait for an acknowledgement's answer, and     *)
(* repeat it for as long as Galley gives none.                             *)
(*                                                                         *)
(* The engine asks its questions one by one and delivers.  What else it    *)
(* does, its halts and its restarts are in Michelin; so is an approval,    *)
(* which goes the way of an answer.  An event or an acknowledgement is     *)
(* recorded in one step and its answer heard in another: until then it is  *)
(* sent again, and recording it again changes nothing.                     *)
(***************************************************************************)
EXTENDS Naturals, Sequences, SequencesExt

CONSTANTS Questions,   \* the questions the engine asks
          MaxNews      \* bound: changes of the Round's authority

ASSUME CommandsAssumption == Questions \in Nat /\ MaxNews \in Nat

VARIABLES round,         \* Galley's Round: questions asked, answered, resumed; its outcome
          roundCommands, \* round_commands, in the order they were issued
          loop,          \* the command loop: what it has pulled, and the commands seen
          inbox,         \* the questions whose answers wait for the engine
          stop,          \* the engine's Stop signal, and the command behind it
          engine         \* what the engine is at, and its question

commandVars == <<round, roundCommands, loop, inbox, stop, engine>>

Types == {"stop", "authority_changed", "answer"}
Ids == DOMAIN roundCommands
RoundOpen == round.outcome = "none"
StopIssued == \E c \in Ids : roundCommands[c].type = "stop"
TheStop == CHOOSE c \in Ids : roundCommands[c].type = "stop"

CommandsTypeOK ==
    /\ round \in [asked: 0 .. Questions, answered: 0 .. Questions,
                  resumed: 0 .. Questions, outcome: {"none", "delivered", "stopped"}]
    /\ roundCommands \in Seq([type: Types, of: 0 .. Questions, applied: BOOLEAN])
    /\ loop \in [at: {"sleeping", "pulled", "acknowledging", "ended"},
                batch: Seq(Ids), seen: SUBSET Ids]
    /\ inbox \subseteq 1 .. Questions
    /\ stop \in [raised: BOOLEAN, command: Ids \cup {0}]
    /\ engine \in [at: {"asking", "waiting", "resuming", "acknowledging",
                        "delivering", "stopping", "confirming", "gone"},
                   question: 0 .. Questions]

-----------------------------------------------------------------------------
(* Galley.                                                                 *)

Issue(type, of) ==
    roundCommands' = Append(roundCommands, [type |-> type, of |-> of, applied |-> FALSE])

IssueStop ==
    /\ RoundOpen /\ ~StopIssued
    /\ Issue("stop", 0)
    /\ UNCHANGED <<round, loop, inbox, stop, engine>>

\* A grant that covers the Round was revoked or ended.
AnnounceAuthorityChange ==
    /\ RoundOpen
    /\ Len(SelectSeq(roundCommands, LAMBDA c : c.type = "authority_changed")) < MaxNews
    /\ Issue("authority_changed", 0)
    /\ UNCHANGED <<round, loop, inbox, stop, engine>>

AnswerQuestion ==
    /\ RoundOpen /\ round.answered < round.asked /\ ~StopIssued
    /\ round' = [round EXCEPT !.answered = round.asked]
    /\ Issue("answer", round.asked)
    /\ UNCHANGED <<loop, inbox, stop, engine>>

\* Mutant: the commands as they were issued.
PrecedesAsIssued(c, d) == c < d

\* A Stop first, then news of the authority, then answers.
Precedes(c, d) ==
    LET rank(x) == CASE roundCommands[x].type = "stop" -> 0
                     [] roundCommands[x].type = "authority_changed" -> 1
                     [] OTHER -> 2
    IN rank(c) < rank(d) \/ (rank(c) = rank(d) /\ c < d)

\* What a pull answers, in this order: an ended Round has nothing pending.
PendingRoundCommands == {c \in Ids : RoundOpen /\ ~roundCommands[c].applied}

InOrder(batch) == \A i, j \in DOMAIN batch : i < j => Precedes(batch[i], batch[j])

RecordAcknowledgement(c) == roundCommands' = [roundCommands EXCEPT ![c].applied = TRUE]

-----------------------------------------------------------------------------
(* The command loop.                                                       *)

Pull ==
    /\ loop.at = "sleeping"
    /\ \E batch \in SetToSeqs(PendingRoundCommands) :
          InOrder(batch) /\ loop' = [loop EXCEPT !.at = "pulled", !.batch = batch]
    /\ UNCHANGED <<round, roundCommands, inbox, stop, engine>>

PullFails ==
    /\ loop.at = "pulled"
    /\ loop' = [loop EXCEPT !.at = "sleeping", !.batch = <<>>]
    /\ UNCHANGED <<round, roundCommands, inbox, stop, engine>>

\* Mutant: the loop acknowledges an answer when it receives it.
AcknowledgedOnReceipt(c) == roundCommands[c].type # "stop"

\* The loop acknowledges, and waits, for a command that asks nothing of the engine.
AcknowledgedByTheLoop(c) == roundCommands[c].type = "authority_changed"

\* An answer nobody waits for yet is held.
Delivered(questions) == inbox \cup questions

\* onStop: the first command to stop is the one that is acknowledged.
StopRaisedBy(c) ==
    [raised |-> TRUE, command |-> IF stop.command = 0 THEN c ELSE stop.command]

\* The loop runs through what it has not seen, up to the first command it acknowledges.
Handle(batch) ==
    LET next == SelectInSeq(batch, LAMBDA c : c \notin loop.seen /\ AcknowledgedByTheLoop(c))
        handled == {batch[i] : i \in IF next = 0 THEN DOMAIN batch ELSE 1 .. next - 1} \ loop.seen
        stops == {c \in handled : roundCommands[c].type = "stop"}
        answers == {c \in handled : roundCommands[c].type = "answer"}
    IN  /\ loop' = IF next = 0
                   THEN [at |-> "sleeping", batch |-> <<>>, seen |-> loop.seen \cup handled]
                   ELSE [at |-> "acknowledging", batch |-> SubSeq(batch, next, Len(batch)),
                         seen |-> loop.seen \cup handled \cup {batch[next]}]
        /\ inbox' = Delivered({roundCommands[c].of : c \in answers})
        /\ stop' = IF stops = {} THEN stop ELSE StopRaisedBy(CHOOSE c \in stops : TRUE)
        /\ UNCHANGED <<round, roundCommands, engine>>

PullAnswered ==
    /\ loop.at = "pulled"
    /\ Handle(loop.batch)

LoopAcknowledges ==
    /\ loop.at = "acknowledging" /\ ~roundCommands[Head(loop.batch)].applied
    /\ RecordAcknowledgement(Head(loop.batch))
    /\ UNCHANGED <<round, loop, inbox, stop, engine>>

LoopAcknowledged ==
    /\ loop.at = "acknowledging" /\ roundCommands[Head(loop.batch)].applied
    /\ Handle(Tail(loop.batch))

-----------------------------------------------------------------------------
(* The engine.                                                             *)

At(where) == [engine EXCEPT !.at = where]

\* The head of the next step.
NextStep ==
    IF stop.raised THEN At("stopping")
    ELSE IF engine.question = Questions THEN At("delivering")
    ELSE [at |-> "asking", question |-> engine.question + 1]

\* What Galley has recorded of the event that is being sent.
EventRecorded ==
    CASE engine.at = "asking" -> round.asked >= engine.question
      [] engine.at = "resuming" -> round.resumed >= engine.question
      [] engine.at = "delivering" -> round.outcome = "delivered"
      [] OTHER -> round.outcome = "stopped"

RecordEvent ==
    /\ engine.at \in {"asking", "resuming", "delivering", "stopping"}
    /\ ~EventRecorded
    /\ round' = CASE engine.at = "asking" -> [round EXCEPT !.asked = engine.question]
                  [] engine.at = "resuming" -> [round EXCEPT !.resumed = engine.question]
                  [] engine.at = "delivering" -> [round EXCEPT !.outcome = "delivered"]
                  [] OTHER -> [round EXCEPT !.outcome = "stopped"]
    /\ UNCHANGED <<roundCommands, loop, inbox, stop, engine>>

TheAnswer == CHOOSE c \in Ids : roundCommands[c].type = "answer" /\ roundCommands[c].of = engine.question

\* The run ends with the loop; a Stop that was carried out is still acknowledged.
Ends(at) ==
    /\ engine' = At(at)
    /\ loop' = [loop EXCEPT !.at = "ended", !.batch = <<>>]

EventAnswered ==
    /\ engine.at \in {"asking", "resuming", "delivering", "stopping"}
    /\ EventRecorded
    /\ \/ engine.at = "asking" /\ engine' = At("waiting") /\ UNCHANGED loop
       \/ engine.at = "resuming" /\ engine' = At("acknowledging") /\ UNCHANGED loop
       \/ engine.at = "delivering" /\ Ends("gone")
       \/ engine.at = "stopping" /\ Ends(IF stop.command = 0 THEN "gone" ELSE "confirming")
    /\ UNCHANGED <<round, roundCommands, inbox, stop>>

\* A wait ends with its answer or a Stop; together, the Stop counts.
Wake ==
    /\ engine.at = "waiting"
    /\ engine.question \in inbox \/ stop.raised
    /\ inbox' = inbox \ {engine.question}
    /\ engine' = IF stop.raised THEN At("stopping") ELSE At("resuming")
    /\ UNCHANGED <<round, roundCommands, loop, stop>>

\* An owed Reconcile tells of the Stop; an event that waits for it is not sent.
StopByReconcile ==
    /\ RoundOpen /\ StopIssued
    /\ engine.at \notin {"stopping", "confirming", "gone"}
    /\ stop' = StopRaisedBy(TheStop)
    /\ \/ UNCHANGED engine
       \/ engine.at \in {"asking", "resuming", "delivering"} /\ engine' = At("stopping")
    /\ UNCHANGED <<round, roundCommands, loop, inbox>>

\* What the engine acknowledges once it is carried out.
ToAcknowledge == IF engine.at = "acknowledging" THEN TheAnswer ELSE stop.command

EngineAcknowledges ==
    /\ engine.at \in {"acknowledging", "confirming"} /\ ~roundCommands[ToAcknowledge].applied
    /\ RecordAcknowledgement(ToAcknowledge)
    /\ UNCHANGED <<round, loop, inbox, stop, engine>>

EngineAcknowledged ==
    /\ engine.at \in {"acknowledging", "confirming"} /\ roundCommands[ToAcknowledge].applied
    /\ engine' = IF engine.at = "acknowledging" THEN NextStep ELSE At("gone")
    /\ UNCHANGED <<round, roundCommands, loop, inbox, stop>>

-----------------------------------------------------------------------------
\* The Round has started, and its engine comes to its first question.
CommandsInit ==
    /\ round = [asked |-> 0, answered |-> 0, resumed |-> 0, outcome |-> "none"]
    /\ roundCommands = <<>>
    /\ loop = [at |-> "sleeping", batch |-> <<>>, seen |-> {}]
    /\ inbox = {}
    /\ stop = [raised |-> FALSE, command |-> 0]
    /\ engine = IF Questions = 0 THEN [at |-> "delivering", question |-> 0]
                ELSE [at |-> "asking", question |-> 1]

CommandsNext ==
    \/ IssueStop \/ AnnounceAuthorityChange \/ AnswerQuestion
    \/ Pull \/ PullFails \/ PullAnswered
    \/ LoopAcknowledges \/ LoopAcknowledged
    \/ RecordEvent \/ EventAnswered \/ Wake \/ StopByReconcile
    \/ EngineAcknowledges \/ EngineAcknowledged

CommandsSpec == CommandsInit /\ [][CommandsNext]_commandVars

-----------------------------------------------------------------------------
\* A command Galley holds as applied has been carried out: the Round resumed on
\* its answer, or ended on its Stop, whichever of the loop and the engine
\* acknowledged it and however often it was pulled before.
AppliedWasDone ==
    \A c \in Ids : roundCommands[c].applied =>
        /\ roundCommands[c].type = "answer" => round.resumed >= roundCommands[c].of
        /\ roundCommands[c].type = "stop" => round.outcome = "stopped"

\* Galley's order of a pull keeps a Stop from waiting behind an acknowledgement,
\* which the loop repeats until it is answered: while it does, no Stop it pulled
\* is still to be handed to the engine.
NoStopBehindAnAcknowledgement ==
    loop.at = "acknowledging" =>
        \A i \in DOMAIN loop.batch : roundCommands[loop.batch[i]].type # "stop"
=============================================================================
