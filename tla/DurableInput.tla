---------------------------- MODULE DurableInput ----------------------------
(***************************************************************************)
(* The native harness's durable question: one thread run by processes of   *)
(* the operating system, one after another, that share nothing but the     *)
(* checkpoint, the Round's registry, the execution snapshot, the library   *)
(* and the marker file, and that may be killed between any two writes.  A  *)
(* kill inside a write of the marker file, which truncates it first and    *)
(* may leave it empty or cut short, is left out.                           *)
(*                                                                         *)
(* The framework is modelled from how the processes use it: a step begins  *)
(* again from its start after a death, and on resumption; interrupt()      *)
(* returns the value resumed with, or leaves the step waiting; an          *)
(* interrupt stays pending until its step has completed; and resuming a    *)
(* thread that is done does nothing.                                       *)
(***************************************************************************)
EXTENDS Integers, FiniteSets, Sequences, Functions

CONSTANTS Answers,       \* what the human may answer
          MaxLaunches    \* bound: processes launched

VARIABLES scenario,    \* what the processes are launched for
          registered,  \* round_registry has the thread
          snapshot,    \* the thread's execution snapshot: a version, or none yet
          library,     \* the version the library file holds, if any
          checkpoint,  \* the step that runs next, and whether its interrupt is pending
          marker,      \* the keys whose side effect the marker file says was applied
          before,      \* the side effects it says were applied before an interrupt
          flagFile,    \* the file blocking_wait waits for
          process,     \* the process alive
          launched,    \* processes launched so far
          verdict,     \* the last classification RecoveryPolicy gave
          prompted     \* history: the versions the thread's model requests were made with

durable == <<registered, snapshot, library, checkpoint, marker, before>>
threadVars == <<scenario, durable, flagFile, process, launched, verdict, prompted>>

Scenarios == {"question", "fixed-inputs", "restart", "process-death"}
LibraryVersions == {"A", "B"}
NoVersion == "none"
NoAnswer == "nothing"
ASSUME AnswersAssumption ==
    /\ NoAnswer \notin Answers
    /\ MaxLaunches \in Nat

\* An idempotency key: whether the interrupt's id was read, and the answer.
Keys == [interrupted: BOOLEAN, answer: Answers]
Steps == {"none", "request", "tools", "reply", "done"}

Statuses == {"none", "completed", "waiting-for-input", "interrupted-not-resumable"}

NoProcess == [which |-> "none", at |-> "exited", version |-> NoVersion,
              pending |-> FALSE, answer |-> NoAnswer]

\* Every variable has a value of its kind.
DurableTypeOK ==
    /\ scenario \in Scenarios /\ registered \in BOOLEAN /\ flagFile \in BOOLEAN
    /\ snapshot \in LibraryVersions \cup {NoVersion}
    /\ library \in LibraryVersions \cup {NoVersion}
    /\ checkpoint \in [next: Steps, interrupted: BOOLEAN]
    /\ marker \in Seq(Keys) /\ before \in Nat
    /\ process \in [which: {"none", "A", "B", "recovery"},
                    at: {"exited", "connected", "loaded", "ready", "running", "entered",
                         "answered", "applied"},
                    version: LibraryVersions \cup {NoVersion},
                    pending: BOOLEAN, answer: Answers \cup {NoAnswer}]
    /\ launched \in 0 .. MaxLaunches /\ verdict \in Statuses
    /\ prompted \in SUBSET LibraryVersions

DurableInit ==
    /\ scenario \in Scenarios /\ registered = FALSE
    /\ snapshot = NoVersion /\ library = NoVersion /\ flagFile = FALSE
    /\ checkpoint = [next |-> "none", interrupted |-> FALSE]
    /\ marker = <<>> /\ before = 0
    /\ process = NoProcess /\ launched = 0 /\ verdict = "none"
    /\ prompted = {}

Exits == process' = NoProcess
At(at) == process.at = at
Goes(at) == process' = [process EXCEPT !.at = at]
Runs(which, at) == process.which = which /\ At(at)

\* The tool the scenario's scripted model calls interrupts, to ask the human, or
\* blocks.
AsksTheHuman == scenario # "process-death"

-----------------------------------------------------------------------------
(* Outside the processes *)

Launches(which, answer) ==
    /\ process = NoProcess /\ launched < MaxLaunches
    /\ launched' = launched + 1
    /\ process' = [NoProcess EXCEPT !.which = which, !.at = "connected", !.answer = answer]
    /\ UNCHANGED <<scenario, durable, flagFile, verdict, prompted>>

LaunchA == Launches("A", NoAnswer)

\* process-death resumes with no answer (--negative-demo), the others with one.
LaunchB ==
    \E answer \in Answers \cup {NoAnswer} :
        (answer = NoAnswer) = ~AsksTheHuman /\ Launches("B", answer)

\* process-death without --negative-demo
LaunchRecovery == ~AsksTheHuman /\ Launches("recovery", NoAnswer)

\* SIGKILL
Killed ==
    /\ process # NoProcess /\ Exits
    /\ UNCHANGED <<scenario, durable, flagFile, launched, verdict, prompted>>

\* publish(): the Owner edits the library.
Publish ==
    /\ \E v \in LibraryVersions : library' = v
    /\ UNCHANGED <<scenario, registered, snapshot, checkpoint, marker, before, flagFile,
                   process, launched, verdict, prompted>>

FlagAppears ==
    /\ ~AsksTheHuman /\ flagFile' = TRUE
    /\ UNCHANGED <<scenario, durable, process, launched, verdict, prompted>>

-----------------------------------------------------------------------------
(* Process A *)

\* registerRound(), which a thread already registered refuses.
Register ==
    /\ Runs("A", "connected")
    /\ IF registered THEN Exits
       ELSE process' = [process EXCEPT !.at = IF scenario = "fixed-inputs" THEN "loaded" ELSE "ready",
                                       !.version = IF scenario = "fixed-inputs" THEN @ ELSE "A"]
    /\ registered' = TRUE
    /\ UNCHANGED <<scenario, snapshot, library, checkpoint, marker, before, flagFile,
                   launched, verdict, prompted>>

\* LibraryStore.read() publishes A if nothing is published.
Published == IF library = NoVersion THEN "A" ELSE library

ReadLibrary ==
    /\ Runs("A", "loaded") /\ process.version = NoVersion
    /\ library' = Published /\ process' = [process EXCEPT !.version = Published]
    /\ UNCHANGED <<scenario, registered, snapshot, checkpoint, marker, before, flagFile,
                   launched, verdict, prompted>>

\* ExecutionSnapshotStore.save()
SaveSnapshot ==
    /\ Runs("A", "loaded") /\ process.version # NoVersion
    /\ snapshot' = IF snapshot = NoVersion THEN process.version ELSE snapshot
    /\ Goes("ready")
    /\ UNCHANGED <<scenario, registered, library, checkpoint, marker, before, flagFile,
                   launched, verdict, prompted>>

\* runTurn() with the human's message
BeginTurn ==
    /\ Runs("A", "ready")
    /\ Goes("running")
    /\ checkpoint' = [next |-> "request", interrupted |-> FALSE]
    /\ UNCHANGED <<scenario, registered, snapshot, library, marker, before, flagFile,
                   launched, verdict, prompted>>

-----------------------------------------------------------------------------
(* Process B *)

\* Mutant: the prompt is composed from the library as it is.
LibraryOnResume == Published

\* The prompt a resuming process builds its agent with.
PromptOnResume == IF scenario = "fixed-inputs" THEN snapshot ELSE "A"

\* load(): without a snapshot the process throws.
LoadSnapshot ==
    /\ Runs("B", "connected")
    /\ IF PromptOnResume = NoVersion THEN Exits
       ELSE process' = [process EXCEPT !.at = "loaded", !.version = PromptOnResume]
    /\ UNCHANGED <<scenario, durable, flagFile, launched, verdict, prompted>>

\* readPendingInterrupt() finds the interrupt that the thread waits on, if any.
ReadPendingInterrupt ==
    /\ Runs("B", "loaded")
    /\ process' = [process EXCEPT !.at = "ready", !.pending = checkpoint.interrupted]
    /\ UNCHANGED <<scenario, durable, flagFile, launched, verdict, prompted>>

\* invoke(Command({ resume })), or invoke(null): a thread without a checkpoint, or
\* done, runs no step.
Resume ==
    /\ Runs("B", "ready")
    /\ IF checkpoint.next \in {"none", "done"} THEN Exits ELSE Goes("running")
    /\ UNCHANGED <<scenario, durable, flagFile, launched, verdict, prompted>>

\* RecoveryPolicy.classify()
Classification ==
    IF checkpoint.next \in {"none", "done"} THEN "completed"
    ELSE IF checkpoint.interrupted THEN "waiting-for-input" ELSE "interrupted-not-resumable"

\* continueIfIntact() refuses a thread that is not resumable.  It never invokes the
\* graph, whatever it finds.
ContinueIfIntact ==
    /\ Runs("recovery", "connected")
    /\ verdict' = Classification /\ Exits
    /\ UNCHANGED <<scenario, durable, flagFile, launched, prompted>>

-----------------------------------------------------------------------------
(* The graph's steps *)

\* A model request: process A's scripted model calls the tool first; B's, which holds
\* the final reply only, replies.
ModelRequest ==
    /\ At("running") /\ checkpoint.next \in {"request", "reply"}
    /\ prompted' = prompted \cup {process.version}
    /\ checkpoint' = [checkpoint EXCEPT !.next =
                        IF @ = "request" /\ process.which = "A" THEN "tools" ELSE "done"]
    /\ UNCHANGED <<scenario, registered, snapshot, library, marker, before, flagFile,
                   process, launched, verdict>>

EndTurn ==
    /\ At("running") /\ checkpoint.next = "done" /\ Exits
    /\ UNCHANGED <<scenario, durable, flagFile, launched, verdict, prompted>>

\* restart_probe records a side effect before its interrupt().
RecordBeforeInterrupt == before' = IF scenario = "restart" THEN before + 1 ELSE before

\* The tool begins, again from its start on resumption or after a death.
EnterTool ==
    /\ At("running") /\ checkpoint.next = "tools"
    /\ RecordBeforeInterrupt
    /\ Goes("entered")
    /\ UNCHANGED <<scenario, registered, snapshot, library, checkpoint, marker, flagFile,
                   launched, verdict, prompted>>

\* interrupt() without a value to resume with leaves the step waiting, and the process
\* reports the question.
Interrupt ==
    /\ At("entered") /\ AsksTheHuman /\ process.answer = NoAnswer
    /\ checkpoint' = [checkpoint EXCEPT !.interrupted = TRUE]
    /\ Exits
    /\ UNCHANGED <<scenario, registered, snapshot, library, marker, before, flagFile,
                   launched, verdict, prompted>>

\* interrupt() returns the answer; blocking_wait finds its flag file.
AnswerReturns ==
    /\ At("entered")
    /\ IF AsksTheHuman THEN process.answer # NoAnswer ELSE flagFile
    /\ Goes("answered")
    /\ UNCHANGED <<scenario, durable, flagFile, launched, verdict, prompted>>

Key == [interrupted |-> process.pending, answer |-> process.answer]

\* Mutant: the side effect is applied whether or not its key was.
RecordSideEffect == marker' = Append(marker, Key)

\* recordSideEffectOnce()
RecordSideEffectOnce == marker' = IF Key \in Range(marker) THEN marker ELSE Append(marker, Key)

\* ask_human's side effect
ApplyEffect ==
    /\ At("answered")
    /\ IF scenario \in {"question", "fixed-inputs"} THEN RecordSideEffectOnce ELSE UNCHANGED marker
    /\ Goes("applied")
    /\ UNCHANGED <<scenario, registered, snapshot, library, checkpoint, before, flagFile,
                   launched, verdict, prompted>>

\* The tool's result is written to the checkpoint.
CompleteTool ==
    /\ At("applied")
    /\ checkpoint' = [next |-> "reply", interrupted |-> FALSE]
    /\ Goes("running")
    /\ UNCHANGED <<scenario, registered, snapshot, library, marker, before, flagFile,
                   launched, verdict, prompted>>

DurableNext ==
    \/ LaunchA \/ LaunchB \/ LaunchRecovery \/ Killed \/ Publish \/ FlagAppears
    \/ Register \/ ReadLibrary \/ SaveSnapshot \/ BeginTurn
    \/ LoadSnapshot \/ ReadPendingInterrupt \/ Resume \/ ContinueIfIntact
    \/ ModelRequest \/ EnterTool \/ Interrupt \/ AnswerReturns \/ ApplyEffect
    \/ CompleteTool \/ EndTurn

DurableSpec == DurableInit /\ [][DurableNext]_threadVars

-----------------------------------------------------------------------------
(* Properties *)

\* However often the human's answer is given and between whichever writes the processes
\* that carry it are killed, the side effect is applied once per interrupt and answer.
EffectOncePerAnswer == IsInjective(marker)

\* Every model request of the thread is made with the inputs fixed at its Round's
\* start, whatever is published while it waits or its processes die.
RoundKeepsItsInputs == Cardinality(prompted) <= 1
=============================================================================
