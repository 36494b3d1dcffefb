------------------------------ MODULE Admission ------------------------------
(***************************************************************************)
(* The three ways the engine experiments put work under the admission      *)
(* ledger; an experiment runs one engine, OpenCode or the native one:      *)
(*                                                                         *)
(*  - the OpenCode plugin (opencode-admission): a hook before and one      *)
(*    after every tool call, which reach the ledger over HTTP, so that     *)
(*    anything can happen between the answer to admit and the dispatch,    *)
(*    and any request can be lost;                                         *)
(*  - the native tool wrapper (native-admission/admitted-tool.ts), which   *)
(*    asks and dispatches in one step of the same thread, and pauses the   *)
(*    graph when it is refused;                                            *)
(*  - the native model wrapper (admitted-model.ts), which throws when it   *)
(*    is refused and whose call may be aborted half-way through its        *)
(*    stream.                                                              *)
(***************************************************************************)
EXTENDS AdmissionLedger

CONSTANTS BridgeCalls,      \* tool calls of OpenCode, through the hooks
          ToolCalls,        \* native tool calls
          ModelCalls,       \* native model calls
          RequestOf,        \* what each call asks to be admitted for
          HoldMaxAttempts,  \* TICKETIT_HOLD_MAX_ATTEMPTS
          Chunks            \* the chunks of a model's reply

Calls == BridgeCalls \cup ToolCalls \cup ModelCalls

ASSUME CallAssumption == /\ RequestOf \in [Calls -> Requests]
                         /\ HoldMaxAttempts \in Nat
                         /\ Chunks \in Nat
                         /\ BridgeCalls \cap ToolCalls = {}
                         /\ BridgeCalls \cap ModelCalls = {}
                         /\ ToolCalls \cap ModelCalls = {}

VARIABLES engine,    \* which of the engines this experiment runs
          phase,     \* where each call is
          holds,     \* the admission the call goes by, 0 before the first answer
          attempts,  \* how often a held call has asked again
          emitted,   \* chunks of the reply received so far
          asked      \* history: every admission decided for the call

callVars == <<phase, holds, attempts, emitted, asked>>
vars == <<ledgerVars, engine, callVars>>

BridgePhases == {"asking", "answered", "holding", "dispatching", "dispatched", "completing"}
EndPhases == {"done", "refused", "failed", "aborted"}
Phases == BridgePhases \cup EndPhases \cup {"idle", "paused", "running"}

\* Every variable has a value of its kind, an admission a call goes by is in
\* the log, and no call has asked more often than the limit allows.
AdmissionTypeOK ==
    /\ LedgerTypeOK
    /\ engine \in {"opencode", "native"}
    /\ phase \in [Calls -> Phases]
    /\ holds \in [Calls -> {0} \cup DOMAIN admissions]
    /\ attempts \in [Calls -> 0 .. HoldMaxAttempts]
    /\ emitted \in [Calls -> 0 .. Chunks]
    /\ asked \in [Calls -> SUBSET DOMAIN admissions]

Init ==
    /\ LedgerInit
    /\ engine \in {"opencode", "native"}
    /\ phase = [c \in Calls |-> "idle"]
    /\ holds = [c \in Calls |-> 0]
    /\ attempts = [c \in Calls |-> 0]
    /\ emitted = [c \in Calls |-> 0]
    /\ asked = [c \in Calls |-> {}]

Moves(c, from, to) == phase[c] = from /\ phase' = [phase EXCEPT ![c] = to]

\* The ledger decides for call c, which from now on goes by that decision.
Asks(c) ==
    /\ Admit(RequestOf[c])
    /\ holds' = [holds EXCEPT ![c] = Len(admissions) + 1]
    /\ asked' = [asked EXCEPT ![c] = @ \cup {Len(admissions) + 1}]

-----------------------------------------------------------------------------
(* OpenCode's hooks, over HTTP *)

BeforeHook(c) ==
    /\ Moves(c, "idle", "asking")
    /\ UNCHANGED <<ledgerVars, holds, attempts, emitted, asked>>

LedgerAdmits(c) ==
    /\ Moves(c, "asking", "answered")
    /\ Asks(c)
    /\ UNCHANGED <<dispatches, attempts, emitted>>

Answer(c) == admissions[holds[c]].decision

\* Mutant: one attempt more than the limit.
MayHoldOnceMore(c) == Answer(c) = "hold" /\ attempts[c] <= HoldMaxAttempts
MayHold(c) == Answer(c) = "hold" /\ attempts[c] < HoldMaxAttempts

\* Mutant: a hold that outlived its attempts lets the tool run.
HookHearsARunOut(c) ==
    /\ phase[c] = "answered"
    /\ \/ Answer(c) # "deny" /\ ~MayHold(c) /\ Moves(c, "answered", "dispatching")
       \/ MayHold(c) /\ Moves(c, "answered", "holding")
       \/ Answer(c) = "deny" /\ Moves(c, "answered", "refused")
    /\ UNCHANGED <<ledgerVars, holds, attempts, emitted, asked>>

\* Mutant: a hold that outlived its attempts waits for the connection.
HookHearsOnceConnected(c) ==
    /\ phase[c] = "answered"
    /\ \/ Answer(c) = "allow" /\ Moves(c, "answered", "dispatching")
       \/ MayHold(c) /\ Moves(c, "answered", "holding")
       \/ ~MayHold(c) /\ Answer(c) # "allow" /\ connected /\ Moves(c, "answered", "refused")
    /\ UNCHANGED <<ledgerVars, holds, attempts, emitted, asked>>

\* A hold is asked again, a bounded number of times; what is not allowed in the
\* end is thrown, and the tool does not run.
HookHears(c) ==
    /\ phase[c] = "answered"
    /\ \/ Answer(c) = "allow" /\ Moves(c, "answered", "dispatching")
       \/ MayHold(c) /\ Moves(c, "answered", "holding")
       \/ ~MayHold(c) /\ Answer(c) # "allow" /\ Moves(c, "answered", "refused")
    /\ UNCHANGED <<ledgerVars, holds, attempts, emitted, asked>>

HookAsksAgain(c) ==
    /\ Moves(c, "holding", "asking")
    /\ attempts' = [attempts EXCEPT ![c] = @ + 1]
    /\ UNCHANGED <<ledgerVars, holds, emitted, asked>>

LedgerDispatches(c) ==
    /\ Moves(c, "dispatching", "dispatched")
    /\ Dispatch(holds[c])
    /\ UNCHANGED <<holds, attempts, emitted, asked>>

\* The hook does not look at the status of the answer: the tool runs.
HookReturns(c) ==
    /\ Moves(c, "dispatched", "running")
    /\ UNCHANGED <<ledgerVars, holds, attempts, emitted, asked>>

\* The hook after the tool forgets the call and reports it.
AfterHook(c) ==
    /\ Moves(c, "running", "completing")
    /\ UNCHANGED <<ledgerVars, holds, attempts, emitted, asked>>

LedgerCompletes(c) ==
    /\ Moves(c, "completing", "done")
    /\ Complete(holds[c])
    /\ UNCHANGED <<holds, attempts, emitted, asked>>

\* A request of the first hook or its answer is lost: the hook throws, and the tool
\* does not run, though the ledger may have recorded its dispatch.
FetchFails(c) ==
    /\ \E from \in BridgePhases \ {"holding", "completing"} : Moves(c, from, "failed")
    /\ UNCHANGED <<ledgerVars, holds, attempts, emitted, asked>>

\* The report of the completion or its answer is lost: the second hook throws, for a
\* tool that ran.
ReportFails(c) ==
    /\ Moves(c, "completing", "aborted")
    /\ UNCHANGED ledgerVars \/ Complete(holds[c])
    /\ UNCHANGED <<holds, attempts, emitted, asked>>

BridgeProgress(c) == \/ LedgerAdmits(c) \/ HookHears(c) \/ HookAsksAgain(c)
                     \/ LedgerDispatches(c) \/ HookReturns(c) \/ LedgerCompletes(c)

-----------------------------------------------------------------------------
(* The native wrappers, in the ledger's own thread *)

\* Ask and, when allowed, dispatch and start at once; otherwise go to refusedAt.
AskAndStart(c, from, refusedAt) ==
    /\ phase[c] = from
    /\ Asks(c)
    /\ IF CanDispatch(Decided(RequestOf[c]), Len(admissions) + 1)
       THEN /\ phase' = [phase EXCEPT ![c] = "running"]
            /\ dispatches' = Started(Len(admissions) + 1)
       ELSE /\ phase' = [phase EXCEPT ![c] = refusedAt]
            /\ UNCHANGED dispatches
    /\ UNCHANGED <<attempts, emitted>>

\* A refused tool call interrupts the graph.
InvokeTool(c) == AskAndStart(c, "idle", "paused")

\* A resumed graph replays the call from the top; refused again, it throws.
ResumeTool(c) == AskAndStart(c, "paused", "failed")

\* A refused model call throws AdmissionRefused.
Generate(c) == AskAndStart(c, "idle", "refused")

\* The tool returned, or the model's whole reply has arrived.
NativeReturns(c) ==
    /\ c \in ModelCalls => emitted[c] = Chunks
    /\ Moves(c, "running", "done")
    /\ Complete(holds[c])
    /\ UNCHANGED <<holds, attempts, emitted, asked>>

\* One more chunk of a model's reply.
NextChunk(c) ==
    /\ phase[c] = "running" /\ emitted[c] < Chunks
    /\ emitted' = [emitted EXCEPT ![c] = @ + 1]
    /\ UNCHANGED <<ledgerVars, phase, holds, attempts, asked>>

\* The work throws or is aborted: what was dispatched is never completed.
WorkFails(c) ==
    /\ Moves(c, "running", "aborted")
    /\ UNCHANGED <<ledgerVars, holds, attempts, emitted, asked>>

-----------------------------------------------------------------------------

BridgeStep(c) == \/ BeforeHook(c) \/ LedgerAdmits(c) \/ HookHears(c)
                 \/ HookAsksAgain(c) \/ LedgerDispatches(c) \/ HookReturns(c)
                 \/ AfterHook(c) \/ LedgerCompletes(c) \/ ReportFails(c)
                 \/ FetchFails(c) \/ WorkFails(c)

NativeStep(c) == \/ c \in ToolCalls /\ (InvokeTool(c) \/ ResumeTool(c))
                 \/ c \in ModelCalls /\ (Generate(c) \/ NextChunk(c))
                 \/ NativeReturns(c) \/ WorkFails(c)

Next ==
    /\ UNCHANGED engine
    /\ \/ engine = "opencode" /\ \E c \in BridgeCalls : BridgeStep(c)
       \/ engine = "native" /\ \E c \in ToolCalls \cup ModelCalls : NativeStep(c)
       \/ /\ LedgerStep({RequestOf[c].scope : c \in Calls}, {RequestOf[c].round : c \in Calls})
          /\ UNCHANGED callVars

\* The OpenCode process keeps running its hooks, and the ledger its server.
Spec == /\ Init /\ [][Next]_vars
        /\ \A c \in BridgeCalls : WF_vars(BridgeProgress(c) /\ UNCHANGED engine)

-----------------------------------------------------------------------------
(* Properties *)

\* What the ledger has of call c.
RecordsOf(c) == asked[c] \cap DOMAIN dispatches

\* What the ledger shows is what happened.  A call that is running, or whose
\* completion is on its way, is a start without an end, so the report of its
\* completion is never refused; a call that is done is complete; a call that ran and
\* was aborted has its start; a call that is still asking, was refused or is paused has
\* left none behind, whatever it was answered before.  A call whose hook threw before
\* it ran may have left a start, but never a completion; and no call has more
\* than one start, nor shares it with another.
LedgerTellsWhatRan ==
    /\ \A c \in Calls :
          /\ phase[c] \in {"dispatched", "running", "completing"} =>
                holds[c] \in DOMAIN dispatches /\ dispatches[holds[c]] = "started"
          /\ phase[c] = "done" =>
                holds[c] \in DOMAIN dispatches /\ dispatches[holds[c]] = "completed"
          /\ phase[c] = "aborted" => holds[c] \in DOMAIN dispatches
          /\ phase[c] \in {"idle", "asking", "answered", "holding", "dispatching",
                           "paused", "refused"} => RecordsOf(c) = {}
          /\ phase[c] = "failed" => \A a \in RecordsOf(c) : dispatches[a] = "started"
          /\ RecordsOf(c) \subseteq {holds[c]}
    /\ \A c, d \in Calls : asked[c] \cap asked[d] # {} => c = d

\* A Ticket's grants end for good: once something was refused because its
\* Ticket was Done, nothing is ever allowed again on a grant for that Ticket,
\* not after a reopening, a reconnection or a further grant.
EndedGrantStaysEnded ==
    \A i, j \in DOMAIN admissions :
        (/\ i < j
         /\ admissions[i].reason = "ticket-done"
         /\ admissions[j].decision = "allow"
         /\ admissions[j].request.ticket = admissions[i].request.ticket)
        => grants[admissions[j].grant].form.kind = "time"

\* A native call never starts on an answer that is out of date: at the very
\* step it starts, its Round has no pending Stop, the ledger is connected and a
\* live grant covers it, however long the call was paused and whatever it was
\* answered before it was resumed.
NativeStartsOnALiveGrant ==
    [][\A c \in ToolCalls \cup ModelCalls :
          phase[c] # "running" /\ phase'[c] = "running" =>
             /\ RequestOf[c].round \notin pendingStopRounds
             /\ connected
             /\ \E i \in DOMAIN grants : Matches(grants[i], RequestOf[c]) /\ Live(grants[i])]_vars

\* A tool call is never held for ever: even if the ledger stays disconnected, the
\* hook in the end lets the tool run or throws.
HeldCallsSettle ==
    \A c \in BridgeCalls :
        phase[c] = "asking" ~> phase[c] \in {"running", "refused", "failed"}
=============================================================================
