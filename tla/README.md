# ticketIt in TLA+

ticketIt lets an Owner hand Tickets to agents.  **Galley** (Go, PostgreSQL) is the
single authority: it keeps Tickets, Rounds, questions, Permission requests, grants and
the runner's credential, and every change is one transaction of one HTTP handler.
**Michelin** (TypeScript) is the runner: it claims work from Galley, drives an
engine and reports facts.  **Swiftlet** (React) shows the Owner's Tickets and submits the
Owner's commands.  The **experiments** (TypeScript) try out what the next Michelin rests on:
an engine whose calls are admitted by a ledger of grants, the delivery of a Round's work as
a pull request, a question that survives its process, and the recording of usage.
Galley, Michelin and Swiftlet share no memory and no clock: both clients poll, their requests
get lost or answered late, Michelin's process restarts, its credential is replaced, and
the Owner acts at any moment.  This project models those protocols, checks them with
TLC and proves most of their safety with TLAPS.

## Inventory

| Part | State | Operations | What makes it correct |
| --- | --- | --- | --- |
| Ticket lifecycle (`ticket_lifecycle.go`, `ticket_archive.go`, `agent_readiness.go`, `ticket.go`) | Status, assignee, inputs, archived | change Status, accept, rework, assign, edit, archive, restore | a Ticket under an open Round moves only with it; a Ready Agent has its inputs |
| Rounds (`rounds.go`, `round_events.go`, `round_endings.go`) | state, Ticket, holder, claim epoch | claim, events, endings | one open Round per Owner; endings are final |
| Questions and Permission requests (`round_questions.go`, `round_permissions.go`) | the ask, its answer, which one a Round waits on | raise, answer, approve, decline, resume | a Round waits on its own ask; a Stop outranks a later answer |
| Stop, limits, attestation (`round_commands.go`, `round_limits.go`, `round_attestation.go`) | stop requested, limit breach, active time, denials | Stop, limit breach, stop_confirmed, attest, acknowledge | the first cause names the ending; a limit ends what reached it; attestation only where no runner answers |
| Runner and Reconcile (`runner.go`, `reconcile.go`) | the paired credential, last contact, the Round's flag and reported execution | pair, revoke, register, heartbeat, Reconcile | an unknown execution stays flagged until its holder answers for it |
| Authority (`round_authority.go`, `grant_*.go`) | grants of each form, their terms, checks, denials | check, approve, decline, revoke, expire, end with the Ticket | nothing is allowed by a grant that ended, and a revocation reaches every Round it covered |
| Priority (`ticket_priority.go`, the walk of `rounds.go`) | a rank per Ticket, the Owner's priority lock | capture, enter Ready, reorder, renumber; list and walk the claim's candidates | the order is the Owner's; the first Ticket asking for work is claimed |
| Feedback, usage, badges, activity (`round_feedback.go`, ...) | feedback, observations | add and consume feedback, read | not modelled |
| Michelin's loops (`heartbeatLoop.ts`, `claimLoop.ts`, `commandLoop.ts`, `answerInbox.ts`, `reconciler.ts`) | registration, owed Reconcile, claim key, held Round, commands seen, inboxes | register, heartbeat, claim, pull, acknowledge, Reconcile | no flag is forgotten, no Stop is missed, nothing is acknowledged before it is done |
| Michelin's engine (`engine.ts`) | step, event being sent, unsent event, halt | start, progress, ask, act, retry_act, deliver, fail, interrupt, hold | the log has no hole; a ceased engine never works again |
| Swiftlet's Ticket page (`TicketDetailPage.tsx`, `TicketDetail.tsx`, its panels, `useExecutionRefresh.ts`, `api/tickets.ts`) | the Ticket shown, the edit and drafts, the requests in flight | load, refresh, poll, edit, every command of the page | no refresh undoes a command; what is typed belongs to what is shown; the page catches up |
| Swiftlet's Board and List (`TicketBoard.tsx`, `TicketList.tsx`, `ActiveOrder.tsx`) | the list shown, the command and the Stops in flight | load, poll, move, archive, reorder, Stop | no list undoes a command; an own reorder is shown |
| Swiftlet's runner health (`RunnerHealthPill.tsx`, `RunnerSection.tsx`, `api/runner.ts`) | the shared view, the latest request, the interval | show, leave, tick, pair, revoke | nothing older than what was told is shown |
| Admission ledger and engines (`experiments/shared`, `opencode-admission`, `native-admission`) | grants, held calls, decisions, what was dispatched and completed | admit, approve, revoke, expire, stop, dispatch, complete, pause and resume | nothing runs on an ended grant; the ledger tells what ran; held calls settle |
| GitHub delivery (`experiments/github-delivery`) | branch, pull request, Galley's record of the delivery | push, list, create, update, close, merge, observe, write late | done rests on a merge; what is delivered was pushed |
| Durable input (`experiments/native-durable-input`) | checkpoint, marker file, snapshot, library | run to a question, answer, resume, kill, publish | one effect per answer; a Round keeps its inputs |
| Usage (`experiments/usage-persistence`) | records, the process's memory | read from two sources, merge, insert, total | totals tell their gaps |
| Sessions, agents, connected accounts, contracts, tests, the other experiments | | | not modelled, see below |

The hard behaviours are the races of claims and Owner commands over one slot, the
clients' view of Galley being stale, lost answers with retries under a key,
restarts and kills, credential replacement, grants that end under what they allow, and a Stop
that races everything else.
`PROJECT.json` lists each with its line and the properties that cover it.

## Modules

| Module | Models | Notes |
| --- | --- | --- |
| `TicketRules` | the pure rules of `ticket_lifecycle.go`, `agent_readiness.go`, `round_endings.go` | operators only: which changes of a Ticket are allowed, what an Agent needs, the Status each Round state holds |
| `Galley` | every handler that changes a Ticket, a Round, an ask or the credential | one action per handler, atomic as its transaction is; a claim is two actions, because it is authenticated (`requireRunner`) before its transaction begins |
| `ExecutionSlot` | the promise behind Galley: one slot, taken once, given up with one outcome | abstract; `Galley!SlotSpec` is the refinement, with `slot` the open Round, `outcome` the ended states, `stopped` the Rounds asked to stop |
| `TicketPriority` | the ranks, and the claim that walks them | beside `Galley`, which abstracts the order away: here the claim is a walk of several steps, and the Rounds are only the Ticket they hold |
| `OwnerOrder` | the promise behind the ranks: one total order, moved only where the Owner puts it | abstract; `TicketPriority!OrderSpec` is the refinement, with `before` the comparison of ranks |
| `Authority` | grants, authority checks, denials, the Round's clock and its limits, commands' acknowledgements | beside `Galley`, which lets any check be allowed or denied: here a check finds its grant, and a report carries the time it was received; `Authority!SlotSpec` refines `ExecutionSlot` too |
| `Michelin` | one Michelin process composed with `Galley` | EXTENDS `Galley`: every request that reaches Galley is the Galley action that handles it |
| `RunnerCommands` | the commands of one Round: pulled, delivered, carried out, acknowledged | beside `Michelin`, which hands commands over in one step: here the command loop and the engine are two processes that wait for acknowledgements |
| `TicketPage` | Swiftlet's page of one Ticket against a Galley that moves on | a version of the Ticket stands for its contents |
| `TicketCollection` | Swiftlet's Board, and the List, which does less | Galley is the sequence of changes made to it |
| `RunnerHealth` | Swiftlet's shared poll of the runner's health, and the Runner page's commands | Galley is a number of changes |
| `PermissionGrants` | the ledger's grants and what they authorize | used by the two experiments that need a grant |
| `AdmissionLedger` | the ledger: its admissions and its two logs, of what it allowed and of what ran | EXTENDS `PermissionGrants` |
| `Admission` | the engines that ask it: OpenCode's hooks over HTTP, and the native tool and model wrappers | EXTENDS `AdmissionLedger` |
| `GitHubDelivery` | the delivery of Rounds of one Ticket, with GitHub as it is used | EXTENDS `PermissionGrants` |
| `DurableInput` | the two processes, their kills, the marker file and the snapshot | LangGraph's checkpointer is external; a process is killed between its writes |
| `UsageRecords` | the records of the Rounds' generations from two sources | a message loses its tokens in the checkpoint, which its cost survives |
| `GalleyProofs`, `TicketPriorityProofs`, `MichelinProofs`, `AdmissionProofs`, `GitHubDeliveryProofs` | theorems about the module of that name | see "Proved" |
| `CommandProofs` | theorems about `Authority` and `RunnerCommands` | |
| `SwiftletProofs` | theorems about `TicketPage`, `TicketCollection` and `RunnerHealth` | |
| `DurabilityProofs` | theorems about `DurableInput` and `UsageRecords` | |
| `MCGalley`, `MCPriority`, `MCMichelin`, `MCAuthority`, `MCCommands`, `MCSwiftlet`, `MCExperiments` | the instances TLC checks | symmetry, constraints, the engine's scripts.  The last three put modules side by side that share nothing: a behaviour of `MCCommands` is that of `Authority` or of `RunnerCommands`, of `MCSwiftlet` one Ticket's page, one Board or the runner's health, and of `MCExperiments` one of the four experiments, the others at rest |

**Correspondence.**  In `Galley`, a variable is a column: `roundState`, `holder`,
`epoch`, `waitingOn`, `reconcileRequired`, `execution` are those of `rounds`;
`stopRequested` is the existence of a Stop command; `breach` that of a limit
breach; `askState` and `askRound` stand for both `round_questions` and
`permission_requests`; `runner`, `contact` for the `runners` row and its health
window.  Handlers that only read are left out.  Ticket texts, notes, deliverables,
times, usage figures and pages of activity are abstracted away; an input is present or
not.  In `TicketPriority`, `rank` is the column `priority_rank`, `walking` says that a claim holds the
priority lock, and `looked` is the Tickets whose rows it has locked on its way.  Capturing,
changing a Status and reordering take the priority lock first and so wait for the walk to end;
assigning, archiving and restoring take only the Ticket's row and interleave with the walk.
In `Authority`, `clock` is the server's time, and every handler's `now` may lie behind it by `MaxLag`, because
it is taken before the handler waits for its locks; a Round's clock adds up the
stretches it was running, and stands still while it waits.
In `Michelin`, `registered` and `owed` are the shared `Registration`, with
`rec.stale` standing for a `reconcileRaised` that moved since the Reconcile began;
`held` and `engine` are `runRound`'s; `recorded` is the set of idempotency keys
Galley has stored for the Round.  A wait or backoff lasts as long as it likes.
In `RunnerCommands`, a command's number is its place in `issued_at`, `loop.seen` is the loop's
`seen`, and an event or an acknowledgement is recorded in one action and heard in another, so
that a repetition in between is a stutter.

In Swiftlet's modules the text of a Ticket is its version: the change of Galley it was read after.
A request is what it asks and, once Galley answered, the version it will bring; counters
(`requestId`, `latest`) become the fact that a request was or was not overtaken, which is all they are
compared for.  In the experiments, a digest, a prompt or a figure is the value it was made from, and each await is
a step of its own.

## What the runs check

Bounds are named constants of each cfg.  A Round is claimed at most once, so
`Round` bounds the claims; `MaxEpoch` bounds epochs; `Limits` names the technical
limits that may breach; `MaxRestarts` bounds restarts; `Lossy` names the kinds of
request that may be lost, or whose answer may be.

| Run | Instance | Shows |
| --- | --- | --- |
| `round` | 1 Ticket, 1 Round, 2 credentials, 2 kinds of Agent, 2 asks, 1 limit | the first cause names the outcome; an unknown execution stays flagged; a Ready Agent has its inputs; a Round waits on its own ask; a Stop outranks the answer |
| `tickets` | 2 Tickets, 2 Rounds, 1 credential | one open Round, which holds its Ticket; only the Round moves its Ticket; endings; refinement of `ExecutionSlot` |
| `priority` | 3 Tickets, spacing 2, ranks -2 to 6, 2 Tickets assigned and 1 archived along the way | a reorder finds room; the first asking Ticket is claimed; refinement of `OwnerOrder` |
| `authority` | 2 Tickets, 2 Rounds, 1 grant, clock to 2, reports 1 late, limits of 2; commands of a Round with 2 questions, a Stop, 2 changes of authority | a revocation stops every Round the grant covered; limits end only what reached them, by the Round's own clock; what is acknowledged was carried out; no Stop waits behind an acknowledgement |
| `expired_revoke` | 1 Round and its grant | violation, below |
| `michelin_lossy` | start, ask, retry_act, deliver; everything lossy, 1 restart, late claims | no hole in the log; no work after an ending; a ceased engine stays so; no flag is forgotten |
| `michelin_answer` | start, act, hold; events and checks lossy | an approval is taken |
| `michelin_restart` | start, hold; heartbeats lossy, 1 restart | a Stop ends the held Round; a Round left behind is reported unknown |
| `never_started` | start, progress, fail; lossy | violation, below |
| `late_claim` | the same with a restart | violation, below |
| `swiftlet` | a page: 3 versions, 5 controls, 1 loss; a Board: 2 Tickets, 4 changes, 1 mishap; 2 changes of the runner's health | no refresh and no list undoes a command; what is typed belongs to what is shown; page and Board catch up; no health older than what was told is shown |
| `experiments` | one call of each kind and 2 grants; 2 Rounds and 2 commits; 4 launches and 2 answers; 2 generations, 2 Rounds and 1 death | the nine properties of the four experiments, below |

`experiments` checks that the ledger tells what ran, that an ended grant stays ended, that a native call starts
only on a live grant and that held calls settle; that Done
rests on a merge and delivered work was pushed; that an
answer has one effect and a Round keeps its inputs; and that totals tell their gaps.

Why the bounds are enough: the slot and the refinement relate at most two
Rounds, and two Tickets suffice for a race; the runner's protocol concerns one
Round at a time, and a second Round starts from the state the first leaves.  Both ways
a credential can matter (the holder's, or another) need two.  The spacing of 1024
is 2 here, so that every gap runs out at the first reorder into it and renumbering is common; the
ranks reach as far as three captures to the top and a renumbering to the bottom take them.
Three Tickets are the fewest with a place between two others.  `OneAside` lets
one Ticket at a time be archived or past Ready, which is what one open Round needs.  `TwoTicketsBound` keeps
the larger instance small: inputs stay complete, one Ticket at most is archived
and no Reconcile is recorded; the `round` instance has all of these, and `OneRoundBound` leaves out of it only edits of the
Ticket's inputs once its one Round has ended.  A clock of two ticks has a time
before, at and after a limit and an expiry; `SmallHistory` keeps down
the denials and settled commands that no later step looks at.  Three versions of a page are one shown, one a command's answer brings and one
that passes both; two questions are one whose answer may come before the other is asked; one death suffices for every
point at which a process can be killed.  Generation 1 uses 2 tokens and generation 2 uses 4, and their
costs are the same numbers, so that a sum tells which of them are in it; two are a first and a second that
lacks an id, or one that is told twice beside another.  Every safety property that a passing run checks is also proved for every
instance; the bounds matter for liveness, and for what TLC is asked before a proof is begun.

`CHECK_DEADLOCK FALSE` stands in three configurations: an experiment finishes, the commands' Round ends,
and the Ticket's page may be left.  In the others there is always a step.

**Fairness.**  In `MichelinSpec`, Michelin's loops are timers that keep firing: weak
fairness for registering or heartbeating, for starting and handling a Reconcile,
for pulling commands and for the engine's own moves.  A request asked over and
over is at last handled and answered: strong fairness for a beat's answer, a Reconcile's
answer, an event's, a check's and a claim's.  Nothing is assumed of the Owner, of a
restart or of the health window, and every liveness property excuses a revoked
credential.  Where an engine waits for an authority check, `checkScope`
looks at a Stop only through its Reconcile gate (`engine.ts:545`): if contact lapsed again
before each retry, a Stop could be overlooked for ever.  No timing of the code
excludes that schedule, so `michelin_answer` leaves heartbeats lossless and the hazard
is listed without a property.

On Swiftlet's page and Board every request is answered or fails in the end, its answer is heard,
and the interval ticks: weak fairness for each of these, none for the Owner.  Failing counts as an answer, so a
view may show an error for as long as Galley fails; the bounds on losses end that.  In `Admission` each call of
OpenCode gets on (`BridgeProgress`): its hook asks, hears an answer or gives up after its attempts.

## Disagreements found

* **A Round interrupted before it started** (`never_started`).  `execution_started` goes
  unheard, the engine halts at its retry bound, Reconcile names `interrupted`
  and Galley records it from `claimed` (`round_events.go:412-424`) with a null
  `startedAt`.  `contracts/openapi.yaml:3432` allows null "only for a Round stopped
  before it started", and Michelin follows it (`galley/runner.ts:223`): it takes the
  recorded answer for an invalid body and retries until its bound.
* **A late claim nobody may attest** (`late_claim`).  A claim authenticated before a
  restart may commit after the new process registered and reconciled.  The Round it
  opens has a connected holder that does not know of it and was never reported
  unknown, so the cessation attestation is refused, although no runner will end it.
  The same property fails, by a shorter way, for a script without a final step: the
  engine returns "completed" (`engine.ts:466`) and the Round is let go of while
  heartbeats continue.
* **A check allowed on an expired grant** (`expired_revoke`).  An authority check takes its time when it
  is received (`round_authority.go:55`), waits for its locks, and compares the grant's
  expiry with that earlier time (`round_authority.go:137-141`).  The Owner's revoke of the same grant
  meanwhile is refused with "this grant has expired and authorizes nothing"
  (`grant_revocation.go:21`), and then the check is allowed on it.

Seen while reading, and shown by no run, because no property above is about them:

* `stop_confirmed` holds its Round and takes the Owner's row (the foreign key of the badge it inserts), pairing holds
  the Owner's row and takes the runner's, registering holds the runner's and takes the Round: the three can wait on each other until
  PostgreSQL aborts one.
* In the delivery experiment a merge is observed without its pull request's number (`galley-substitute.ts:329`), an update may reach a
  pull request merged since it was listed, and a merge seen while the Ticket is Ready is dropped without a record.
* OpenCode's hook dispatches after its admission was answered, so a Stop in between lets one call
  run; a call that is still held after a confirmed Stop may be admitted again.
* On the Ticket's page two commands in flight may leave the older answer shown; a poll that comes in
  during a save ends the edit, so the save's refusal is not displayed.  A Board's move whose answer is lost is not fetched anew.
  The runner's health is asked for every ten seconds whether or not the last request was answered, so answers slower than that are
  all overtaken; and the reload after a pairing whose page was left fills the view that leaving had cleared.
* `docs/usage-accounting.md:32` says that totals must not imply a complete accounting.  A generation read without an id is recorded as
  "unknown-generation" (`usage-ingest.ts:180`), and the generation's id is unique over all Rounds (`usage-store.ts:44`): a second such
  generation, of the same Round or another, is dropped, and its Round's totals are not marked incomplete for it; and one that is recorded
  without an id from the adapter and under its id from the capture counts twice.  `TotalsTellTheirGaps` says how far that goes: all that was
  recorded under an id is counted once, and beside it one generation at most.

## Proved

Eight modules hold theorems, for every value of the constants that satisfies the named assumption of the
module they are about.  Each rests on one inductive invariant, proved by one step per action, and the
properties follow from it.

`GalleyProofs`, for any number of Tickets, Rounds, credentials and asks, from `GalleyAssumption` (the sentinels are not
members of the sets, the limits and assignees are known ones):

| Theorem | Property |
| --- | --- |
| `TypeCorrect` | `TypeOK` |
| `SlotInvariant`, `OneOpenRoundHolds`, `OpenRoundHoldsItsTicketHolds` | one open Round, which holds its Ticket |
| `ImplementsSlot` | `SlotSpec`: every step is a step of `ExecutionSlot` or a stutter |
| `EndingIsFinalHolds`, `OnlyItsRoundMovesTheTicketHolds`, `StopOutranksTheAnswerHolds` | the three action properties |
| `FirstCauseHolds`, `UnknownStaysFlagged`, `WaitsOnItsOwnAskHolds`, `ReadyAgentHasItsInputsHolds` | the remaining invariants |

The central argument is the inductive invariant `SlotInv`: `OneOpenRound` is not
inductive alone, because what keeps the Owner's handlers away from an open
Round's Ticket is that the Ticket is unarchived, in the Status the Round's state holds and
assigned to an Agent.  `SlotInv` adds that and the type.  The claim is the only step
that opens a Round, and its guard is the slot; the other handlers are split into Owner steps,
credential steps, the claim and the runner's events, one lemma for each group.
The refinement maps every step that leaves the Rounds alone to a stutter or a Stop, a claim
to `Take` and an ending to `GiveUp`, and needs `SlotInv` for the open Round
to be the mapped one.  The action properties follow from the invariants, step by step.

`TicketPriorityProofs`, for any finite set of Tickets, any spacing of at least 2 and any
bounds on the ranks (`PriorityAssumption`):

| Theorem | Property |
| --- | --- |
| `PriorityTypeCorrect` | `PriorityTypeOK` |
| `ReorderFindsRoomHolds` | renumbering leaves room beside every anchor |
| `ClaimTakesTheFirstHolds` | a claim takes the first Ticket that asks for work |
| `ImplementsOrder` | `OrderSpec`: every step is a step of `OwnerOrder` or a stutter |

Its inductive invariant, `PriorityInv`, adds to the type that captured Tickets have distinct ranks,
that a candidate the claim skipped still does not ask for work (the claim holds its row, so nobody could
change it), and that an open Round's Ticket is captured.  The arithmetic is in lemmas of their own:
a midpoint lies strictly inside its gap, renumbering keeps every comparison and spaces the
ranks, and a rank placed between its bounds gives the order `OwnerOrder!Place` describes.
That a nonempty finite set of ranks has a least and a greatest member is proved without induction,
from the well-foundedness of `<` on the naturals applied to the number of smaller members.

`CommandProofs`, for any Tickets, scopes, limits, terms and lags (`AuthorityAssumption`), and for any number of questions and of
changes of authority (`CommandsAssumption`):

| Theorem | Property |
| --- | --- |
| `AuthorityInvariant` | `AuthorityInv` |
| `RevokedGrantStopsItsRoundsHolds` | an open Round that was ever allowed something on a revoked grant has a Stop |
| `LimitsMeasureTheRoundHolds` | a wall-clock breach only of a Round that ran as long, a Stop for one denied too often, and for every breach |
| `CommandsSettleOnceHolds` | an acknowledged command keeps its answer, and a Round has one Stop |
| `AuthorityImplementsSlot` | `Authority!SlotSpec`: every step is a step of `ExecutionSlot` or a stutter |
| `CommandsInvariant` | `CommandsInv` |
| `AppliedWasDoneHolds` | an acknowledged command was carried out, however often it is pulled and its acknowledgement repeated |
| `NoStopBehindAnAcknowledgementHolds` | no pulled Stop waits behind an acknowledgement the command loop repeats |

`AuthorityInv` adds the type, the one open Round, that an allowed check is on a grant that covers its scope and Ticket,
that a Round's recorded time is no more than it ran, and that a Round has one Stop at most.

`Authority` implements `ExecutionSlot` as `Galley` does, and no run lists that refinement: its evidence is the proof.  A claim is
`Take`, an ending `GiveUp`; every other step opens and ends no Round (`RoundsStay`) and asks nobody to stop or the
Round that is open (`AsksTheOpenOne`), so it is `AskToStop` or a stutter.  The invariant needed beside `AuthorityInv` is `SlotFits`: Rounds are
numbered within their bound, and a Stop is of a Round there is, so a new Round is not born stopped.  `Authority` has one kind of ending, so that only a Round
asked to stop ends "stopped" holds there by the mapping (`EndedAs`); it is `Galley`'s refinement that shows it.  What this one shows is
that the Stops of revocations and of limits go to the Round that holds the slot and to none after its end.

`CommandsInv` is about two processes that share an inbox and a Stop flag.  `EngineFits` says what stands behind
each: a question in the inbox was answered by a command, the Stop that was raised is the Stop that was issued, an answer the engine acknowledges
was resumed with in Galley's record, and the outcome is the one the engine's last event told.  `LoopFits` says that a batch just pulled has its Stops first,
and that no Stop waits behind the acknowledgement under way.  The step from the one to the other is `Handle`, which walks the batch to the first
command it acknowledges itself: whatever is behind that command is no Stop, because Galley's order puts the Stops first (`round_commands.go:123`).
The model takes each pull as *any* sequence of the pending commands that keeps that order (`InOrder`), so the
proof uses nothing else of the query.

`MichelinProofs`, for any script and any losses and restarts, on the assumptions of `Galley` and `Michelin`:

| Theorem | Property |
| --- | --- |
| `MichelinInvariant`, `MichelinTypeCorrect` | `MichelinInv`, `MichelinTypeOK` |
| `RecordedInOrderHolds`, `NoWorkAfterTheEndingHolds` | the log has no hole, and no work follows an ending |
| `FlagIsKnownHolds`, `CeasedForGoodHolds` | no flag is forgotten, and a ceased engine stays so |
| `MichelinStepsGalley` | every step of Michelin is a step of `Galley` or leaves it alone |

`MichelinInv` is `SlotInv` with the type, `EngineFits` (the engine's phase, event and unsent event belong together),
`LogFits` (what is recorded is what the script reported up to the engine's step), `LoopsFit` and `FlagFits`.  Every
action of the engine is either a way on (`GoesOn`), which moves it to the next event with the log up to its step, or leaves it.
As every step is a `Galley` step, `SlotInv` is preserved by the lemma `GalleyProofs` already has.  `FlagFits` says that a
Reconcile's answer that settles, and that is not stale, was given when no Round was flagged, and that the runner will hear of what was flagged since.

`SwiftletProofs`, for any number of Tickets, versions, commands and changes, and any losses (`PageAssumption`, `ShelfAssumption`,
`HealthAssumption`):

| Theorem | Property |
| --- | --- |
| `PageInvariant`, `RefreshNeverUndoesACommandHolds`, `TypedForWhatIsShownHolds` | the page's two invariants |
| `CollectionInvariant`, `ListNeverUndoesACommandHolds` | no list undoes a command whose answer was shown |
| `HealthInvariant`, `NeverOlderThanToldHolds` | no answer shows a health older than the one shown or told (an action property) |

The three views discard answers in three ways, and so their invariants differ.  `PageInv` says that an answer still to be shown is no older than the
last command's, and that nothing is typed on a page that shows nothing.  `CollectionInv` says that what is shown or was heard of a Ticket is a version
of that Ticket, and that a list which has come and is not yet shown (`ListIsNewest`) is of no earlier time than anything
on the Board: a command's answer that came while the list was asked for overtakes it.  `HealthInv` says that of all requests on their way
at most one is still the latest, and that what it has read is no older than what was told, because pairing and revoking ask anew.

`AdmissionProofs`, `GitHubDeliveryProofs`, `DurabilityProofs`:

| Theorem | Property |
| --- | --- |
| `AdmissionInvariant`, `LedgerTellsWhatRanHolds`, `EndedGrantStaysEndedHolds`, `NativeStartsOnALiveGrantHolds` | what the ledger has of each call, its ended grants, and the native calls |
| `DeliveryInvariant`, `DoneRestsOnAMergeHolds`, `DeliveredWorkWasPushedHolds`, `NothingIsPushedOnceDoneHolds` | the delivery's properties |
| `DurableInvariant`, `EffectOncePerAnswerHolds`, `RoundKeepsItsInputsHolds` | the durable question's two invariants |
| `UsageInvariant`, `TotalsTellTheirGapsHolds` | the totals of all of a Round's rows, for any finite set of generations and whatever each used |

`LedgerTellsWhatRan` speaks of every call in every phase.  A call that runs or ran has one start, of the last answer its hook heard, and its completion once
the ledger's answer to that was heard.  A call whose hook threw while it dispatched never ran and may have left a start; a call whose work or report failed has its start,
and its completion if that was recorded before the answer was lost; any other has nothing.

`AdmissionInv` adds that a call goes by its own admission (`GoesByItsOwn`), that a decision that allowed names its grant, and that one that
refused because the Ticket was Done is right for ever (`DecisionsStand`).  `DeliveryInv` adds what a delivery carries between its calls
(`DeliveryCarries`), that what the merge check read of a delivered pull request is still so (`ObserverIsRight`), and that a Ticket that was
Done has no grants of its own (`EndedOnceDone`).  `DurableInv` adds that whoever runs the graph
has the prompt the thread resumes with (`InputsFixed`), and that an effect about to be applied is of an answer (`AnswerInHand`).

`UsageInv` says that what is kept of a generation are readings of it, that a record is a reading of some generation in that generation's Round
(`RecordsAreReadings`), that whatever was handed over has a record of its id (`HandedAreRecorded`), and that no two records share an
id (`OneRecordEach`).  `handed` is a history variable: it says whose observations were recorded and under which id, which a dropped one leaves no row to tell.  The totals are sums over sets of records, and the
theorem compares them with sums over sets of generations, so it needs the laws of sums over finite sets.  They would be proved by
induction on the set; the provers cannot instantiate the library's induction rule, and the lemmas `SumsAgree`, `SumsExist`, `SumOfNaturals`,
`SumByAny` (any member may be taken first) and `SumsCompared` (one sum is no more than another, member by member) each take instead a smallest set that
would refute them, which `SmallestSet` gives from the well-foundedness of `<` on cardinalities.

**Only model-checked**: liveness (`AnswerIsTaken`, `StopIsTaken`, `StrandedIsReported`, `HeldCallsSettle`, `AwaitedTicketCatchesUp`,
`OwnReorderIsShown`), because fairness and `ENABLED` are out of the prover's reach.  Every invariant and every action
property of a passing run has its theorem.  The type invariants are conjuncts of the inductive ones and no run checks them.

## Not modelled

* **Sessions and OAuth, agents and connected accounts, badges, activity and other read models, configuration, migrations and SQL plumbing,
  logging, the GitHub fake, the end-to-end tests and the generated contracts**: reads, forms or
  plumbing that change nothing the protocols above depend on.
* **PostgreSQL's locks.**  Handlers are atomic: that the locks make them so is taken from the lock order the code documents, up to the cycle above,
  which aborts a transaction and commits nothing.
* **Feedback** is a column that the claim consumes in its own transaction and nothing else reads, and Galley's usage figures only add up.
* **A Reconcile request handled after a later one.**  `Michelin` keeps one in flight and loses requests and answers.
* **Authority**: a renewal of an expired grant, a capability that was never declared, and refusals that record
  nothing.
* **The runner's commands**: approvals go the way of answers; commands of an unknown type or another epoch, which Galley never issues to a Round, and
  refused acknowledgements; a restart ends the loop with its Round, and is in `Michelin`.
* **Swiftlet**: badge filters, the phone layout, archived Tickets on their page, a second command of a panel, of an order or of the Runner page that was
  mounted anew, and two requests of one panel at once.
* **Experiments**: two resumptions of one thread at once, which race on the marker file; a kill inside a write of that file, which is truncated first, so that
  `read()` takes an empty one for no keys and a cut one throws; Git's transport and the texts of a pull request;
  prices and streams; and cancellation, fidelity, fixed inputs and the harnesses, which drive an external program once
  and keep no state between runs.
