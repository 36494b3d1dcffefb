----------------------------- MODULE RunnerHealth -----------------------------
(***************************************************************************)
(* The runner's health as Swiftlet shows it, on the Runner page and on the *)
(* page of a Ticket with an open Round: one poll that either page starts   *)
(* and stops, and the Runner page's pairing and revocation, each of which  *)
(* asks for the health anew.                                               *)
(*                                                                         *)
(* Galley is a number of changes: pairings and revocations, here or in     *)
(* another tab, heartbeats and the lack of them.  Requests are not waited  *)
(* for: a tick, a page or a command asks again while earlier requests are  *)
(* on their way, and only the one asked for last is shown; one that nobody *)
(* answers stays on its way.  The token, the confirmation and the messages *)
(* of the page are left out.                                               *)
(***************************************************************************)
EXTENDS Integers

CONSTANT MaxHealth  \* bound: the changes of the health

ASSUME HealthAssumption == MaxHealth \in Nat

VARIABLES health,      \* Galley: the changes of the health so far
          watcher,     \* the page that shows the health
          healthView,  \* shared.view: its kind, and the health while it is loaded
          requests,    \* the requests on their way, and which is shared.latest
          pairing,     \* a pairing or revocation on its way, and whether its page is still there
          told         \* history: the newest health shown, or told by a command's answer

healthVars == <<health, watcher, healthView, requests, pairing, told>>

\* What a request holds until Galley answers it.
HealthUnread == -1

NoPairing == [at |-> "none", change |-> 0, here |-> FALSE]

HealthTypeOK ==
    /\ health \in 0 .. MaxHealth
    /\ watcher \in {"none", "runner", "ticket"}
    /\ healthView \in [kind: {"loading", "loaded", "error"}, health: 0 .. MaxHealth]
    /\ requests \subseteq [latest: BOOLEAN, read: HealthUnread .. MaxHealth]
    /\ pairing \in [at: {"none", "sent", "done"}, change: 0 .. MaxHealth, here: BOOLEAN]
    /\ told \in 0 .. MaxHealth

Larger(m, n) == IF m > n THEN m ELSE n

\* ++shared.latest: no request that is on its way is shown any more.
Overtaken == {[r EXCEPT !.latest = FALSE] : r \in requests}

\* reloadSharedHealth(), up to its await.
ReloadSharedHealth == Overtaken \cup {[latest |-> TRUE, read |-> HealthUnread]}

-----------------------------------------------------------------------------
(* Galley.                                                                 *)

\* Another tab pairs or revokes, or the runner is heard of, or no longer.
HealthChanges ==
    /\ health < MaxHealth
    /\ health' = health + 1
    /\ UNCHANGED <<watcher, healthView, requests, pairing, told>>

GalleyReadsHealth(r) ==
    /\ r.read = HealthUnread
    /\ requests' = (requests \ {r}) \cup {[r EXCEPT !.read = health]}
    /\ UNCHANGED <<health, watcher, healthView, pairing, told>>

GalleyPairs ==
    /\ pairing.at = "sent" /\ health < MaxHealth
    /\ health' = health + 1
    /\ pairing' = [pairing EXCEPT !.at = "done", !.change = health + 1]
    /\ UNCHANGED <<watcher, healthView, requests, told>>

-----------------------------------------------------------------------------
(* The pages.                                                              *)

\* subscribeSharedHealth: the first listener asks, and starts the interval.
ShowHealth(which) ==
    /\ watcher = "none"
    /\ watcher' = which
    /\ requests' = ReloadSharedHealth
    /\ UNCHANGED <<health, healthView, pairing, told>>

\* The last listener goes.
HideHealth ==
    /\ watcher # "none"
    /\ watcher' = "none"
    /\ healthView' = [healthView EXCEPT !.kind = "loading"]
    /\ requests' = Overtaken
    /\ pairing' = [pairing EXCEPT !.here = FALSE]
    /\ UNCHANGED <<health, told>>

\* The interval runs while a page shows the health, whatever is on its way.
HealthTick ==
    /\ watcher # "none"
    /\ requests' = ReloadSharedHealth
    /\ UNCHANGED <<health, watcher, healthView, pairing, told>>

\* Mutant: whatever arrives is shown.
HealthShownWhateverArrives(r) == TRUE

HealthShown(r) == r.latest

HealthArrives(r) ==
    /\ r.read >= 0
    /\ requests' = requests \ {r}
    /\ IF HealthShown(r)
       THEN /\ healthView' = [kind |-> "loaded", health |-> r.read]
            /\ told' = Larger(told, r.read)
       ELSE UNCHANGED <<healthView, told>>
    /\ UNCHANGED <<health, watcher, pairing>>

\* An answer that is no health, or none; a 401 leads to the sign-in page, which is HideHealth.
HealthFails(r) ==
    /\ requests' = requests \ {r}
    /\ healthView' = IF HealthShown(r) THEN [healthView EXCEPT !.kind = "error"] ELSE healthView
    /\ UNCHANGED <<health, watcher, pairing, told>>

\* pair(), revoke(): one at a time, and offered once a health is shown.
SubmitPairing ==
    /\ watcher = "runner" /\ healthView.kind = "loaded" /\ pairing.at = "none"
    /\ pairing' = [at |-> "sent", change |-> 0, here |-> TRUE]
    /\ UNCHANGED <<health, watcher, healthView, requests, told>>

\* The answer announces the change to a page that polls, and is followed by a reload.
PairingAnswered ==
    /\ pairing.at = "done"
    /\ pairing' = NoPairing
    /\ requests' = ReloadSharedHealth
    /\ told' = IF pairing.here THEN Larger(told, pairing.change) ELSE told
    /\ UNCHANGED <<health, watcher, healthView>>

\* Refused or unreachable, or its answer lost once it was carried out.
PairingFails ==
    /\ pairing.at # "none"
    /\ pairing' = NoPairing
    /\ requests' = ReloadSharedHealth
    /\ UNCHANGED <<health, watcher, healthView, told>>

-----------------------------------------------------------------------------
HealthInit ==
    /\ health = 0 /\ told = 0
    /\ watcher = "none"
    /\ healthView = [kind |-> "loading", health |-> 0]
    /\ requests = {}
    /\ pairing = NoPairing

HealthNext ==
    \/ HealthChanges \/ GalleyPairs
    \/ \E which \in {"runner", "ticket"} : ShowHealth(which)
    \/ HideHealth \/ HealthTick \/ SubmitPairing \/ PairingAnswered \/ PairingFails
    \/ \E r \in requests : GalleyReadsHealth(r) \/ HealthArrives(r) \/ HealthFails(r)

HealthSpec == HealthInit /\ [][HealthNext]_healthVars

-----------------------------------------------------------------------------
\* No health comes to be shown that is older than one shown before, on this page
\* or an earlier one, or than the change a command's answer told of: not by a poll
\* that was on its way, nor by the request of a page that was left.
NeverOlderThanTold ==
    [][healthView' # healthView /\ healthView'.kind = "loaded" => healthView'.health >= told]_healthVars
=============================================================================
