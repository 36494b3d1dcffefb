------------------------ MODULE GitHubDeliveryProofs ------------------------
(***************************************************************************)
(* Proofs about the delivery experiment, for any number of Rounds, commits *)
(* and grants.                                                             *)
(***************************************************************************)
EXTENDS GitHubDelivery, SequenceTheorems, WellFoundedInduction, TLAPS

\* A pull request a Round delivered.
Delivered(i) == \E j \in DOMAIN rounds : rounds[j].pr = i

\* What deliver() carries between its calls: the last commit, which was pushed and which no
\* Round has, and a pull request GitHub has once there is one to update.
DeliveryCarries ==
    /\ pushed <= committed
    /\ delivery.at # "idle" =>
          /\ delivery.sha = committed /\ delivery.sha <= pushed
          /\ \A j \in DOMAIN rounds : rounds[j].sha < delivery.sha
    /\ delivery.pr # 0 \/ delivery.at \in {"updating", "written"} => delivery.pr \in DOMAIN pulls
    /\ late.at # "idle" => late.sha <= pushed
    /\ late.at = "updating" => late.pr \in DOMAIN pulls
    /\ roundOpen => currentRound # 0

\* What the merge check read of a delivered pull request is still so: a merge is final.
ObserverIsRight ==
    /\ observer.at # "idle" => Delivered(observer.pr)
    /\ observer.at = "read" /\ observer.seen.merged => pulls[observer.pr].merged

\* A Ticket that was Done has no grants of its own any more.
EndedOnceDone ==
    /\ status = "Done" => TicketId \in doneTickets
    /\ observer.completed => TicketId \in doneTickets

DeliveryInv ==
    /\ GrantsTypeOK /\ DeliveryTypeOK
    /\ DeliveryCarries /\ ObserverIsRight /\ EndedOnceDone
    /\ DeliveredWorkWasPushed /\ DoneRestsOnAMerge

-----------------------------------------------------------------------------
(* Facts the steps use.                                                    *)

\* A set of natural numbers that is not empty has a least member.
LEMMA MinOfNaturals ==
    ASSUME NEW S \in SUBSET Nat, S # {}
    PROVE  Min(S) \in S
<1>1. PICK m \in S : \A n \in S : ~ (<<n, m>> \in OpToRel(<, Nat))
  BY NatLessThanWellFounded, WFMin
<1>2. \A n \in S : ~(n < m)
  BY <1>1 DEF OpToRel
<1>3. \A n \in S : m <= n
  BY <1>2
<1>. QED BY <1>3 DEF Min

\* What the steps use of the types.
LEMMA DeliveryFacts ==
    ASSUME DeliveryInv
    PROVE  /\ MaxCommits \in Nat /\ MaxRounds \in Nat
           /\ committed \in Nat /\ committed <= MaxCommits /\ pushed \in Nat
           /\ rounds \in Seq(DeliveredRounds)
           /\ Len(rounds) \in Nat /\ DOMAIN rounds = 1 .. Len(rounds)
           /\ \A j \in DOMAIN rounds : rounds[j].sha \in Nat /\ rounds[j].pr \in Nat
           /\ pulls \in Seq(PullRequests)
           /\ Len(pulls) \in Nat /\ DOMAIN pulls = 1 .. Len(pulls)
           /\ \A i \in DOMAIN pulls : pulls[i] \in PullRequests
<1>1. /\ rounds \in Seq(DeliveredRounds)
      /\ pulls \in Seq(PullRequests) /\ committed \in 0 .. MaxCommits /\ pushed \in 0 .. MaxCommits
      /\ MaxCommits \in Nat /\ MaxRounds \in Nat
  BY DeliveryBounds DEF DeliveryInv, DeliveryTypeOK, Commits
<1>2. \A j \in DOMAIN rounds : rounds[j] \in DeliveredRounds
  BY <1>1
<1>3. \A i \in DOMAIN pulls : pulls[i] \in PullRequests
  BY <1>1
<1>4. \A j \in DOMAIN rounds : rounds[j].sha \in Nat /\ rounds[j].pr \in Nat
  BY <1>1, <1>2 DEF DeliveredRounds, Commits, Numbers
<1>. QED BY <1>1, <1>3, <1>4

\* Nothing under way is a delivery, and a late write, of no commit.
LEMMA RestingTyped ==
    /\ Resting \in Deliveries /\ Resting \in LateWrites
    /\ Resting.at = "idle" /\ Resting.sha = 0 /\ Resting.pr = 0
BY DeliveryBounds DEF Resting, Deliveries, LateWrites, Commits, Numbers

\* The first open pull request is one of GitHub's.
LEMMA FirstOpenPull ==
    ASSUME DeliveryInv, OpenPulls # {}
    PROVE  Min(OpenPulls) \in DOMAIN pulls
<1>1. OpenPulls \in SUBSET Nat
  BY DeliveryFacts DEF OpenPulls
<1>. QED BY <1>1, MinOfNaturals DEF OpenPulls

\* An operation the ledger admits is covered by a grant that is live.
LEMMA AdmittedIsGranted ==
    ASSUME NEW scope, Admitted(scope)
    PROVE  \E i \in DOMAIN grants :
              /\ Live(grants[i])
              /\ grants[i].form.kind = "ticket" => grants[i].form.ticket = TicketId
<1>. DEFINE request == [scope |-> scope, ticket |-> TicketId, round |-> currentRound]
            matching == {i \in DOMAIN grants : Matches(grants[i], request)}
            live == {i \in matching : Live(grants[i])}
<1>1. Evaluate(request).decision = "allow"
  BY DEF Admitted
<1>2. live # {}
  BY <1>1 DEF Evaluate
<1>3. PICK i \in DOMAIN grants : Matches(grants[i], request) /\ Live(grants[i])
  BY <1>2
<1>. QED BY <1>3 DEF Matches

-----------------------------------------------------------------------------
(* The invariant holds at first.                                           *)

LEMMA DeliveryInvInit == DeliveryInit => DeliveryInv
<1>. SUFFICES ASSUME DeliveryInit PROVE DeliveryInv
  OBVIOUS
<1>1. PICK form \in TicketForms \cup TimeForms :
         grants = [i \in 1 .. 4 |-> [scope |-> ConnectionScopes[i], form |-> form,
                                     revoked |-> FALSE]]
  BY DEF DeliveryInit
<1>2. \A i \in 1 .. 4 : [scope |-> ConnectionScopes[i], form |-> form, revoked |-> FALSE] \in Grants
  BY DeliveryBounds DEF Grants
<1>3. grants \in [1 .. 4 -> Grants]
  BY <1>1, <1>2
<1>. HIDE DEF Grants
<1>4. grants \in Seq(Grants)
  <2>1. 4 \in Nat
    OBVIOUS
  <2>2. grants \in UNION {[1 .. n -> Grants] : n \in Nat}
    BY <1>3, <2>1, Zenon
  <2>. QED BY <2>2, SeqDef, Zenon
<1>5. GrantsTypeOK
  BY <1>4, LedgerBounds DEF DeliveryInit, GrantsTypeOK, Times
<1>6. /\ delivery = Resting /\ late = Resting /\ rounds = <<>> /\ pulls = <<>>
      /\ committed = 0 /\ pushed = 0 /\ currentRound = 0 /\ roundOpen = FALSE
      /\ status = "Ready" /\ undefined = {} /\ feedback = FALSE /\ token \in ConnectionTokens
      /\ observer = [at |-> "idle", pr |-> 0, seen |-> Nothing, completed |-> FALSE]
  BY DEF DeliveryInit
<1>a. observer \in Observers /\ observer.at = "idle" /\ observer.completed = FALSE
  BY <1>6 DEF Observers, Nothing, Observations, Numbers
<1>b. rounds \in Seq(DeliveredRounds) /\ pulls \in Seq(PullRequests)
      /\ DOMAIN rounds = {} /\ DOMAIN pulls = {}
  BY <1>6
<1>c. committed \in Commits /\ pushed \in Commits /\ currentRound \in 0 .. MaxRounds
  BY <1>6, DeliveryBounds DEF Commits
<1>7. DeliveryTypeOK
  BY <1>6, <1>a, <1>b, <1>c, RestingTyped DEF DeliveryTypeOK
<1>8. DeliveryCarries
  BY <1>6, <1>b, RestingTyped DEF DeliveryCarries
<1>. QED BY <1>5, <1>6, <1>7, <1>8, <1>a, <1>b
     DEF DeliveryInv, ObserverIsRight, EndedOnceDone, DeliveredWorkWasPushed,
         DoneRestsOnAMerge

-----------------------------------------------------------------------------
(* The Owner, the ledger and the Ticket.                                   *)

\* The Owner revokes, the connection comes and goes, time passes.
LEMMA OwnerKept ==
    ASSUME DeliveryInv,
           \/ \E i \in DOMAIN grants : Revoke(i)
           \/ \E up \in BOOLEAN : SetConnected(up)
           \/ Advance,
           UNCHANGED deliveryVars
    PROVE  DeliveryInv'
<1>1. GrantsTypeOK' /\ doneTickets' = doneTickets
  <2>1. ASSUME NEW i \in DOMAIN grants, Revoke(i) PROVE grants' \in Seq(Grants)
    <3>1. grants \in Seq(Grants) /\ grants[i] \in Grants
      BY DEF DeliveryInv, GrantsTypeOK
    <3>2. [grants[i] EXCEPT !.revoked = TRUE] \in Grants
      BY <3>1 DEF Grants
    <3>3. grants' = [grants EXCEPT ![i] = [grants[i] EXCEPT !.revoked = TRUE]]
      BY <2>1 DEF Revoke
    <3>. QED BY <3>1, <3>2, <3>3
  <2>2. CASE \E i \in DOMAIN grants : Revoke(i)
    BY <2>1, <2>2 DEF Revoke, DeliveryInv, GrantsTypeOK
  <2>3. CASE \E up \in BOOLEAN : SetConnected(up)
    BY <2>3 DEF SetConnected, DeliveryInv, GrantsTypeOK
  <2>4. CASE Advance
    BY <2>4, LedgerBounds DEF Advance, DeliveryInv, GrantsTypeOK, Times
  <2>. QED BY <2>2, <2>3, <2>4 DEF Revoke, SetConnected, Advance
<1>2. /\ UNCHANGED <<status, roundOpen, currentRound, rounds, undefined, committed, pushed>>
      /\ UNCHANGED <<pulls, token, feedback, delivery, late, observer>>
  BY DEF deliveryVars, talkVars
<1>3. DeliveryTypeOK' /\ DeliveryCarries' /\ EndedOnceDone'
  BY <1>1, <1>2 DEF DeliveryInv, DeliveryTypeOK, DeliveryCarries, EndedOnceDone
<1>4. ObserverIsRight' /\ DeliveredWorkWasPushed' /\ DoneRestsOnAMerge'
  BY <1>2 DEF DeliveryInv, ObserverIsRight, Delivered, DeliveredWorkWasPushed,
              DoneRestsOnAMerge
<1>. QED BY <1>1, <1>3, <1>4 DEF DeliveryInv

\* The Ticket's Status, its Rounds' number and its feedback leave the work alone.
LEMMA TicketKept ==
    ASSUME DeliveryInv,
           \/ StartRound \/ ExplicitRequeue \/ Reopen
           \/ \E j \in DOMAIN rounds : RecordFeedback(j)
    PROVE  DeliveryInv'
<1>1. /\ UNCHANGED <<rounds, undefined, committed, pushed, pulls, token>>
      /\ UNCHANGED <<delivery, late, observer, clock, grants, doneTickets>>
      /\ UNCHANGED <<pendingStopRounds, connected>>
      /\ status' = "Done" => status = "Done"
  BY DEF StartRound, ExplicitRequeue, Reopen, RecordFeedback, TicketReopened, grantVars, talkVars
<1>2. /\ status' \in {"Ready", "In Progress", "In Review", "Done"} /\ roundOpen' \in BOOLEAN
      /\ currentRound' \in 0 .. MaxRounds /\ feedback' \in BOOLEAN
      /\ roundOpen' => currentRound' # 0
  <2>1. /\ status \in {"Ready", "In Progress", "In Review", "Done"} /\ roundOpen \in BOOLEAN
        /\ currentRound \in 0 .. MaxRounds /\ feedback \in BOOLEAN
        /\ roundOpen => currentRound # 0
    BY DEF DeliveryInv, DeliveryTypeOK, DeliveryCarries
  <2>2. CASE StartRound
    <3>1. /\ status' = "In Progress" /\ roundOpen' = TRUE /\ currentRound' = currentRound + 1
          /\ currentRound < MaxRounds /\ feedback' = feedback
      BY <2>2 DEF StartRound, talkVars
    <3>0. currentRound \in 0 .. MaxRounds /\ MaxRounds \in Nat
      BY DeliveryBounds DEF DeliveryInv, DeliveryTypeOK
    <3>2. currentRound' \in 0 .. MaxRounds /\ currentRound' # 0
      <4>1. currentRound' = currentRound + 1 /\ currentRound < MaxRounds
        BY <2>2 DEF StartRound
      <4>. QED BY <3>0, <4>1
    <3>3. feedback' \in BOOLEAN /\ roundOpen' \in BOOLEAN
      BY <2>1, <3>1
    <3>. QED BY <3>1, <3>2, <3>3
  <2>3. CASE ExplicitRequeue \/ Reopen
    <3>1. /\ status' \in {"Ready", "In Review"}
          /\ roundOpen' = roundOpen /\ currentRound' = currentRound /\ feedback' = feedback
      BY <2>3 DEF ExplicitRequeue, Reopen, talkVars
    <3>. QED BY <2>1, <3>1
  <2>4. CASE \E j \in DOMAIN rounds : RecordFeedback(j)
    <3>1. /\ feedback' = TRUE /\ UNCHANGED <<status, roundOpen, currentRound>>
      BY <2>4 DEF RecordFeedback
    <3>. QED BY <2>1, <3>1
  <2>. QED BY <2>2, <2>3, <2>4
<1>3. DeliveryTypeOK' /\ DeliveryCarries' /\ EndedOnceDone' /\ GrantsTypeOK'
  BY <1>1, <1>2 DEF DeliveryInv, DeliveryTypeOK, DeliveryCarries, EndedOnceDone, GrantsTypeOK
<1>4. ObserverIsRight' /\ DeliveredWorkWasPushed'
  BY <1>1 DEF DeliveryInv, ObserverIsRight, Delivered, DeliveredWorkWasPushed
<1>5. DoneRestsOnAMerge'
  BY <1>1 DEF DeliveryInv, DoneRestsOnAMerge
<1>. QED BY <1>3, <1>4, <1>5 DEF DeliveryInv

\* A Round that delivers adds its commit and its pull request to the Rounds.
LEMMA RecordDeliveryKept == ASSUME DeliveryInv, RecordDelivery PROVE DeliveryInv'
<1>. DEFINE new == [round |-> currentRound, sha |-> delivery.sha, pr |-> delivery.pr]
<1>1. /\ delivery.at = "written" /\ roundOpen /\ rounds' = Append(rounds, new)
      /\ roundOpen' = FALSE /\ status' = "In Review" /\ delivery' = Resting
      /\ UNCHANGED <<clock, grants, doneTickets, pendingStopRounds, connected>>
      /\ UNCHANGED <<currentRound, undefined, committed, pushed, pulls, late, observer>>
      /\ UNCHANGED <<token, feedback>>
  BY DEF RecordDelivery, grantVars, talkVars
<1>2. /\ delivery.sha = committed /\ delivery.sha <= pushed /\ delivery.pr \in DOMAIN pulls
      /\ \A j \in DOMAIN rounds : rounds[j].sha < delivery.sha
      /\ currentRound # 0
  BY <1>1 DEF DeliveryInv, DeliveryCarries
<1>3. new \in DeliveredRounds
  <2>1. delivery \in Deliveries /\ currentRound \in 0 .. MaxRounds
    BY DEF DeliveryInv, DeliveryTypeOK
  <2>2. delivery.sha \in Commits /\ delivery.pr \in Numbers
    BY <2>1 DEF Deliveries
  <2>. QED BY <1>2, <2>1, <2>2, DeliveryBounds DEF DeliveredRounds
<1>. HIDE DEF new
<1>4. /\ rounds' \in Seq(DeliveredRounds)
      /\ DOMAIN rounds' = 1 .. (Len(rounds) + 1) /\ rounds'[Len(rounds) + 1] = new
      /\ \A j \in DOMAIN rounds : j \in DOMAIN rounds' /\ rounds'[j] = rounds[j]
  <2>1. /\ rounds \in Seq(DeliveredRounds) /\ Len(rounds) \in Nat
        /\ DOMAIN rounds = 1 .. Len(rounds)
    BY DeliveryFacts
  <2>2. rounds' = Append(rounds, new)
    BY <1>1 DEF new
  <2>. QED BY <1>3, <2>1, <2>2
<1>5. new.sha = delivery.sha /\ new.pr = delivery.pr
  BY DEF new
<1>a. DOMAIN rounds = 1 .. Len(rounds) /\ Len(rounds) \in Nat
  BY DeliveryFacts
<1>b. \A j \in DOMAIN rounds' : j \in DOMAIN rounds \/ j = Len(rounds) + 1
  BY <1>4, <1>a
<1>6. DeliveredWorkWasPushed'
  <2>1. \A j \in DOMAIN rounds' : rounds'[j].sha <= pushed' /\ rounds'[j].pr \in DOMAIN pulls'
    BY <1>1, <1>2, <1>4, <1>5, <1>b DEF DeliveryInv, DeliveredWorkWasPushed
  <2>2. \A i, j \in DOMAIN rounds' : i < j => rounds'[i].sha < rounds'[j].sha
    <3>. SUFFICES ASSUME NEW i \in DOMAIN rounds', NEW j \in DOMAIN rounds', i < j
                  PROVE  rounds'[i].sha < rounds'[j].sha
      OBVIOUS
    <3>1. i \in DOMAIN rounds
      BY <1>4, <1>a, <1>b
    <3>2. CASE j \in DOMAIN rounds
      BY <1>4, <3>1, <3>2 DEF DeliveryInv, DeliveredWorkWasPushed
    <3>3. CASE j = Len(rounds) + 1
      BY <1>2, <1>4, <1>5, <3>1, <3>3
    <3>. QED BY <1>b, <3>2, <3>3
  <2>. QED BY <1>1, <2>1, <2>2 DEF DeliveryInv, DeliveredWorkWasPushed
<1>7. DeliveryTypeOK'
  BY <1>1, <1>4, RestingTyped DEF DeliveryInv, DeliveryTypeOK
<1>8. DeliveryCarries'
  BY <1>1, RestingTyped DEF DeliveryInv, DeliveryCarries
<1>9. Delivered(observer.pr) => Delivered(observer.pr)'
  BY <1>1, <1>4 DEF Delivered
<1>10. ObserverIsRight'
  BY <1>1, <1>9 DEF DeliveryInv, ObserverIsRight
<1>11. EndedOnceDone' /\ DoneRestsOnAMerge'
  BY <1>1 DEF DeliveryInv, EndedOnceDone, DoneRestsOnAMerge
<1>. QED BY <1>1, <1>6, <1>7, <1>8, <1>10, <1>11 DEF DeliveryInv, GrantsTypeOK

-----------------------------------------------------------------------------
(* deliver().                                                              *)

\* A commit is made, and listed for only if it was pushed.
LEMMA DeliverKept == ASSUME DeliveryInv, Deliver PROVE DeliveryInv'
<1>1. /\ delivery.at = "idle" /\ committed < MaxCommits /\ committed' = committed + 1
      /\ UNCHANGED <<clock, grants, doneTickets, pendingStopRounds, connected>>
      /\ UNCHANGED <<status, roundOpen, currentRound, rounds, undefined, pulls, late, observer>>
      /\ UNCHANGED <<token, feedback>>
  BY DEF Deliver, CommitWork, grantVars, talkVars
<1>2. /\ pushed' = committed + 1 \/ pushed' = pushed
      /\ \/ delivery' = [at |-> "listing", sha |-> committed + 1, pr |-> 0]
            /\ pushed' = committed + 1
         \/ delivery' = Resting
  BY DEF Deliver, PushWork, Lists
<1>3. /\ committed \in Nat /\ pushed \in Nat /\ MaxCommits \in Nat /\ pushed <= committed
      /\ \A j \in DOMAIN rounds : rounds[j].sha <= pushed /\ rounds[j].sha \in Nat
      /\ \A i \in DOMAIN pulls : pulls[i].headSha <= pushed /\ pulls[i] \in PullRequests
  BY DeliveryFacts DEF DeliveryInv, DeliveryCarries, DeliveredWorkWasPushed
<1>4. /\ committed' \in Commits /\ pushed' \in Commits
      /\ pushed <= pushed' /\ pushed' <= committed' /\ pushed' \in Nat
  BY <1>1, <1>2, <1>3 DEF Commits
<1>5. \/ /\ delivery'.at = "listing" /\ delivery'.sha = committed' /\ delivery'.pr = 0
         /\ pushed' = committed' /\ delivery' \in Deliveries
      \/ delivery' = Resting
  BY <1>1, <1>2, <1>4 DEF Deliveries, Numbers
<1>6. DeliveryTypeOK'
  BY <1>1, <1>4, <1>5, RestingTyped DEF DeliveryInv, DeliveryTypeOK
<1>7. DeliveryCarries'
  <2>1. delivery'.at # "idle" =>
           /\ delivery'.sha = committed' /\ delivery'.sha <= pushed'
           /\ \A j \in DOMAIN rounds : rounds[j].sha < delivery'.sha
    BY <1>1, <1>3, <1>4, <1>5, RestingTyped
  <2>2. delivery'.pr = 0 /\ delivery'.at \notin {"updating", "written"}
    BY <1>5, RestingTyped
  <2>3. late.at # "idle" => late.sha <= pushed'
    <3>1. late \in LateWrites
      BY DEF DeliveryInv, DeliveryTypeOK
    <3>2. late.sha \in Nat
      BY <3>1 DEF LateWrites, Commits
    <3>. QED BY <1>3, <1>4, <3>2 DEF DeliveryInv, DeliveryCarries
  <2>. QED BY <1>1, <1>4, <2>1, <2>2, <2>3 DEF DeliveryInv, DeliveryCarries
<1>8. DeliveredWorkWasPushed'
  <2>1. \A i \in DOMAIN pulls : pulls[i].headSha \in Nat
    BY <1>3 DEF PullRequests, Commits
  <2>2. /\ \A j \in DOMAIN rounds : rounds[j].sha <= pushed'
        /\ \A i \in DOMAIN pulls : pulls[i].headSha <= pushed'
    BY <1>3, <1>4, <2>1
  <2>. QED BY <1>1, <2>2 DEF DeliveryInv, DeliveredWorkWasPushed
<1>9. ObserverIsRight' /\ EndedOnceDone' /\ DoneRestsOnAMerge'
  BY <1>1 DEF DeliveryInv, ObserverIsRight, Delivered, EndedOnceDone, DoneRestsOnAMerge
<1>. QED BY <1>1, <1>6, <1>7, <1>8, <1>9 DEF DeliveryInv, GrantsTypeOK

\* deliver() goes on to its next call, or throws.
LEMMA DeliveryGoesOnKept ==
    ASSUME DeliveryInv, ListPullRequests \/ WritePullRequest \/ DeliverThrows
    PROVE  DeliveryInv'
<1>1. /\ UNCHANGED <<clock, grants, doneTickets, pendingStopRounds, connected>>
      /\ UNCHANGED <<status, roundOpen, currentRound, rounds, undefined, committed, pushed>>
      /\ UNCHANGED <<pulls, observer, token, feedback>>
  BY DEF ListPullRequests, WritePullRequest, DeliverThrows, grantVars, talkVars
<1>2. delivery \in Deliveries
  BY DEF DeliveryInv, DeliveryTypeOK
<1>3. /\ delivery' \in Deliveries
      /\ delivery'.at # "idle" => delivery'.sha = delivery.sha /\ delivery.at # "idle"
      /\ delivery'.pr # 0 \/ delivery'.at \in {"updating", "written"} => delivery'.pr \in DOMAIN pulls
  <2>1. CASE delivery' = Resting
    BY <2>1, RestingTyped
  <2>2. CASE ListPullRequests /\ delivery' # Resting
    <3>. DEFINE pr == IF OpenPulls = {} THEN 0 ELSE Min(OpenPulls)
    <3>1. pr \in Numbers /\ (pr # 0 => pr \in DOMAIN pulls)
      BY FirstOpenPull, DeliveryFacts DEF Numbers
    <3>2. delivery' = [delivery EXCEPT !.at = "listed", !.pr = pr] /\ delivery.at = "listing"
      BY <2>2 DEF ListPullRequests
    <3>. HIDE DEF pr
    <3>. QED BY <1>2, <3>1, <3>2 DEF Deliveries
  <2>3. CASE WritePullRequest /\ delivery' # Resting
    <3>. DEFINE at == IF delivery.pr # 0 THEN "updating" ELSE "creating"
    <3>1. delivery' = [delivery EXCEPT !.at = at] /\ delivery.at = "listed"
      BY <2>3 DEF WritePullRequest
    <3>2. /\ at \in {"updating", "creating"} /\ (at = "updating" => delivery.pr # 0)
          /\ delivery.pr # 0 => delivery.pr \in DOMAIN pulls
      BY DEF DeliveryInv, DeliveryCarries
    <3>. HIDE DEF at
    <3>. QED BY <1>2, <3>1, <3>2 DEF Deliveries
  <2>. QED BY <2>1, <2>2, <2>3 DEF DeliverThrows
<1>4. \/ late' = late
      \/ late' = delivery /\ delivery.at \in {"updating", "creating"}
  BY DEF ListPullRequests, WritePullRequest, DeliverThrows
<1>5. late' \in LateWrites
  BY <1>2, <1>4 DEF DeliveryInv, DeliveryTypeOK, Deliveries, LateWrites
<1>6. DeliveryTypeOK'
  BY <1>1, <1>3, <1>5 DEF DeliveryInv, DeliveryTypeOK
<1>7. DeliveryCarries'
  BY <1>1, <1>3, <1>4 DEF DeliveryInv, DeliveryCarries
<1>8. /\ ObserverIsRight' /\ EndedOnceDone' /\ DoneRestsOnAMerge'
      /\ DeliveredWorkWasPushed'
  BY <1>1 DEF DeliveryInv, ObserverIsRight, Delivered, EndedOnceDone, DoneRestsOnAMerge, DeliveredWorkWasPushed
<1>. QED BY <1>1, <1>6, <1>7, <1>8 DEF DeliveryInv, GrantsTypeOK

-----------------------------------------------------------------------------
(* GitHub's pull requests.                                                 *)

\* What GitHub may do to its pull requests: it has them all still, merged ones merged,
\* and shows pushed commits only.
LEMMA PullsChange ==
    ASSUME DeliveryInv,
           pulls' \in Seq(PullRequests), Len(pulls) <= Len(pulls'),
           \A i \in DOMAIN pulls : pulls[i].merged => pulls'[i].merged,
           \A i \in DOMAIN pulls' : pulls'[i].headSha <= pushed,
           UNCHANGED <<clock, grants, doneTickets, pendingStopRounds, connected>>,
           UNCHANGED <<status, roundOpen, currentRound, rounds, undefined, committed, pushed>>,
           UNCHANGED <<token, feedback, observer>>,
           delivery' \in Deliveries,
           delivery'.at # "idle" => delivery'.sha = delivery.sha /\ delivery.at # "idle",
           delivery'.pr # 0 \/ delivery'.at \in {"updating", "written"} =>
              delivery'.pr \in DOMAIN pulls',
           late' = late \/ late' = Resting
    PROVE  DeliveryInv'
<1>1. DOMAIN pulls \subseteq DOMAIN pulls'
  <2>1. DOMAIN pulls' = 1 .. Len(pulls') /\ Len(pulls') \in Nat
    OBVIOUS
  <2>. QED BY <2>1, DeliveryFacts
<1>2. DeliveryTypeOK'
  BY RestingTyped DEF DeliveryInv, DeliveryTypeOK
<1>3. DeliveryCarries'
  BY <1>1, RestingTyped DEF DeliveryInv, DeliveryCarries
<1>4. \A i : Delivered(i) => i \in DOMAIN pulls
  BY DEF Delivered, DeliveryInv, DeliveredWorkWasPushed
<1>5. \A i : Delivered(i) <=> Delivered(i)'
  BY DEF Delivered
<1>6. ObserverIsRight'
  BY <1>4, <1>5 DEF DeliveryInv, ObserverIsRight
<1>7. DeliveredWorkWasPushed'
  BY <1>1 DEF DeliveryInv, DeliveredWorkWasPushed
<1>8. DoneRestsOnAMerge'
  <2>1. \A j \in DOMAIN rounds : rounds[j].pr \in DOMAIN pulls
    BY DEF DeliveryInv, DeliveredWorkWasPushed
  <2>. QED BY <2>1 DEF DeliveryInv, DoneRestsOnAMerge
<1>9. EndedOnceDone'
  BY DEF DeliveryInv, EndedOnceDone
<1>. QED BY <1>2, <1>3, <1>6, <1>7, <1>8, <1>9 DEF DeliveryInv, GrantsTypeOK

\* A pull request is updated with a pushed commit, merged or closed.
LEMMA OnePullChanges ==
    ASSUME DeliveryInv, NEW i \in DOMAIN pulls, NEW pull \in PullRequests,
           pulls' = [pulls EXCEPT ![i] = pull],
           pulls[i].merged => pull.merged, pull.headSha <= pushed
    PROVE  /\ pulls' \in Seq(PullRequests) /\ Len(pulls) = Len(pulls')
           /\ \A k \in DOMAIN pulls : pulls[k].merged => pulls'[k].merged
           /\ \A k \in DOMAIN pulls' : pulls'[k].headSha <= pushed
<1>1. pulls \in Seq(PullRequests) /\ DOMAIN pulls = 1 .. Len(pulls) /\ Len(pulls) \in Nat
  BY DeliveryFacts
<1>2. /\ pulls' \in Seq(PullRequests) /\ Len(pulls) = Len(pulls') /\ DOMAIN pulls' = DOMAIN pulls
      /\ pulls'[i] = pull /\ \A k \in DOMAIN pulls : k # i => pulls'[k] = pulls[k]
  BY <1>1
<1>3. \A k \in DOMAIN pulls : pulls[k].merged => pulls'[k].merged
  BY <1>2
<1>4. \A k \in DOMAIN pulls' : pulls'[k].headSha <= pushed
  BY <1>2 DEF DeliveryInv, DeliveredWorkWasPushed
<1>. QED BY <1>2, <1>3, <1>4

\* A pull request is created of a pushed commit.
LEMMA OnePullCreated ==
    ASSUME DeliveryInv, NEW w, w.sha \in Commits, w.sha <= pushed,
           pulls' = Created(w)
    PROVE  /\ pulls' \in Seq(PullRequests) /\ Len(pulls') = Len(pulls) + 1
           /\ \A k \in DOMAIN pulls : pulls[k].merged => pulls'[k].merged
           /\ \A k \in DOMAIN pulls' : pulls'[k].headSha <= pushed
<1>. DEFINE pull == [state |-> "open", merged |-> FALSE, headSha |-> w.sha]
<1>1. pulls \in Seq(PullRequests) /\ DOMAIN pulls = 1 .. Len(pulls) /\ Len(pulls) \in Nat
  BY DeliveryFacts
<1>2. pull \in PullRequests /\ pull.headSha <= pushed
  BY DEF PullRequests
<1>3. pulls' = Append(pulls, pull)
  BY DEF Created
<1>. HIDE DEF pull
<1>4. /\ pulls' \in Seq(PullRequests) /\ Len(pulls') = Len(pulls) + 1
      /\ DOMAIN pulls' = 1 .. (Len(pulls) + 1) /\ pulls'[Len(pulls) + 1] = pull
      /\ \A k \in DOMAIN pulls : pulls'[k] = pulls[k]
  BY <1>1, <1>2, <1>3
<1>5. \A k \in DOMAIN pulls' : k \in DOMAIN pulls \/ k = Len(pulls) + 1
  BY <1>1, <1>4
<1>6. \A k \in DOMAIN pulls' : pulls'[k].headSha <= pushed
  BY <1>2, <1>4, <1>5 DEF DeliveryInv, DeliveredWorkWasPushed
<1>. QED BY <1>4, <1>6

\* GitHub takes an update, or a creation, of a pushed commit.
LEMMA WriteKept ==
    ASSUME DeliveryInv, UpdatePullRequest \/ CreatePullRequest \/ LateWrite
    PROVE  DeliveryInv'
<1>0. /\ UNCHANGED <<clock, grants, doneTickets, pendingStopRounds, connected>>
      /\ UNCHANGED <<status, roundOpen, currentRound, rounds, undefined, committed, pushed>>
      /\ UNCHANGED <<token, feedback, observer>>
  BY DEF UpdatePullRequest, CreatePullRequest, LateWrite, grantVars, talkVars
<1>1. /\ delivery \in Deliveries /\ late \in LateWrites
      /\ delivery.pr # 0 \/ delivery.at \in {"updating", "written"} => delivery.pr \in DOMAIN pulls
      /\ delivery.at # "idle" => delivery.sha <= pushed
      /\ late.at # "idle" => late.sha <= pushed
      /\ late.at = "updating" => late.pr \in DOMAIN pulls
  BY DEF DeliveryInv, DeliveryTypeOK, DeliveryCarries
<1>2. delivery.sha \in Commits /\ late.sha \in Commits
  BY <1>1 DEF Deliveries, LateWrites
<1>3. ASSUME NEW w, w.pr \in DOMAIN pulls, w.sha \in Commits, w.sha <= pushed, pulls' = Updated(w)
      PROVE  /\ pulls' \in Seq(PullRequests) /\ Len(pulls) = Len(pulls')
             /\ \A k \in DOMAIN pulls : pulls[k].merged => pulls'[k].merged
             /\ \A k \in DOMAIN pulls' : pulls'[k].headSha <= pushed
  <2>. DEFINE pull == [pulls[w.pr] EXCEPT !.headSha = w.sha]
  <2>1. pulls[w.pr] \in PullRequests
    BY <1>3, DeliveryFacts
  <2>2. /\ pull \in PullRequests /\ pull.headSha = w.sha
        /\ pull.merged = pulls[w.pr].merged /\ pull.state = pulls[w.pr].state
    BY <1>3, <2>1 DEF PullRequests
  <2>3. pulls' = [pulls EXCEPT ![w.pr] = pull]
    BY <1>3 DEF Updated
  <2>. HIDE DEF pull
  <2>. QED BY <1>3, <2>2, <2>3, OnePullChanges
<1>4. CASE UpdatePullRequest
  <2>1. /\ delivery.at = "updating" /\ pulls' = Updated(delivery) /\ late' = late
        /\ delivery' = [delivery EXCEPT !.at = "written"]
    BY <1>4 DEF UpdatePullRequest
  <2>2. /\ delivery' \in Deliveries /\ delivery'.sha = delivery.sha
        /\ delivery'.pr = delivery.pr
    BY <1>1, <2>1 DEF Deliveries
  <2>3. /\ pulls' \in Seq(PullRequests) /\ Len(pulls) = Len(pulls')
        /\ \A k \in DOMAIN pulls : pulls[k].merged => pulls'[k].merged
        /\ \A k \in DOMAIN pulls' : pulls'[k].headSha <= pushed
    BY <1>1, <1>2, <1>3, <2>1
  <2>4. DOMAIN pulls' = DOMAIN pulls /\ Len(pulls) <= Len(pulls')
    BY <2>3, DeliveryFacts
  <2>. QED BY <1>0, <1>1, <2>1, <2>2, <2>3, <2>4, PullsChange
<1>5. CASE CreatePullRequest /\ MayCreate
  <2>1. /\ delivery.at = "creating" /\ pulls' = Created(delivery) /\ late' = late
        /\ delivery' = [delivery EXCEPT !.at = "written", !.pr = Len(pulls) + 1]
    BY <1>5 DEF CreatePullRequest
  <2>2. /\ delivery' \in Deliveries /\ delivery'.sha = delivery.sha
        /\ delivery'.pr = Len(pulls) + 1
    <3>1. Len(pulls) + 1 \in Numbers
      BY DeliveryFacts DEF Numbers
    <3>. QED BY <1>1, <2>1, <3>1 DEF Deliveries
  <2>3. /\ pulls' \in Seq(PullRequests) /\ Len(pulls') = Len(pulls) + 1
        /\ \A k \in DOMAIN pulls : pulls[k].merged => pulls'[k].merged
        /\ \A k \in DOMAIN pulls' : pulls'[k].headSha <= pushed
    BY <1>1, <1>2, <1>5, <2>1, OnePullCreated
  <2>4. Len(pulls) + 1 \in DOMAIN pulls' /\ Len(pulls) <= Len(pulls')
    BY <2>3, DeliveryFacts
  <2>. QED BY <1>0, <1>1, <2>1, <2>2, <2>3, <2>4, PullsChange
<1>6. ASSUME UNCHANGED pulls,
             \/ delivery' = Resting /\ late' = late
             \/ delivery' = delivery /\ late' = Resting
      PROVE  DeliveryInv'
  <2>1. /\ pulls' \in Seq(PullRequests) /\ Len(pulls) <= Len(pulls')
        /\ \A i \in DOMAIN pulls' : pulls'[i].headSha <= pushed
    BY <1>6, DeliveryFacts DEF DeliveryInv, DeliveredWorkWasPushed
  <2>2. /\ delivery' \in Deliveries
        /\ delivery'.at # "idle" => delivery'.sha = delivery.sha /\ delivery.at # "idle"
        /\ delivery'.pr # 0 \/ delivery'.at \in {"updating", "written"} =>
              delivery'.pr \in DOMAIN pulls'
    BY <1>1, <1>6, RestingTyped
  <2>. QED BY <1>0, <1>6, <2>1, <2>2, PullsChange
<1>7. CASE CreatePullRequest /\ ~MayCreate
  BY <1>6, <1>7 DEF CreatePullRequest
<1>8. CASE LateWrite /\ pulls' # pulls
  <2>1. /\ late.at # "idle" /\ late' = Resting /\ delivery' = delivery
        /\ \/ late.at = "updating" /\ pulls' = Updated(late)
           \/ MayCreate /\ pulls' = Created(late)
    BY <1>8 DEF LateWrite
  <2>2. /\ pulls' \in Seq(PullRequests) /\ Len(pulls') \in {Len(pulls), Len(pulls) + 1}
        /\ \A k \in DOMAIN pulls : pulls[k].merged => pulls'[k].merged
        /\ \A k \in DOMAIN pulls' : pulls'[k].headSha <= pushed
    <3>1. CASE late.at = "updating" /\ pulls' = Updated(late)
      BY <1>1, <1>2, <1>3, <3>1
    <3>2. CASE MayCreate /\ pulls' = Created(late)
      BY <1>1, <1>2, <2>1, <3>2, OnePullCreated
    <3>. QED BY <2>1, <3>1, <3>2
  <2>3. Len(pulls) <= Len(pulls') /\ DOMAIN pulls \subseteq DOMAIN pulls'
    BY <2>2, DeliveryFacts
  <2>4. delivery'.pr # 0 \/ delivery'.at \in {"updating", "written"} =>
           delivery'.pr \in DOMAIN pulls'
    BY <1>1, <2>1, <2>3
  <2>. QED BY <1>0, <1>1, <2>1, <2>2, <2>3, <2>4, PullsChange
<1>9. CASE LateWrite /\ pulls' = pulls
  BY <1>6, <1>9 DEF LateWrite
<1>. QED BY <1>4, <1>5, <1>7, <1>8, <1>9

\* People merge and close.
LEMMA PeopleKept ==
    ASSUME DeliveryInv, NEW i \in DOMAIN pulls, MergePullRequest(i) \/ ClosePullRequest(i)
    PROVE  DeliveryInv'
<1>1. pulls[i] \in PullRequests /\ pulls[i].headSha <= pushed
  BY DeliveryFacts DEF DeliveryInv, DeliveredWorkWasPushed
<1>2. PICK new \in PullRequests :
         /\ pulls' = [pulls EXCEPT ![i] = new] /\ new.headSha = pulls[i].headSha
         /\ new.state = "closed" /\ (pulls[i].merged => new.merged)
  <2>1. CASE MergePullRequest(i)
    <3>. DEFINE new == [pulls[i] EXCEPT !.state = "closed", !.merged = TRUE]
    <3>1. /\ new \in PullRequests /\ new.headSha = pulls[i].headSha /\ new.state = "closed"
          /\ new.merged
      BY <1>1 DEF PullRequests
    <3>2. pulls' = [pulls EXCEPT ![i] = new]
      BY <2>1 DEF MergePullRequest
    <3>. QED BY <3>1, <3>2
  <2>2. CASE ClosePullRequest(i)
    <3>. DEFINE new == [pulls[i] EXCEPT !.state = "closed"]
    <3>1. /\ new \in PullRequests /\ new.headSha = pulls[i].headSha /\ new.state = "closed"
          /\ new.merged = pulls[i].merged
      BY <1>1 DEF PullRequests
    <3>2. pulls' = [pulls EXCEPT ![i] = new]
      BY <2>2 DEF ClosePullRequest
    <3>. QED BY <3>1, <3>2
  <2>. QED BY <2>1, <2>2
<1>3. /\ pulls' \in Seq(PullRequests) /\ Len(pulls) = Len(pulls')
      /\ \A k \in DOMAIN pulls : pulls[k].merged => pulls'[k].merged
      /\ \A k \in DOMAIN pulls' : pulls'[k].headSha <= pushed
  BY <1>1, <1>2, OnePullChanges
<1>4. /\ UNCHANGED <<clock, grants, doneTickets, pendingStopRounds, connected>>
      /\ UNCHANGED <<status, roundOpen, currentRound, rounds, undefined, committed, pushed>>
      /\ UNCHANGED <<token, feedback, observer, delivery, late>>
  BY DEF MergePullRequest, ClosePullRequest, grantVars, talkVars
<1>5. DOMAIN pulls' = DOMAIN pulls /\ Len(pulls) <= Len(pulls')
  BY <1>3, DeliveryFacts
<1>6. /\ delivery' \in Deliveries
      /\ delivery'.pr # 0 \/ delivery'.at \in {"updating", "written"} =>
            delivery'.pr \in DOMAIN pulls'
  BY <1>4, <1>5 DEF DeliveryInv, DeliveryTypeOK, DeliveryCarries
<1>. QED BY <1>3, <1>4, <1>5, <1>6, PullsChange

-----------------------------------------------------------------------------
(* The merge check.                                                        *)

LEMMA ObserverKept ==
    ASSUME DeliveryInv, (\E j \in DOMAIN rounds : GetPullRequest(j)) \/ ReadPullRequest
    PROVE  DeliveryInv'
<1>1. /\ UNCHANGED <<clock, grants, doneTickets, pendingStopRounds, connected>>
      /\ UNCHANGED <<status, roundOpen, currentRound, rounds, undefined, committed, pushed>>
      /\ UNCHANGED <<pulls, token, feedback, delivery, late>>
  BY DEF GetPullRequest, ReadPullRequest, grantVars, talkVars
<1>2. observer \in Observers
  BY DEF DeliveryInv, DeliveryTypeOK
<1>3. /\ observer' \in Observers /\ observer'.completed = observer.completed
      /\ Delivered(observer'.pr)
      /\ observer'.at = "read" /\ observer'.seen.merged => pulls[observer'.pr].merged
  <2>1. ASSUME NEW j \in DOMAIN rounds, GetPullRequest(j)
        PROVE  /\ observer' \in Observers /\ observer'.completed = observer.completed
               /\ Delivered(observer'.pr)
               /\ observer'.at = "read" /\ observer'.seen.merged => pulls[observer'.pr].merged
    <3>1. observer' = [observer EXCEPT !.at = "reading", !.pr = rounds[j].pr]
      BY <2>1 DEF GetPullRequest
    <3>2. rounds[j].pr \in Numbers
      BY DeliveryFacts DEF Numbers
    <3>. QED BY <1>2, <3>1, <3>2 DEF Observers, Delivered
  <2>2. ASSUME ReadPullRequest
        PROVE  /\ observer' \in Observers /\ observer'.completed = observer.completed
               /\ Delivered(observer'.pr)
               /\ observer'.at = "read" /\ observer'.seen.merged => pulls[observer'.pr].merged
    <3>. DEFINE seen == [merged |-> pulls[observer.pr].merged, state |-> pulls[observer.pr].state]
    <3>1. observer.at = "reading" /\ observer' = [observer EXCEPT !.at = "read", !.seen = seen]
      BY <2>2 DEF ReadPullRequest
    <3>2. Delivered(observer.pr) /\ observer.pr \in DOMAIN pulls
      BY <3>1 DEF DeliveryInv, ObserverIsRight, Delivered, DeliveredWorkWasPushed
    <3>3. pulls[observer.pr] \in PullRequests
      BY <3>2, DeliveryFacts
    <3>4. seen \in Observations /\ seen.merged = pulls[observer.pr].merged
      BY <3>3 DEF PullRequests, Observations
    <3>. HIDE DEF seen
    <3>. QED BY <1>2, <3>1, <3>2, <3>4 DEF Observers
  <2>. QED BY <2>1, <2>2
<1>4. Delivered(observer'.pr) => Delivered(observer.pr)'
  BY <1>1 DEF Delivered
<1>5. ObserverIsRight'
  BY <1>1, <1>3, <1>4 DEF ObserverIsRight
<1>6. DeliveryTypeOK' /\ EndedOnceDone'
  BY <1>1, <1>3 DEF DeliveryInv, DeliveryTypeOK, EndedOnceDone
<1>7. /\ DeliveryCarries' /\ DoneRestsOnAMerge'
      /\ DeliveredWorkWasPushed'
  BY <1>1 DEF DeliveryInv, DeliveryCarries, DoneRestsOnAMerge,
              DeliveredWorkWasPushed
<1>. QED BY <1>1, <1>5, <1>6, <1>7 DEF DeliveryInv, GrantsTypeOK

\* A report of a merge makes the Ticket Done, and ends its grants with it.
LEMMA ReportKept == ASSUME DeliveryInv, ReportObservation PROVE DeliveryInv'
<1>1. /\ UNCHANGED <<clock, grants, pendingStopRounds, connected>>
      /\ UNCHANGED <<roundOpen, currentRound, rounds, committed, pushed>>
      /\ UNCHANGED <<pulls, token, feedback, delivery, late>>
      /\ observer.at = "read"
      /\ observer' = [at |-> "idle", pr |-> 0, seen |-> Nothing,
                      completed |-> observer.completed \/ status' = "Done"]
  BY DEF ReportObservation, ObserveMerge, talkVars
<1>2. \/ UNCHANGED <<status, doneTickets>>
      \/ /\ observer.seen.merged /\ status' = "Done"
         /\ doneTickets' = doneTickets \cup {TicketId}
  BY DEF ReportObservation, ObserveMerge, Finish
<1>3. undefined' \subseteq {"closed-unmerged", "merge-during-open-round"}
  BY DEF ReportObservation, ObserveMerge, DeliveryInv, DeliveryTypeOK
<1>4. /\ observer \in Observers /\ observer.completed \in BOOLEAN
      /\ status \in {"Ready", "In Progress", "In Review", "Done"}
  BY DEF DeliveryInv, DeliveryTypeOK, Observers
<1>5. (observer.completed \/ status' = "Done") \in BOOLEAN
  BY <1>4
<1>6. observer' \in Observers /\ observer'.at = "idle"
  BY <1>1, <1>5 DEF Observers, Nothing, Observations, Numbers
<1>7. observer'.completed => observer.completed \/ status' = "Done"
  BY <1>1
<1>8. /\ status' \in {"Ready", "In Progress", "In Review", "Done"}
      /\ doneTickets' \in SUBSET Tickets /\ doneTickets \subseteq doneTickets'
  BY <1>2, <1>4, DeliveryBounds DEF DeliveryInv, GrantsTypeOK
<1>9. DeliveryTypeOK' /\ GrantsTypeOK'
  BY <1>1, <1>3, <1>6, <1>8 DEF DeliveryInv, DeliveryTypeOK, GrantsTypeOK
<1>10. EndedOnceDone'
  BY <1>2, <1>7, <1>8 DEF DeliveryInv, EndedOnceDone
<1>11. DoneRestsOnAMerge'
  <2>1. CASE UNCHANGED <<status, doneTickets>>
    BY <1>1, <2>1 DEF DeliveryInv, DoneRestsOnAMerge
  <2>2. CASE observer.seen.merged
    <3>1. PICK j \in DOMAIN rounds : rounds[j].pr = observer.pr /\ pulls[observer.pr].merged
      BY <1>1, <2>2 DEF DeliveryInv, ObserverIsRight, Delivered
    <3>. QED BY <1>1, <3>1 DEF DoneRestsOnAMerge
  <2>. QED BY <1>2, <2>1, <2>2
<1>12. ObserverIsRight' /\ DeliveryCarries' /\ DeliveredWorkWasPushed'
  BY <1>1, <1>6 DEF DeliveryInv, ObserverIsRight, DeliveryCarries, DeliveredWorkWasPushed
<1>. QED BY <1>9, <1>10, <1>11, <1>12 DEF DeliveryInv

-----------------------------------------------------------------------------
(* Theorems.                                                               *)

LEMMA DeliveryInvNext == DeliveryInv /\ [DeliveryNext]_deliverySystem => DeliveryInv'
<1>. SUFFICES ASSUME DeliveryInv, [DeliveryNext]_deliverySystem PROVE DeliveryInv'
  OBVIOUS
<1>1. CASE UNCHANGED deliverySystem
  <2>1. /\ UNCHANGED <<clock, grants, doneTickets, pendingStopRounds, connected>>
        /\ UNCHANGED <<status, roundOpen, currentRound, rounds, undefined, committed, pushed>>
        /\ UNCHANGED <<pulls, token, feedback, delivery, late, observer>>
    BY <1>1 DEF deliverySystem, deliveryVars, grantVars, talkVars
  <2>2. GrantsTypeOK' /\ DeliveryTypeOK' /\ DeliveryCarries' /\ EndedOnceDone'
    BY <2>1 DEF DeliveryInv, GrantsTypeOK, DeliveryTypeOK, DeliveryCarries, EndedOnceDone
  <2>3. /\ ObserverIsRight' /\ DeliveredWorkWasPushed'
        /\ DoneRestsOnAMerge'
    BY <2>1 DEF DeliveryInv, ObserverIsRight, Delivered, DeliveredWorkWasPushed,
                DoneRestsOnAMerge
  <2>. QED BY <2>2, <2>3 DEF DeliveryInv
<1>. QED BY <1>1, OwnerKept, TicketKept, RecordDeliveryKept, DeliverKept, DeliveryGoesOnKept,
            WriteKept, PeopleKept, ObserverKept, ReportKept DEF DeliveryNext

\* The inductive invariant holds in every behaviour of the experiment.
THEOREM DeliveryInvariant == DeliverySpec => []DeliveryInv
BY DeliveryInvInit, DeliveryInvNext, PTL DEF DeliverySpec

\* A Ticket is Done only on the merge of what one of its Rounds delivered
\* (galley-substitute.ts).
THEOREM DoneRestsOnAMergeHolds == DeliverySpec => []DoneRestsOnAMerge
<1>1. DeliveryInv => DoneRestsOnAMerge
  BY DEF DeliveryInv
<1>. QED BY <1>1, DeliveryInvariant, PTL

\* What the Rounds delivered, and what GitHub shows, was pushed (delivery-module.ts).
THEOREM DeliveredWorkWasPushedHolds == DeliverySpec => []DeliveredWorkWasPushed
<1>1. DeliveryInv => DeliveredWorkWasPushed
  BY DEF DeliveryInv
<1>. QED BY <1>1, DeliveryInvariant, PTL

\* Nothing is pushed on a Ticket's grants once it was Done (admission-ledger.ts).
THEOREM NothingIsPushedOnceDoneHolds == DeliverySpec => NothingIsPushedOnceDone
<1>1. DeliveryInv /\ [DeliveryNext]_deliverySystem =>
         [(pushed' # pushed /\ observer.completed) =>
             \E i \in DOMAIN grants : grants[i].form.kind = "time"]_deliverySystem
  <2>. SUFFICES ASSUME DeliveryInv, DeliveryNext, pushed' # pushed, observer.completed
                PROVE  \E i \in DOMAIN grants : grants[i].form.kind = "time"
    BY DEF deliverySystem, deliveryVars
  <2>1. Deliver
    BY DEF DeliveryNext, StartRound, RecordDelivery, ExplicitRequeue, Reopen, ListPullRequests,
           WritePullRequest, UpdatePullRequest, CreatePullRequest, DeliverThrows, LateWrite,
           MergePullRequest, ClosePullRequest, GetPullRequest, RecordFeedback, ReadPullRequest,
           ReportObservation, ObserveMerge, deliveryVars
  <2>2. Admitted("git.push")
    BY <2>1 DEF Deliver, PushWork
  <2>3. PICK i \in DOMAIN grants :
           /\ Live(grants[i])
           /\ grants[i].form.kind = "ticket" => grants[i].form.ticket = TicketId
    BY <2>2, AdmittedIsGranted
  <2>4. TicketId \in doneTickets
    BY DEF DeliveryInv, EndedOnceDone
  <2>5. grants[i].form.kind # "ticket"
    BY <2>3, <2>4 DEF Live
  <2>6. grants[i] \in Grants
    BY DEF DeliveryInv, GrantsTypeOK
  <2>7. grants[i].form.kind \in {"ticket", "time"}
    BY <2>6 DEF Grants, TicketForms, TimeForms
  <2>. QED BY <2>5, <2>7
<1>. QED BY <1>1, DeliveryInvariant, PTL DEF DeliverySpec, NothingIsPushedOnceDone
=============================================================================
