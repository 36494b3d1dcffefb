--------------------------- MODULE CommandProofs ---------------------------
(***************************************************************************)
(* Proofs about grants, limits and commands, for any number of Tickets,    *)
(* scopes, Rounds and grants, and any limits and lags; and about the       *)
(* commands of one Round as its runner carries them out, for any number of *)
(* questions, of lost answers and of restarts.                             *)
(***************************************************************************)
EXTENDS Authority, RunnerCommands, FiniteSetTheorems, SequenceTheorems,
        WellFoundedInduction, TLAPS

-----------------------------------------------------------------------------
(* Sequences, least members and clocks.                                    *)

\* A set of natural numbers that is not empty has a least member.
LEMMA MinOfNaturals ==
    ASSUME NEW S \in SUBSET Nat, S # {}
    PROVE  Min(S) \in S
<1>1. PICK m \in S : \A n \in S : ~ (<<n, m>> \in OpToRel(<, Nat))
  BY NatLessThanWellFounded, WFMin
<1>2. \A n \in S : ~(n < m)
  BY <1>1 DEF OpToRel
<1>3. \A n \in S : m <= n
  BY <1>2
<1>. QED BY <1>3 DEF Min

\* What a clock has run is never negative.
LEMMA MaxWithZero ==
    ASSUME NEW x \in Int
    PROVE  /\ Max({0, x}) \in Nat
           /\ x >= 0 => Max({0, x}) = x
           /\ x < 0 => Max({0, x}) = 0
<1>1. \E m \in {0, x} : \A n \in {0, x} : m >= n
  <2>1. CASE x >= 0 BY <2>1
  <2>2. CASE x < 0 BY <2>2
  <2>. QED BY <2>1, <2>2
<1>2. Max({0, x}) \in {0, x} /\ \A n \in {0, x} : Max({0, x}) >= n
  BY <1>1 DEF Max
<1>. QED BY <1>2

\* Appending keeps what a log holds and adds one entry.
LEMMA AppendedLog ==
    ASSUME NEW T, NEW s \in Seq(T), NEW e \in T
    PROVE  /\ Append(s, e) \in Seq(T)
           /\ DOMAIN Append(s, e) = DOMAIN s \cup {Len(s) + 1}
           /\ Len(s) \in Nat /\ DOMAIN s = 1 .. Len(s)
           /\ Append(s, e)[Len(s) + 1] = e
           /\ \A i \in DOMAIN s : Append(s, e)[i] = s[i] /\ i # Len(s) + 1
OBVIOUS

-----------------------------------------------------------------------------
(* The log of commands.                                                    *)

Stopped(log, r) == \E c \in DOMAIN log : log[c].round = r /\ log[c].type = "stop"

OneStop(log) ==
    \A c, d \in DOMAIN log :
        (log[c].type = "stop" /\ log[d].type = "stop" /\ log[c].round = log[d].round) => c = d

\* What was issued is still there.
Keeps(log, base) ==
    \A c \in DOMAIN base : /\ c \in DOMAIN log
                           /\ log[c].round = base[c].round /\ log[c].type = base[c].type

\* A log that keeps another keeps its Stops.
LEMMA StopsKept ==
    ASSUME NEW log, NEW base, Keeps(log, base), NEW r, Stopped(base, r)
    PROVE  Stopped(log, r)
BY DEF Keeps, Stopped

\* A command that is not a Stop leaves every Round at most one.
LEMMA OtherIssued ==
    ASSUME NEW log \in Seq(Commands), OneStop(log), NEW r \in Nat,
           NEW type \in {"authority_changed", "approval"}
    PROVE  LET more == Append(log, Command(r, type))
           IN  more \in Seq(Commands) /\ OneStop(more) /\ Keeps(more, log)
<1>. DEFINE e == Command(r, type)
            more == Append(log, e)
<1>1. e \in Commands /\ e.type # "stop"
  BY DEF Command, Commands
<1>. HIDE DEF e
<1>2. /\ more \in Seq(Commands)
      /\ DOMAIN more = DOMAIN log \cup {Len(log) + 1}
      /\ more[Len(log) + 1] = e
      /\ \A i \in DOMAIN log : more[i] = log[i] /\ i # Len(log) + 1
  BY <1>1, AppendedLog
<1>. HIDE DEF more
<1>3. OneStop(more)
  BY <1>1, <1>2 DEF OneStop
<1>4. Keeps(more, log)
  BY <1>2 DEF Keeps
<1>. QED BY <1>2, <1>3, <1>4 DEF e, more

\* A Stop is issued unless the Round has one.
LEMMA IssuedStop ==
    ASSUME commands \in Seq(Commands), OneStop(commands), NEW r \in Nat
    PROVE  LET log == WithStop(r, commands)
           IN  /\ log \in Seq(Commands) /\ OneStop(log) /\ Keeps(log, commands)
               /\ Stopped(log, r)
               /\ \A c \in DOMAIN commands : log[c] = commands[c]
<1>1. CASE StopRequested(r)
  BY <1>1 DEF WithStop, StopRequested, Keeps, Stopped
<1>2. CASE ~StopRequested(r)
  <2>. DEFINE e == Command(r, "stop")
              log == Append(commands, e)
  <2>1. e \in Commands /\ e.type = "stop" /\ e.round = r
    BY DEF Command, Commands
  <2>. HIDE DEF e
  <2>2. /\ log \in Seq(Commands)
        /\ DOMAIN log = DOMAIN commands \cup {Len(commands) + 1}
        /\ log[Len(commands) + 1] = e
        /\ \A i \in DOMAIN commands : log[i] = commands[i] /\ i # Len(commands) + 1
    BY <2>1, AppendedLog
  <2>3. \A c \in DOMAIN commands : ~(commands[c].round = r /\ commands[c].type = "stop")
    BY <1>2 DEF StopRequested
  <2>. HIDE DEF log
  <2>4. OneStop(log)
    BY <2>1, <2>2, <2>3 DEF OneStop
  <2>5. Keeps(log, commands) /\ Stopped(log, r)
    BY <2>1, <2>2 DEF Keeps, Stopped
  <2>6. WithStop(r, commands) = log
    BY <1>2 DEF WithStop, e, log
  <2>. QED BY <2>2, <2>4, <2>5, <2>6
<1>. QED BY <1>1, <1>2

-----------------------------------------------------------------------------
(* The inductive invariant.                                                *)

OneOpen == \A r, q \in OpenRounds : r = q

\* A check is allowed on a grant that is on record and covers its Round.
AllowedOnWhatCovers ==
    \A r \in DOMAIN rounds : \A g \in rounds[r].allowedOn :
        /\ g \in DOMAIN grants
        /\ grants[g].form = "ticket" => grants[g].ticket = rounds[r].ticket

\* The Round's own clock never counted more than the Round ran.
CountsAtMost(rd, now) ==
    /\ rd.active <= rd.ran
    /\ rd.since # NoTime => /\ rd.state = "running" /\ rd.since <= now
                            /\ rd.active + (now - rd.since) <= rd.ran

ClocksCountAtMost == \A r \in DOMAIN rounds : CountsAtMost(rounds[r], clock)

AuthorityInv ==
    /\ AuthorityTypeOK
    /\ OneOpen
    /\ AllowedOnWhatCovers
    /\ ClocksCountAtMost
    /\ OneStop(commands)
    /\ RevokedGrantStopsItsRounds
    /\ LimitsMeasureTheRound

\* Galley starts with nothing to measure or allow.
LEMMA AuthorityInvInit == Init => AuthorityInv
BY DEF Init, AuthorityInv, AuthorityTypeOK, OneOpen, AllowedOnWhatCovers,
       ClocksCountAtMost, OneStop, RevokedGrantStopsItsRounds, LimitsMeasureTheRound,
       OpenRounds

-----------------------------------------------------------------------------
(* What a step that updates one Round, or none, has to show.               *)

\* The Round's part of the limits.
WithinLimits(rd, stopped) ==
    /\ rd.breach = "wall_clock" => rd.ran >= MaxActive
    /\ rd.streak >= MaxDenials => stopped
    /\ rd.breach # "none" => stopped

\* Grants that are on record keep their form, Ticket and expiry, and stay as revoked or
\* live as they are.
GrantsKept ==
    /\ grants' \in Seq(Grants)
    /\ \A g \in DOMAIN grants : g \in DOMAIN grants' /\ grants'[g] = grants[g]

LEMMA RoundUpdated ==
    ASSUME AuthorityInv, NEW r \in DOMAIN rounds, NEW rd \in Rounds,
           rounds' = [rounds EXCEPT ![r] = rd],
           rd.ticket = rounds[r].ticket, rd.state \in OpenStates => Open(r),
           \A g \in rd.allowedOn :
               /\ g \in DOMAIN grants
               /\ grants[g].form = "ticket" => grants[g].ticket = rd.ticket
               /\ grants[g].state = "revoked" => g \in rounds[r].allowedOn,
           CountsAtMost(rd, clock),
           commands' \in Seq(Commands), OneStop(commands'), Keeps(commands', commands),
           WithinLimits(rd, Stopped(commands', r)),
           GrantsKept, clock' = clock, done' = done, told' = told, heard' \in Nat
    PROVE  AuthorityInv'
<1>. USE DEF AuthorityInv
<1>1. /\ rounds' \in Seq(Rounds) /\ DOMAIN rounds' = DOMAIN rounds
      /\ rounds'[r] = rd
      /\ \A q \in DOMAIN rounds : q # r => rounds'[q] = rounds[q]
      /\ DOMAIN rounds \subseteq Nat
  BY DEF AuthorityTypeOK
<1>2. AuthorityTypeOK'
  BY <1>1 DEF AuthorityTypeOK, GrantsKept
<1>3. OpenRounds' \subseteq OpenRounds
  BY <1>1 DEF OpenRounds, Open
<1>4. OneOpen'
  BY <1>3 DEF OneOpen
<1>5. AllowedOnWhatCovers'
  <2>. SUFFICES ASSUME NEW q \in DOMAIN rounds, NEW g \in rounds'[q].allowedOn
                PROVE  /\ g \in DOMAIN grants'
                       /\ grants'[g].form = "ticket" => grants'[g].ticket = rounds'[q].ticket
    BY <1>1 DEF AllowedOnWhatCovers
  <2>1. CASE q = r BY <2>1, <1>1 DEF GrantsKept
  <2>2. CASE q # r BY <2>2, <1>1 DEF GrantsKept, AllowedOnWhatCovers
  <2>. QED BY <2>1, <2>2
<1>6. ClocksCountAtMost'
  BY <1>1 DEF ClocksCountAtMost, CountsAtMost
<1>7. OneStop(commands)'
  OBVIOUS
<1>8. \A q : Stopped(commands, q) => Stopped(commands', q)
  BY StopsKept
<1>9. RevokedGrantStopsItsRounds'
  <2>. SUFFICES ASSUME NEW q \in OpenRounds', NEW g \in rounds'[q].allowedOn,
                       grants'[g].state = "revoked"
                PROVE  Stopped(commands', q)
    BY DEF RevokedGrantStopsItsRounds, StopRequested, Stopped
  <2>1. q \in OpenRounds /\ q \in DOMAIN rounds
    BY <1>3 DEF OpenRounds
  <2>2. g \in rounds[q].allowedOn /\ g \in DOMAIN grants
    <3>1. CASE q = r
      <4>1. g \in rd.allowedOn BY <3>1, <1>1
      <4>2. g \in DOMAIN grants BY <4>1
      <4>3. grants[g].state = "revoked" BY <4>2 DEF GrantsKept
      <4>. QED BY <3>1, <4>1, <4>2, <4>3
    <3>2. CASE q # r
      BY <3>2, <2>1, <1>1 DEF AllowedOnWhatCovers
    <3>. QED BY <3>1, <3>2
  <2>3. grants[g].state = "revoked"
    BY <2>2 DEF GrantsKept
  <2>4. Stopped(commands, q)
    BY <2>1, <2>2, <2>3 DEF RevokedGrantStopsItsRounds, StopRequested, Stopped
  <2>. QED BY <2>4, <1>8
<1>10. LimitsMeasureTheRound'
  <2>. SUFFICES ASSUME NEW q \in DOMAIN rounds
                PROVE  WithinLimits(rounds'[q], Stopped(commands', q))
    BY <1>1 DEF LimitsMeasureTheRound, WithinLimits, StopRequested, Stopped
  <2>1. CASE q = r BY <2>1, <1>1
  <2>2. CASE q # r
    <3>1. WithinLimits(rounds[q], Stopped(commands, q))
      BY DEF LimitsMeasureTheRound, WithinLimits, StopRequested, Stopped
    <3>. QED BY <2>2, <3>1, <1>1, <1>8 DEF WithinLimits
  <2>. QED BY <2>1, <2>2
<1>. QED BY <1>2, <1>4, <1>5, <1>6, <1>7, <1>9, <1>10

\* A step that leaves the Rounds alone may end or revoke grants, if what was
\* allowed on a revoked one has its Stop.
LEMMA RoundsKept ==
    ASSUME AuthorityInv, rounds' = rounds, clock' = clock,
           grants' \in Seq(Grants), DOMAIN grants' = DOMAIN grants,
           \A g \in DOMAIN grants : /\ grants'[g].form = grants[g].form
                                    /\ grants'[g].ticket = grants[g].ticket,
           commands' \in Seq(Commands), OneStop(commands'), Keeps(commands', commands),
           \A r \in OpenRounds : \A g \in rounds[r].allowedOn :
               grants'[g].state = "revoked" => \/ grants[g].state = "revoked"
                                               \/ Stopped(commands', r),
           done' \subseteq Ticket, told' \subseteq Nat, heard' \in Nat
    PROVE  AuthorityInv'
<1>. USE DEF AuthorityInv
<1>1. AuthorityTypeOK'
  BY DEF AuthorityTypeOK
<1>2. OpenRounds' = OpenRounds
  BY DEF OpenRounds, Open
<1>3. OneOpen' /\ AllowedOnWhatCovers' /\ ClocksCountAtMost' /\ OneStop(commands)'
  BY <1>2 DEF OneOpen, AllowedOnWhatCovers, ClocksCountAtMost, CountsAtMost
<1>4. \A q : Stopped(commands, q) => Stopped(commands', q)
  BY StopsKept
<1>5. RevokedGrantStopsItsRounds'
  BY <1>2, <1>4 DEF RevokedGrantStopsItsRounds, StopRequested, Stopped
<1>6. LimitsMeasureTheRound'
  BY <1>4 DEF LimitsMeasureTheRound, StopRequested, Stopped
<1>. QED BY <1>1, <1>3, <1>5, <1>6

-----------------------------------------------------------------------------
(* The limits.                                                             *)

\* Enforcing the limits on what a running Round is changes at most its breach, comes
\* with a Stop, and is right about what it measured.
LEMMA LimitsEnforced ==
    ASSUME AuthorityInv, NEW r \in DOMAIN rounds, NEW rd \in Rounds, NEW now \in Int,
           now <= clock, CountsAtMost(rd, clock), rd.breach = rounds[r].breach,
           rd.ran >= rounds[r].ran,
           rd.streak >= MaxDenials => rd.state = "running" \/ StopRequested(r),
           EnforceRoundLimits(r, rd, now)
    PROVE  /\ commands' \in Seq(Commands) /\ OneStop(commands')
           /\ Keeps(commands', commands)
           /\ \A c \in DOMAIN commands : commands'[c] = commands[c]
           /\ \E b \in {"none", "wall_clock", "denial_loop"} :
                 /\ rounds' = [rounds EXCEPT ![r] = [rd EXCEPT !.breach = b]]
                 /\ WithinLimits([rd EXCEPT !.breach = b], Stopped(commands', r))
<1>. USE DEF AuthorityInv
<1>0. /\ r \in Nat /\ rounds[r] \in Rounds /\ clock \in Nat
      /\ commands \in Seq(Commands)
  BY DEF AuthorityTypeOK
<1>1. WithinLimits(rounds[r], Stopped(commands, r)) /\ (StopRequested(r) <=> Stopped(commands, r))
  BY DEF LimitsMeasureTheRound, WithinLimits, StopRequested, Stopped
<1>2. CASE BreachOf(r, rd, now) = "none"
  <2>1. rounds' = [rounds EXCEPT ![r] = rd] /\ commands' = commands
    BY <1>2 DEF EnforceRoundLimits
  <2>2. [rd EXCEPT !.breach = rd.breach] = rd /\ rd.breach \in {"none", "wall_clock", "denial_loop"}
    BY DEF Rounds
  <2>3. rd.streak >= MaxDenials => Stopped(commands, r)
    BY <1>1, <1>2 DEF BreachOf
  <2>4. WithinLimits(rd, Stopped(commands, r))
    <3>1. rd.breach = "wall_clock" => rd.ran >= MaxActive
      BY <1>0, <1>1, AuthorityAssumption DEF WithinLimits, Rounds
    <3>. QED BY <2>3, <1>1, <3>1 DEF WithinLimits
  <2>5. Keeps(commands, commands)
    BY DEF Keeps
  <2>. QED BY <1>0, <2>1, <2>2, <2>4, <2>5
<1>3. CASE BreachOf(r, rd, now) # "none"
  <2>. DEFINE b == BreachOf(r, rd, now)
  <2>1. /\ rounds' = [rounds EXCEPT ![r] = [rd EXCEPT !.breach = b]]
        /\ commands' = WithStop(r, commands)
    BY <1>3 DEF EnforceRoundLimits
  <2>2. b \in {"wall_clock", "denial_loop"}
    BY <1>3 DEF BreachOf
  <2>3. /\ commands' \in Seq(Commands) /\ OneStop(commands') /\ Keeps(commands', commands)
        /\ Stopped(commands', r)
        /\ \A c \in DOMAIN commands : commands'[c] = commands[c]
    BY <1>0, <2>1, IssuedStop
  <2>4. b = "wall_clock" => rd.ran >= MaxActive
    <3>. SUFFICES ASSUME b = "wall_clock" PROVE rd.ran >= MaxActive
      OBVIOUS
    <3>1. ActiveTime(rd, now) >= MaxActive
      BY DEF BreachOf
    <3>2. rd.active \in Nat /\ rd.since \in Int /\ rd.ran \in Nat /\ MaxActive \in Nat
      BY AuthorityAssumption DEF Rounds
    <3>3. CASE rd.since = NoTime
      BY <3>1, <3>2, <3>3 DEF ActiveTime, CountsAtMost
    <3>4. CASE rd.since # NoTime
      <4>1. rd.active + Max({0, now - rd.since}) >= MaxActive
        BY <3>1, <3>4 DEF ActiveTime
      <4>2. rd.since <= clock /\ rd.active + (clock - rd.since) <= rd.ran /\ rd.active <= rd.ran
        BY <3>4 DEF CountsAtMost
      <4>3. now - rd.since \in Int
        BY <3>2
      <4>4. CASE now - rd.since >= 0
        <5>1. Max({0, now - rd.since}) = now - rd.since
          BY <4>3, <4>4, MaxWithZero
        <5>. QED BY <5>1, <4>1, <4>2, <3>2, <1>0
      <4>5. CASE now - rd.since < 0
        <5>1. Max({0, now - rd.since}) = 0
          BY <4>3, <4>5, MaxWithZero
        <5>. QED BY <5>1, <4>1, <4>2, <3>2, <1>0
      <4>. QED BY <4>3, <4>4, <4>5
    <3>. QED BY <3>3, <3>4
  <2>5. WithinLimits([rd EXCEPT !.breach = b], Stopped(commands', r))
    BY <2>2, <2>3, <2>4 DEF WithinLimits, Rounds
  <2>. QED BY <2>1, <2>2, <2>3, <2>5
<1>. QED BY <1>2, <1>3

\* An open Round that is updated and then measured keeps the invariant.
LEMMA EnforcedKept ==
    ASSUME AuthorityInv, NEW r \in OpenRounds, NEW rd \in Rounds, NEW now \in Int,
           now <= clock, CountsAtMost(rd, clock),
           rd.breach = rounds[r].breach, rd.ticket = rounds[r].ticket,
           rd.ran >= rounds[r].ran,
           rd.streak >= MaxDenials => rd.state = "running" \/ StopRequested(r),
           \A g \in rd.allowedOn :
               /\ g \in DOMAIN grants
               /\ grants[g].form = "ticket" => grants[g].ticket = rd.ticket
               /\ grants[g].state = "revoked" => g \in rounds[r].allowedOn,
           EnforceRoundLimits(r, rd, now),
           clock' = clock, done' = done, grants' = grants, told' = told, heard' \in Nat
    PROVE  AuthorityInv'
<1>1. r \in DOMAIN rounds /\ Open(r)
  BY DEF OpenRounds
<1>2. /\ commands' \in Seq(Commands) /\ OneStop(commands') /\ Keeps(commands', commands)
      /\ \E b \in {"none", "wall_clock", "denial_loop"} :
            /\ rounds' = [rounds EXCEPT ![r] = [rd EXCEPT !.breach = b]]
            /\ WithinLimits([rd EXCEPT !.breach = b], Stopped(commands', r))
  BY <1>1, LimitsEnforced
<1>3. PICK b \in {"none", "wall_clock", "denial_loop"} :
            /\ rounds' = [rounds EXCEPT ![r] = [rd EXCEPT !.breach = b]]
            /\ WithinLimits([rd EXCEPT !.breach = b], Stopped(commands', r))
  BY <1>2
<1>. DEFINE new == [rd EXCEPT !.breach = b]
<1>4. /\ new \in Rounds /\ new.ticket = rounds[r].ticket
      /\ new.allowedOn = rd.allowedOn
      /\ CountsAtMost(new, clock)
  BY DEF Rounds, CountsAtMost
<1>5. GrantsKept
  BY DEF AuthorityInv, AuthorityTypeOK, GrantsKept
<1>6. /\ rounds' = [rounds EXCEPT ![r] = new]
      /\ WithinLimits(new, Stopped(commands', r))
  BY <1>3
<1>. HIDE DEF new
<1>7. \A g \in new.allowedOn :
               /\ g \in DOMAIN grants
               /\ grants[g].form = "ticket" => grants[g].ticket = new.ticket
               /\ grants[g].state = "revoked" => g \in rounds[r].allowedOn
  BY <1>4
<1>. QED BY <1>1, <1>2, <1>4, <1>5, <1>6, <1>7, RoundUpdated

-----------------------------------------------------------------------------
(* The handlers.                                                           *)

\* What is known of an open Round, and of the time a request was received at.
LEMMA OpenRoundFacts ==
    ASSUME AuthorityInv, NEW r \in OpenRounds
    PROVE  /\ r \in DOMAIN rounds /\ r \in Nat /\ Open(r) /\ rounds[r] \in Rounds
           /\ CountsAtMost(rounds[r], clock) /\ clock \in Nat /\ heard \in Nat
           /\ rounds[r].streak >= MaxDenials => StopRequested(r)
           /\ \A g \in rounds[r].allowedOn :
                 /\ g \in DOMAIN grants
                 /\ grants[g].form = "ticket" => grants[g].ticket = rounds[r].ticket
                 /\ grants[g].state = "revoked" => g \in rounds[r].allowedOn
           /\ \A now \in Received : now \in Nat /\ now <= clock
           /\ Reported \subseteq Received
BY DEF AuthorityInv, AuthorityTypeOK, OpenRounds, ClocksCountAtMost, LimitsMeasureTheRound,
       AllowedOnWhatCovers, Received, Reported

\* A Round that begins to run, or resumes, counts from the report on.
LEMMA EnterRunningFacts ==
    ASSUME NEW rd \in Rounds, NEW now \in Nat, clock \in Nat, now <= clock,
           CountsAtMost(rd, clock)
    PROVE  LET new == EnterRunning(rd, now)
           IN  /\ new \in Rounds /\ CountsAtMost(new, clock)
               /\ new.breach = rd.breach /\ new.ticket = rd.ticket /\ new.ran >= rd.ran
               /\ new.streak = rd.streak /\ new.allowedOn = rd.allowedOn
               /\ new.state = "running"
<1>1. rd.ran \in Nat /\ rd.active \in Nat /\ clock - now \in Nat
  BY DEF Rounds
<1>. DEFINE ran == rd.ran + (clock - now)
<1>2. ran \in Nat /\ now \in Int
  BY <1>1
<1>3. EnterRunning(rd, now) \in Rounds
  <2>1. EnterRunning(rd, now) = [rd EXCEPT !.state = "running", !.since = now, !.ran = ran]
    BY DEF EnterRunning
  <2>. HIDE DEF ran
  <2>. QED BY <1>2, <2>1 DEF Rounds, OpenStates
<1>4. CountsAtMost(EnterRunning(rd, now), clock)
  <2>1. rd.active <= rd.ran
    BY DEF CountsAtMost
  <2>. QED BY <1>1, <2>1 DEF EnterRunning, CountsAtMost, Rounds
<1>5. EnterRunning(rd, now).ran >= rd.ran
  BY <1>1 DEF EnterRunning, Rounds
<1>. QED BY <1>3, <1>4, <1>5 DEF EnterRunning, Rounds

\* A Round that waits or ends has counted at most what it ran.
LEMMA LeaveRunningFacts ==
    ASSUME NEW rd \in Rounds, NEW now \in Nat, clock \in Nat, now <= clock,
           CountsAtMost(rd, clock), NEW state \in {"waiting", "ended"}
    PROVE  LET new == LeaveRunning(rd, now, state)
           IN  /\ new \in Rounds /\ CountsAtMost(new, clock)
               /\ new.breach = rd.breach /\ new.ticket = rd.ticket /\ new.ran = rd.ran
               /\ new.streak = rd.streak /\ new.allowedOn = rd.allowedOn
<1>0. /\ rd.ran \in Nat /\ rd.active \in Nat /\ rd.since \in Int /\ rd.active <= rd.ran
      /\ state \in OpenStates \cup {"ended"}
  BY DEF Rounds, CountsAtMost, OpenStates
<1>1. CASE rd.since = NoTime
  BY <1>0, <1>1 DEF LeaveRunning, Rounds, CountsAtMost
<1>2. CASE rd.since # NoTime
  <2>. DEFINE active == rd.active + Max({0, now - rd.since})
  <2>1. rd.since <= clock /\ rd.active + (clock - rd.since) <= rd.ran
    BY <1>2 DEF CountsAtMost
  <2>2. active \in Nat /\ active <= rd.ran
    <3>1. now - rd.since \in Int BY <1>0
    <3>2. CASE now - rd.since >= 0
      <4>1. Max({0, now - rd.since}) = now - rd.since BY <3>1, <3>2, MaxWithZero
      <4>. QED BY <4>1, <1>0, <2>1, <3>2
    <3>3. CASE now - rd.since < 0
      <4>1. Max({0, now - rd.since}) = 0 BY <3>1, <3>3, MaxWithZero
      <4>. QED BY <4>1, <1>0
    <3>. QED BY <3>1, <3>2, <3>3
  <2>. HIDE DEF active
  <2>3. LeaveRunning(rd, now, state)
          = [rd EXCEPT !.state = state, !.active = active, !.since = NoTime]
    BY <1>0, <1>2 DEF LeaveRunning, Rounds, active
  <2>4. NoTime \in Int
    BY DEF NoTime
  <2>. QED BY <1>0, <2>2, <2>3, <2>4 DEF Rounds, CountsAtMost
<1>. QED BY <1>1, <1>2

\* The runner's reports.
LEMMA ReportKept ==
    ASSUME AuthorityInv, NEW r \in OpenRounds, NEW now \in Reported, Report(r, now)
    PROVE  AuthorityInv'
<1>1. /\ r \in DOMAIN rounds /\ r \in Nat /\ Open(r) /\ rounds[r] \in Rounds
      /\ CountsAtMost(rounds[r], clock) /\ clock \in Nat
      /\ rounds[r].streak >= MaxDenials => StopRequested(r)
      /\ \A g \in rounds[r].allowedOn :
            /\ g \in DOMAIN grants
            /\ grants[g].form = "ticket" => grants[g].ticket = rounds[r].ticket
            /\ grants[g].state = "revoked" => g \in rounds[r].allowedOn
      /\ now \in Nat /\ now <= clock /\ now \in Int
  BY OpenRoundFacts
<1>2. /\ NoAsk \in [scope: Scope \cup {FullAccess}, at: Int,
                    decision: {"none", "approved", "declined"}]
  BY DEF NoAsk, NoTime
<1>3. CASE ExecutionStarted(r, now)
  <2>. DEFINE rd == EnterRunning(rounds[r], now)
  <2>1. /\ rd \in Rounds /\ CountsAtMost(rd, clock)
        /\ rd.breach = rounds[r].breach /\ rd.ticket = rounds[r].ticket
        /\ rd.ran >= rounds[r].ran /\ rd.streak = rounds[r].streak
        /\ rd.allowedOn = rounds[r].allowedOn /\ rd.state = "running"
    BY <1>1, EnterRunningFacts
  <2>2. /\ EnforceRoundLimits(r, rd, now)
        /\ clock' = clock /\ done' = done /\ grants' = grants /\ told' = told
        /\ heard' = clock
    BY <1>3 DEF ExecutionStarted
  <2>. HIDE DEF rd
  <2>. QED BY <1>1, <2>1, <2>2, EnforcedKept
<1>4. CASE Progress(r, now)
  <2>1. /\ EnforceRoundLimits(r, rounds[r], now)
        /\ clock' = clock /\ done' = done /\ grants' = grants /\ told' = told
        /\ heard' = clock
    BY <1>4 DEF Progress
  <2>2. rounds[r].ran >= rounds[r].ran
    BY <1>1 DEF Rounds
  <2>. QED BY <1>1, <2>1, <2>2, EnforcedKept
<1>5. CASE Resumed(r, now)
  <2>. DEFINE run == EnterRunning(rounds[r], now)
              rd == [run EXCEPT !.ask = NoAsk]
  <2>1. /\ run \in Rounds /\ CountsAtMost(run, clock)
        /\ run.breach = rounds[r].breach /\ run.ticket = rounds[r].ticket
        /\ run.ran >= rounds[r].ran /\ run.streak = rounds[r].streak
        /\ run.allowedOn = rounds[r].allowedOn /\ run.state = "running"
    BY <1>1, EnterRunningFacts
  <2>2. /\ EnforceRoundLimits(r, rd, now)
        /\ clock' = clock /\ done' = done /\ grants' = grants /\ told' = told
        /\ heard' = clock
    BY <1>5 DEF Resumed
  <2>. HIDE DEF run
  <2>3. /\ rd \in Rounds /\ CountsAtMost(rd, clock)
        /\ rd.breach = rounds[r].breach /\ rd.ticket = rounds[r].ticket
        /\ rd.ran >= rounds[r].ran /\ rd.streak = rounds[r].streak
        /\ rd.allowedOn = rounds[r].allowedOn /\ rd.state = "running"
    BY <1>2, <2>1 DEF Rounds, CountsAtMost
  <2>. HIDE DEF rd
  <2>. QED BY <1>1, <2>2, <2>3, EnforcedKept
<1>. DEFINE Updates(rd) ==
        /\ rounds' = [rounds EXCEPT ![r] = rd]
        /\ UNCHANGED <<clock, done, grants, commands, told>> /\ heard' = clock
<1>6. ASSUME NEW rd \in Rounds, Updates(rd), CountsAtMost(rd, clock),
             rd.breach = rounds[r].breach, rd.ticket = rounds[r].ticket,
             rd.ran = rounds[r].ran, rd.streak = rounds[r].streak,
             rd.allowedOn = rounds[r].allowedOn
      PROVE  AuthorityInv'
  <2>1. WithinLimits(rd, Stopped(commands, r))
    BY <1>1, <1>6 DEF AuthorityInv, LimitsMeasureTheRound, WithinLimits, Stopped, StopRequested
  <2>2. GrantsKept /\ Keeps(commands, commands) /\ commands \in Seq(Commands) /\ OneStop(commands)
    BY <1>6 DEF AuthorityInv, AuthorityTypeOK, GrantsKept, Keeps
  <2>. QED BY <1>1, <1>6, <2>1, <2>2, RoundUpdated
<1>7. ASSUME NEW s \in Scope, RaisePermissionRequest(r, s, now)
      PROVE  AuthorityInv'
  <2>. DEFINE left == LeaveRunning(rounds[r], now, "waiting")
              ask == [scope |-> s, at |-> now, decision |-> "none"]
              rd == [left EXCEPT !.ask = ask]
  <2>1. /\ left \in Rounds /\ CountsAtMost(left, clock)
        /\ left.breach = rounds[r].breach /\ left.ticket = rounds[r].ticket
        /\ left.ran = rounds[r].ran /\ left.streak = rounds[r].streak
        /\ left.allowedOn = rounds[r].allowedOn
    BY <1>1, LeaveRunningFacts
  <2>2. Updates(rd)
    BY <1>7 DEF RaisePermissionRequest
  <2>3. ask \in [scope: Scope \cup {FullAccess}, at: Int,
                 decision: {"none", "approved", "declined"}]
    BY <1>1
  <2>. HIDE DEF left, ask
  <2>4. /\ rd \in Rounds /\ CountsAtMost(rd, clock)
        /\ rd.breach = rounds[r].breach /\ rd.ticket = rounds[r].ticket
        /\ rd.ran = rounds[r].ran /\ rd.streak = rounds[r].streak
        /\ rd.allowedOn = rounds[r].allowedOn
    BY <2>1, <2>3 DEF Rounds, CountsAtMost
  <2>. HIDE DEF rd, Updates
  <2>. QED BY <1>6, <2>2, <2>4
<1>8. CASE EndRound(r, now)
  <2>. DEFINE left == LeaveRunning(rounds[r], now, "ended")
              rd == [left EXCEPT !.ask = NoAsk]
  <2>1. /\ left \in Rounds /\ CountsAtMost(left, clock)
        /\ left.breach = rounds[r].breach /\ left.ticket = rounds[r].ticket
        /\ left.ran = rounds[r].ran /\ left.streak = rounds[r].streak
        /\ left.allowedOn = rounds[r].allowedOn
    BY <1>1, LeaveRunningFacts
  <2>2. Updates(rd)
    BY <1>8 DEF EndRound
  <2>. HIDE DEF left
  <2>4. /\ rd \in Rounds /\ CountsAtMost(rd, clock)
        /\ rd.breach = rounds[r].breach /\ rd.ticket = rounds[r].ticket
        /\ rd.ran = rounds[r].ran /\ rd.streak = rounds[r].streak
        /\ rd.allowedOn = rounds[r].allowedOn
    BY <1>2, <2>1 DEF Rounds, CountsAtMost
  <2>. HIDE DEF rd, Updates
  <2>. QED BY <1>6, <2>2, <2>4
<1>. QED BY <1>3, <1>4, <1>5, <1>7, <1>8 DEF Report

\* The grant that is recorded is one of those that would do.
LEMMA ChosenIsOne ==
    ASSUME NEW candidates \in SUBSET Nat, candidates # {}
    PROVE  ChosenGrant(candidates) \in candidates
<1>. DEFINE narrow == {g \in candidates : grants[g].scope # FullAccess}
<1>1. CASE narrow # {}
  <2>1. Min(narrow) \in narrow
    BY <1>1, MinOfNaturals
  <2>. QED BY <1>1, <2>1 DEF ChosenGrant
<1>2. CASE narrow = {}
  <2>1. Min(candidates) \in candidates
    BY MinOfNaturals
  <2>. QED BY <1>2, <2>1 DEF ChosenGrant
<1>. QED BY <1>1, <1>2

\* A check that is allowed is allowed on an active grant that covers the Round.
LEMMA CheckKept ==
    ASSUME AuthorityInv, NEW r \in OpenRounds, NEW s \in Scope, NEW now \in Received,
           CheckAuthority(r, s, now)
    PROVE  AuthorityInv'
<1>. DEFINE candidates == Authorizing(rounds[r].ticket, s, now)
            chosen == ChosenGrant(candidates)
            denied == [rounds[r] EXCEPT !.streak = @ + 1]
            allowed == [rounds[r] EXCEPT !.streak = 0, !.allowedOn = @ \cup {chosen}]
<1>1. /\ r \in DOMAIN rounds /\ Open(r) /\ rounds[r] \in Rounds
      /\ CountsAtMost(rounds[r], clock)
      /\ \A g \in rounds[r].allowedOn :
            /\ g \in DOMAIN grants
            /\ grants[g].form = "ticket" => grants[g].ticket = rounds[r].ticket
            /\ grants[g].state = "revoked" => g \in rounds[r].allowedOn
      /\ now \in Int /\ now <= clock /\ heard \in Nat
  BY OpenRoundFacts
<1>2. /\ clock' = clock /\ done' = done /\ grants' = grants /\ told' = told /\ heard' \in Nat
      /\ rounds[r].state = "running"
      /\ candidates = {} => EnforceRoundLimits(r, denied, now)
      /\ candidates # {} => EnforceRoundLimits(r, allowed, now)
  BY <1>1 DEF CheckAuthority
<1>3. rounds[r].ran >= rounds[r].ran
  BY <1>1 DEF Rounds
<1>4. CASE candidates = {}
  <2>1. rounds[r].streak + 1 \in Nat
    BY <1>1 DEF Rounds
  <2>2. /\ denied \in Rounds /\ CountsAtMost(denied, clock)
        /\ denied.breach = rounds[r].breach /\ denied.ticket = rounds[r].ticket
        /\ denied.ran >= rounds[r].ran /\ denied.state = "running"
        /\ denied.allowedOn = rounds[r].allowedOn
    BY <1>1, <1>2, <1>3, <2>1 DEF Rounds, CountsAtMost
  <2>3. EnforceRoundLimits(r, denied, now)
    BY <1>2, <1>4
  <2>. HIDE DEF denied, candidates
  <2>. QED BY <1>1, <1>2, <2>2, <2>3, EnforcedKept
<1>5. CASE candidates # {}
  <2>1. candidates \in SUBSET Nat
    BY DEF Authorizing, AuthorityInv, AuthorityTypeOK
  <2>2. chosen \in candidates
    BY <1>5, <2>1, ChosenIsOne
  <2>3. /\ chosen \in DOMAIN grants /\ chosen \in Nat /\ grants[chosen].state = "active"
        /\ grants[chosen].form = "ticket" => grants[chosen].ticket = rounds[r].ticket
    BY <2>1, <2>2 DEF Authorizing, Live
  <2>. HIDE DEF chosen, candidates
  <2>4. /\ allowed \in Rounds /\ CountsAtMost(allowed, clock)
        /\ allowed.breach = rounds[r].breach /\ allowed.ticket = rounds[r].ticket
        /\ allowed.ran >= rounds[r].ran /\ allowed.state = "running"
        /\ allowed.allowedOn = rounds[r].allowedOn \cup {chosen}
    BY <1>1, <1>2, <1>3, <2>3 DEF Rounds, CountsAtMost
  <2>5. \A g \in allowed.allowedOn :
            /\ g \in DOMAIN grants
            /\ grants[g].form = "ticket" => grants[g].ticket = allowed.ticket
            /\ grants[g].state = "revoked" => g \in rounds[r].allowedOn
    BY <1>1, <2>3, <2>4
  <2>6. EnforceRoundLimits(r, allowed, now)
    BY <1>2, <1>5
  <2>. HIDE DEF allowed
  <2>. QED BY <1>1, <1>2, <2>4, <2>5, <2>6, EnforcedKept
<1>. QED BY <1>4, <1>5

\* A heartbeat measures the open Round as it is.
LEMMA HeartbeatKept ==
    ASSUME AuthorityInv, NEW now \in Received, RunnerHeartbeat(now)
    PROVE  AuthorityInv'
<1>1. PICK r \in OpenRounds : EnforceRoundLimits(r, rounds[r], now)
  BY DEF RunnerHeartbeat
<1>2. /\ rounds[r] \in Rounds /\ CountsAtMost(rounds[r], clock)
      /\ rounds[r].streak >= MaxDenials => StopRequested(r)
      /\ \A g \in rounds[r].allowedOn :
            /\ g \in DOMAIN grants
            /\ grants[g].form = "ticket" => grants[g].ticket = rounds[r].ticket
            /\ grants[g].state = "revoked" => g \in rounds[r].allowedOn
      /\ now \in Int /\ now <= clock /\ heard \in Nat
  BY OpenRoundFacts
<1>3. rounds[r].ran >= rounds[r].ran
  BY <1>2 DEF Rounds
<1>4. clock' = clock /\ done' = done /\ grants' = grants /\ told' = told /\ heard' \in Nat
  BY <1>2 DEF RunnerHeartbeat
<1>. QED BY <1>1, <1>2, <1>3, <1>4, EnforcedKept

\* A change of authority is told to the Round the grant covers, if any.
LEMMA AuthorityChangeTold ==
    ASSUME NEW g, OpenRounds \in SUBSET Nat, NEW log \in Seq(Commands), OneStop(log)
    PROVE  LET more == WithAuthorityChanged(g, log)
           IN  more \in Seq(Commands) /\ OneStop(more) /\ Keeps(more, log)
<1>1. CASE Covered(g) = {}
  BY <1>1 DEF WithAuthorityChanged, Keeps
<1>2. CASE Covered(g) # {}
  <2>1. Min(Covered(g)) \in Nat
    BY <1>2, MinOfNaturals DEF Covered
  <2>. QED BY <1>2, <2>1, OtherIssued DEF WithAuthorityChanged
<1>. QED BY <1>1, <1>2

\* One keeping after another keeps.
LEMMA KeepsTransitive ==
    ASSUME NEW a, NEW b, NEW c, Keeps(b, a), Keeps(c, b)
    PROVE  Keeps(c, a)
BY DEF Keeps

\* The Owner's decision of a Permission request.
LEMMA DecideKept ==
    ASSUME AuthorityInv, NEW r \in OpenRounds, Decide(r)
    PROVE  AuthorityInv'
<1>1. /\ r \in DOMAIN rounds /\ r \in Nat /\ Open(r) /\ rounds[r] \in Rounds
      /\ CountsAtMost(rounds[r], clock) /\ clock \in Nat /\ heard \in Nat
      /\ \A g \in rounds[r].allowedOn :
            /\ g \in DOMAIN grants
            /\ grants[g].form = "ticket" => grants[g].ticket = rounds[r].ticket
            /\ grants[g].state = "revoked" => g \in rounds[r].allowedOn
  BY OpenRoundFacts
<1>2. WithinLimits(rounds[r], Stopped(commands, r))
  BY <1>1 DEF AuthorityInv, LimitsMeasureTheRound, WithinLimits, Stopped, StopRequested
<1>3. OpenRounds \in SUBSET Nat /\ commands \in Seq(Commands) /\ OneStop(commands)
  BY DEF OpenRounds, AuthorityInv, AuthorityTypeOK
<1>. DEFINE decided(decision) == [rounds[r] EXCEPT !.ask.decision = decision]
<1>4. \A decision \in {"approved", "declined"} :
        /\ decided(decision) \in Rounds /\ CountsAtMost(decided(decision), clock)
        /\ decided(decision).ticket = rounds[r].ticket
        /\ decided(decision).allowedOn = rounds[r].allowedOn
        /\ \A stopped : (stopped = TRUE \/ stopped = Stopped(commands, r)) =>
              WithinLimits(decided(decision), stopped)
  BY <1>1, <1>2 DEF Rounds, CountsAtMost, WithinLimits
<1>5. CASE DeclinePermissionRequest(r)
  <2>. DEFINE rd == decided("declined")
  <2>1. /\ rounds' = [rounds EXCEPT ![r] = rd] /\ commands' = commands /\ grants' = grants
        /\ clock' = clock /\ done' = done /\ told' = told /\ heard' = heard
    BY <1>5 DEF DeclinePermissionRequest
  <2>2. GrantsKept /\ Keeps(commands, commands)
    BY <2>1 DEF AuthorityInv, AuthorityTypeOK, GrantsKept, Keeps
  <2>3. /\ rd \in Rounds /\ CountsAtMost(rd, clock) /\ rd.ticket = rounds[r].ticket
        /\ rd.allowedOn = rounds[r].allowedOn
        /\ WithinLimits(rd, Stopped(commands', r))
    BY <1>4, <2>1
  <2>. HIDE DEF rd
  <2>. QED BY <1>1, <1>3, <2>1, <2>2, <2>3, RoundUpdated
<1>6. ASSUME NEW form \in {"ticket", "time"}, NEW full \in BOOLEAN, NEW e \in Int, NEW now,
             ApprovePermissionRequest(r, form, full, e, now)
      PROVE  AuthorityInv'
  <2>. DEFINE rd == decided("approved")
              grant == [ticket |-> rounds[r].ticket, form |-> form,
                        scope |-> IF full THEN FullAccess ELSE rounds[r].ask.scope,
                        expiresAt |-> e, state |-> "active"]
              told1 == Append(commands, Command(r, "approval"))
  <2>1. /\ rounds' = [rounds EXCEPT ![r] = rd] /\ grants' = Append(grants, grant)
        /\ commands' = WithAuthorityChanged(grant, told1)
        /\ clock' = clock /\ done' = done /\ told' = told /\ heard' = heard
    BY <1>6 DEF ApprovePermissionRequest
  <2>2. grant \in Grants
    BY <1>1 DEF Grants, Rounds
  <2>3. told1 \in Seq(Commands) /\ OneStop(told1) /\ Keeps(told1, commands)
    BY <1>1, <1>3, OtherIssued
  <2>. HIDE DEF told1, grant
  <2>4. commands' \in Seq(Commands) /\ OneStop(commands') /\ Keeps(commands', commands)
    BY <1>3, <2>1, <2>3, AuthorityChangeTold, KeepsTransitive
  <2>5. GrantsKept
    BY <2>1, <2>2, AppendedLog DEF AuthorityInv, AuthorityTypeOK, GrantsKept
  <2>6. /\ rd \in Rounds /\ CountsAtMost(rd, clock) /\ rd.ticket = rounds[r].ticket
        /\ rd.allowedOn = rounds[r].allowedOn
        /\ WithinLimits(rd, Stopped(commands', r))
    <3>1. Stopped(commands, r) => Stopped(commands', r)
      BY <2>4, StopsKept
    <3>2. WithinLimits(rd, Stopped(commands, r))
      BY <1>4
    <3>. HIDE DEF rd
    <3>3. WithinLimits(rd, Stopped(commands', r))
      BY <3>1, <3>2 DEF WithinLimits
    <3>. QED BY <1>4, <3>3 DEF rd
  <2>. HIDE DEF rd
  <2>. QED BY <1>1, <2>1, <2>4, <2>5, <2>6, RoundUpdated
<1>7. NoTime \in Int /\ 1 .. clock + MaxTerm \subseteq Int
  BY <1>1, AuthorityAssumption DEF NoTime
<1>. QED BY <1>5, <1>6, <1>7 DEF Decide

\* A claim opens a Round with nothing counted, denied or allowed.
LEMMA ClaimKept ==
    ASSUME AuthorityInv, NEW t \in Ticket, ClaimWork(t)
    PROVE  AuthorityInv'
<1>. USE DEF AuthorityInv
<1>. DEFINE rd == [ticket |-> t, state |-> "claimed", ask |-> NoAsk,
                   active |-> 0, since |-> NoTime, streak |-> 0,
                   breach |-> "none", allowedOn |-> {}, ran |-> 0]
            n == Len(rounds) + 1
<1>1. /\ rd \in Rounds /\ rd.allowedOn = {} /\ rd.breach = "none" /\ rd.streak = 0
      /\ CountsAtMost(rd, clock)
  BY DEF Rounds, NoAsk, NoTime, OpenStates, CountsAtMost
<1>2. /\ OpenRounds = {} /\ rounds' = Append(rounds, rd)
      /\ UNCHANGED <<clock, done, grants, commands, told>> /\ heard' = clock
  BY DEF ClaimWork
<1>. HIDE DEF rd
<1>3. /\ rounds' \in Seq(Rounds)
      /\ DOMAIN rounds' = DOMAIN rounds \cup {n}
      /\ rounds'[n] = rd
      /\ \A i \in DOMAIN rounds : rounds'[i] = rounds[i] /\ i # n
  BY <1>1, <1>2, AppendedLog DEF AuthorityTypeOK
<1>. HIDE DEF n
<1>4. AuthorityTypeOK'
  BY <1>2, <1>3 DEF AuthorityTypeOK
<1>5. OpenRounds' \subseteq {n}
  BY <1>2, <1>3 DEF OpenRounds, Open
<1>6. OneOpen'
  BY <1>5 DEF OneOpen
<1>7. AllowedOnWhatCovers' /\ ClocksCountAtMost' /\ OneStop(commands)'
  BY <1>1, <1>2, <1>3 DEF AllowedOnWhatCovers, ClocksCountAtMost, CountsAtMost
<1>8. RevokedGrantStopsItsRounds'
  BY <1>1, <1>3, <1>5 DEF RevokedGrantStopsItsRounds
<1>9. LimitsMeasureTheRound'
  <2>1. ~(rd.streak >= MaxDenials)
    BY <1>1, AuthorityAssumption
  <2>. QED BY <1>1, <1>2, <1>3, <2>1 DEF LimitsMeasureTheRound, StopRequested
<1>. QED BY <1>4, <1>6, <1>7, <1>8, <1>9

\* A revocation stops the open Round that the grant covers: any Round that was allowed
\* something on it is that one.
LEMMA RevokeKept ==
    ASSUME AuthorityInv, NEW g \in DOMAIN grants, NEW now, RevokePermissionGrant(g, now)
    PROVE  AuthorityInv'
<1>. DEFINE covered == Covered(grants[g])
            log == IF covered = {} THEN commands ELSE WithStop(Min(covered), commands)
<1>1. /\ grants' = [grants EXCEPT ![g].state = "revoked"]
      /\ commands' = WithAuthorityChanged(grants[g], log)
      /\ rounds' = rounds /\ clock' = clock /\ done' = done /\ told' = told /\ heard' = heard
  BY DEF RevokePermissionGrant
<1>2. /\ grants \in Seq(Grants) /\ commands \in Seq(Commands) /\ OneStop(commands)
      /\ OpenRounds \in SUBSET Nat /\ covered \in SUBSET OpenRounds
  BY DEF AuthorityInv, AuthorityTypeOK, OpenRounds, Covered
<1>3. /\ log \in Seq(Commands) /\ OneStop(log) /\ Keeps(log, commands)
      /\ \A r \in covered : Stopped(log, r)
  <2>1. CASE covered = {}
    BY <2>1, <1>2 DEF Keeps
  <2>2. CASE covered # {}
    <3>1. Min(covered) \in covered /\ Min(covered) \in Nat
      BY <2>2, <1>2, MinOfNaturals
    <3>2. \A r \in covered : r = Min(covered)
      BY <3>1, <1>2 DEF AuthorityInv, OneOpen
    <3>3. log = WithStop(Min(covered), commands)
      BY <2>2
    <3>. HIDE DEF log, covered
    <3>. QED BY <3>1, <3>2, <3>3, <1>2, IssuedStop
  <2>. QED BY <2>1, <2>2
<1>. HIDE DEF log
<1>4. /\ commands' \in Seq(Commands) /\ OneStop(commands') /\ Keeps(commands', log)
  BY <1>1, <1>2, <1>3, AuthorityChangeTold
<1>5. Keeps(commands', commands) /\ \A r \in covered : Stopped(commands', r)
  BY <1>3, <1>4, KeepsTransitive, StopsKept
<1>6. /\ grants' \in Seq(Grants) /\ DOMAIN grants' = DOMAIN grants
      /\ \A i \in DOMAIN grants : /\ grants'[i].form = grants[i].form
                                  /\ grants'[i].ticket = grants[i].ticket
                                  /\ i # g => grants'[i].state = grants[i].state
  <2>1. \A i \in DOMAIN grants : grants[i] \in Grants
    BY <1>2
  <2>2. [grants[g] EXCEPT !.state = "revoked"] \in Grants
    BY <2>1 DEF Grants
  <2>3. grants' = [grants EXCEPT ![g] = [grants[g] EXCEPT !.state = "revoked"]]
    BY <1>1
  <2>4. grants' \in Seq(Grants) /\ DOMAIN grants' = DOMAIN grants
    BY <1>2, <2>2, <2>3
  <2>. QED BY <2>1, <2>3, <2>4 DEF Grants
<1>7. ASSUME NEW r \in OpenRounds, NEW i \in rounds[r].allowedOn, grants'[i].state = "revoked"
      PROVE  grants[i].state = "revoked" \/ Stopped(commands', r)
  <2>1. /\ i \in DOMAIN grants
        /\ grants[i].form = "ticket" => grants[i].ticket = rounds[r].ticket
    BY DEF AuthorityInv, AllowedOnWhatCovers, OpenRounds
  <2>2. CASE i = g
    <3>1. r \in covered
      BY <2>1, <2>2 DEF Covered
    <3>. QED BY <3>1, <1>5
  <2>3. CASE i # g
    BY <2>1, <2>3, <1>6, <1>7
  <2>. QED BY <2>2, <2>3
<1>8. done' \subseteq Ticket /\ told' \subseteq Nat /\ heard' \in Nat
  BY <1>1 DEF AuthorityInv, AuthorityTypeOK
<1>. HIDE DEF covered
<1>. QED BY <1>1, <1>4, <1>5, <1>6, <1>7, <1>8, RoundsKept

\* The Owner's other commands, and what the runner acknowledges.
LEMMA OtherCommandsKept ==
    ASSUME AuthorityInv,
           \/ \E t \in Ticket : FinishTicket(t) \/ ReopenTicket(t)
           \/ \E r \in OpenRounds : RequestStop(r)
           \/ \E g \in DOMAIN grants, now \in Received : RevokeExpiredGrant(g, now)
           \/ \E c \in DOMAIN commands, outcome \in {"applied", "ignored"} :
                 AcknowledgeRoundCommand(c, outcome)
    PROVE  AuthorityInv'
<1>1. /\ grants \in Seq(Grants) /\ commands \in Seq(Commands) /\ OneStop(commands)
      /\ DOMAIN grants \subseteq Nat
      /\ done \subseteq Ticket /\ told \subseteq Nat /\ heard \in Nat
      /\ Keeps(commands, commands)
  BY DEF AuthorityInv, AuthorityTypeOK, Keeps
<1>2. ASSUME NEW t \in Ticket, FinishTicket(t) PROVE AuthorityInv'
  <2>1. /\ rounds' = rounds /\ clock' = clock /\ commands' = commands /\ told' = told
        /\ heard' = heard /\ done' \subseteq Ticket
    BY <1>1, <1>2 DEF FinishTicket
  <2>2. /\ grants' \in Seq(Grants) /\ DOMAIN grants' = DOMAIN grants
        /\ \A g \in DOMAIN grants : /\ grants'[g].form = grants[g].form
                                    /\ grants'[g].ticket = grants[g].ticket
                                    /\ grants'[g].state = "revoked" => grants[g].state = "revoked"
    <3>. DEFINE ended(g) == [grants[g] EXCEPT !.state = "ended_at_done"]
                new(g) == IF /\ grants[g].form = "ticket" /\ grants[g].ticket = t
                             /\ grants[g].state = "active"
                          THEN ended(g) ELSE grants[g]
    <3>0. \A g \in DOMAIN grants : grants[g] \in Grants
      BY <1>1
    <3>1. \A g \in DOMAIN grants : grants[g] \in Grants /\ ended(g) \in Grants
      BY <3>0 DEF Grants
    <3>2. \A g \in DOMAIN grants : /\ new(g) \in Grants
                                   /\ new(g).form = grants[g].form
                                   /\ new(g).ticket = grants[g].ticket
                                   /\ new(g).state = "revoked" => grants[g].state = "revoked"
      BY <3>1 DEF Grants
    <3>3. grants' = [g \in DOMAIN grants |-> new(g)]
      BY <1>2 DEF FinishTicket
    <3>. HIDE DEF new
    <3>4. grants' \in Seq(Grants) /\ DOMAIN grants' = DOMAIN grants
      BY <1>1, <3>2, <3>3
    <3>. QED BY <3>2, <3>3, <3>4
  <2>3. \A r \in OpenRounds : \A g \in rounds[r].allowedOn : g \in DOMAIN grants
    BY DEF AuthorityInv, AllowedOnWhatCovers, OpenRounds
  <2>. QED BY <1>1, <2>1, <2>2, <2>3, RoundsKept
<1>3. ASSUME NEW t \in Ticket, ReopenTicket(t) PROVE AuthorityInv'
  <2>1. /\ rounds' = rounds /\ clock' = clock /\ commands' = commands /\ told' = told
        /\ heard' = heard /\ done' \subseteq Ticket /\ grants' = grants
    BY <1>1, <1>3 DEF ReopenTicket
  <2>. QED BY <1>1, <2>1, RoundsKept
<1>4. ASSUME NEW r \in OpenRounds, RequestStop(r) PROVE AuthorityInv'
  <2>1. /\ rounds' = rounds /\ clock' = clock /\ told' = told /\ commands' = WithStop(r, commands)
        /\ heard' = heard /\ done' = done /\ grants' = grants
    BY <1>4 DEF RequestStop
  <2>2. commands' \in Seq(Commands) /\ OneStop(commands') /\ Keeps(commands', commands)
    BY <1>1, <2>1, IssuedStop, OpenRoundFacts
  <2>. QED BY <1>1, <2>1, <2>2, RoundsKept
<1>5. ASSUME NEW g \in DOMAIN grants, NEW now, RevokeExpiredGrant(g, now) PROVE AuthorityInv'
  <2>1. /\ rounds' = rounds /\ clock' = clock /\ told' = told \cup {g} /\ commands' = commands
        /\ heard' = heard /\ done' = done /\ grants' = grants
    BY <1>5 DEF RevokeExpiredGrant
  <2>. QED BY <1>1, <2>1, RoundsKept
<1>6. ASSUME NEW c \in DOMAIN commands, NEW outcome \in {"applied", "ignored"},
             AcknowledgeRoundCommand(c, outcome)
      PROVE  AuthorityInv'
  <2>1. /\ rounds' = rounds /\ clock' = clock /\ told' = told
        /\ commands' = [commands EXCEPT ![c] = [commands[c] EXCEPT !.ack = outcome]]
        /\ heard' = heard /\ done' = done /\ grants' = grants
    BY <1>6 DEF AcknowledgeRoundCommand
  <2>2. \A d \in DOMAIN commands : commands[d] \in Commands
    BY <1>1
  <2>3. [commands[c] EXCEPT !.ack = outcome] \in Commands
    BY <2>2 DEF Commands
  <2>4. commands' \in Seq(Commands) /\ DOMAIN commands' = DOMAIN commands
    BY <1>1, <2>1, <2>3
  <2>5. \A d \in DOMAIN commands : /\ commands'[d].round = commands[d].round
                                   /\ commands'[d].type = commands[d].type
    BY <2>1, <2>2 DEF Commands
  <2>6. OneStop(commands') /\ Keeps(commands', commands)
    BY <1>1, <2>4, <2>5 DEF OneStop, Keeps
  <2>. QED BY <1>1, <2>1, <2>4, <2>6, RoundsKept
<1>. QED BY <1>2, <1>3, <1>4, <1>5, <1>6

\* As the clock advances, a running Round runs and what it may have counted grows by
\* as much.
LEMMA AdvanceKept ==
    ASSUME AuthorityInv, Advance
    PROVE  AuthorityInv'
<1>. USE DEF AuthorityInv
<1>. DEFINE ranOn(r) == [rounds[r] EXCEPT !.ran = @ + 1]
            new(r) == IF rounds[r].state = "running" THEN ranOn(r) ELSE rounds[r]
<1>1. /\ clock' = clock + 1 /\ rounds' = [r \in DOMAIN rounds |-> new(r)]
      /\ UNCHANGED <<done, grants, commands, heard, told>> /\ clock \in Nat
  BY DEF Advance, AuthorityTypeOK
<1>2. \A r \in DOMAIN rounds : rounds[r] \in Rounds /\ rounds[r].ran + 1 \in Nat
  <2>1. \A r \in DOMAIN rounds : rounds[r] \in Rounds
    BY DEF AuthorityTypeOK
  <2>2. \A rd \in Rounds : rd.ran + 1 \in Nat
    BY DEF Rounds
  <2>. QED BY <2>1, <2>2
<1>3. \A r \in DOMAIN rounds :
        /\ new(r) \in Rounds /\ new(r).state = rounds[r].state
        /\ new(r).ticket = rounds[r].ticket /\ new(r).allowedOn = rounds[r].allowedOn
        /\ new(r).breach = rounds[r].breach /\ new(r).streak = rounds[r].streak
        /\ new(r).active = rounds[r].active /\ new(r).since = rounds[r].since
        /\ new(r).ran >= rounds[r].ran
        /\ rounds[r].state = "running" => new(r).ran = rounds[r].ran + 1
  BY <1>2 DEF Rounds
<1>. HIDE DEF new
<1>4. /\ rounds' \in Seq(Rounds) /\ DOMAIN rounds' = DOMAIN rounds
      /\ \A r \in DOMAIN rounds : rounds'[r] = new(r)
  BY <1>1, <1>3 DEF AuthorityTypeOK
<1>5. AuthorityTypeOK'
  BY <1>1, <1>4 DEF AuthorityTypeOK
<1>6. OpenRounds' = OpenRounds
  BY <1>3, <1>4 DEF OpenRounds, Open
<1>7. OneOpen' /\ AllowedOnWhatCovers' /\ OneStop(commands)'
  BY <1>1, <1>3, <1>4, <1>6 DEF OneOpen, AllowedOnWhatCovers
<1>8. ClocksCountAtMost'
  <2>. SUFFICES ASSUME NEW r \in DOMAIN rounds PROVE CountsAtMost(new(r), clock + 1)
    BY <1>1, <1>4 DEF ClocksCountAtMost, CountsAtMost
  <2>1. CountsAtMost(rounds[r], clock) /\ rounds[r] \in Rounds /\ new(r) \in Rounds
    BY <1>2, <1>3 DEF ClocksCountAtMost
  <2>2. /\ new(r).active = rounds[r].active /\ new(r).since = rounds[r].since
        /\ new(r).ran >= rounds[r].ran /\ new(r).state = rounds[r].state
        /\ rounds[r].state = "running" => new(r).ran = rounds[r].ran + 1
    BY <1>3
  <2>3. /\ rounds[r].active \in Nat /\ rounds[r].since \in Int /\ rounds[r].ran \in Nat
        /\ new(r).ran \in Nat
    BY <2>1 DEF Rounds
  <2>. QED BY <1>1, <2>1, <2>2, <2>3 DEF CountsAtMost
<1>9. RevokedGrantStopsItsRounds'
  BY <1>1, <1>3, <1>4, <1>6 DEF RevokedGrantStopsItsRounds, StopRequested, OpenRounds
<1>10. LimitsMeasureTheRound'
  <2>. SUFFICES ASSUME NEW r \in DOMAIN rounds
                PROVE  WithinLimits(new(r), Stopped(commands, r))
    BY <1>1, <1>4 DEF LimitsMeasureTheRound, WithinLimits, StopRequested, Stopped
  <2>1. WithinLimits(rounds[r], Stopped(commands, r))
    BY DEF LimitsMeasureTheRound, WithinLimits, StopRequested, Stopped
  <2>2. rounds[r].ran \in Nat /\ new(r).ran \in Nat /\ MaxActive \in Nat
    BY <1>2, <1>3, AuthorityAssumption DEF Rounds
  <2>. QED BY <1>3, <2>1, <2>2 DEF WithinLimits
<1>. QED BY <1>5, <1>7, <1>8, <1>9, <1>10

-----------------------------------------------------------------------------
(* Theorems.                                                               *)

\* Every step keeps the invariant.
LEMMA AuthorityInvStep == AuthorityInv /\ [Next]_vars => AuthorityInv'
<1>. SUFFICES ASSUME AuthorityInv, [Next]_vars PROVE AuthorityInv'
  OBVIOUS
<1>1. CASE UNCHANGED vars
  BY <1>1 DEF vars, AuthorityInv, AuthorityTypeOK, OneOpen, AllowedOnWhatCovers,
              ClocksCountAtMost, CountsAtMost, OneStop, RevokedGrantStopsItsRounds,
              LimitsMeasureTheRound, OpenRounds, Open, StopRequested
<1>2. ASSUME NEW t \in Ticket, ClaimWork(t) PROVE AuthorityInv'
  BY <1>2, ClaimKept
<1>3. ASSUME NEW r \in OpenRounds,
             \/ \E now \in Reported : Report(r, now)
             \/ \E s \in Scope, now \in Received : CheckAuthority(r, s, now)
             \/ Decide(r)
      PROVE  AuthorityInv'
  BY <1>3, ReportKept, CheckKept, DecideKept
<1>4. ASSUME NEW now \in Received,
             RunnerHeartbeat(now) \/ \E g \in DOMAIN grants : RevokePermissionGrant(g, now)
      PROVE  AuthorityInv'
  BY <1>4, HeartbeatKept, RevokeKept
<1>5. CASE Advance
  BY <1>5, AdvanceKept
<1>. QED BY <1>1, <1>2, <1>3, <1>4, <1>5, OtherCommandsKept DEF Next

\* The inductive invariant holds in every behaviour of the grants, limits and commands.
THEOREM AuthorityInvariant == Spec => []AuthorityInv
BY AuthorityInvInit, AuthorityInvStep, PTL DEF Spec

\* A Round once allowed something on a grant that the Owner has revoked has a Stop for
\* as long as it is open (grant_revocation.go, round_authority.go).
THEOREM RevokedGrantStopsItsRoundsHolds == Spec => []RevokedGrantStopsItsRounds
<1>1. AuthorityInv => RevokedGrantStopsItsRounds
  BY DEF AuthorityInv
<1>. QED BY <1>1, AuthorityInvariant, PTL

\* The wall clock ends only a Round that ran for as long, denials at their limit and every
\* breach come with a Stop, however late requests were handled (round_limits.go).
THEOREM LimitsMeasureTheRoundHolds == Spec => []LimitsMeasureTheRound
<1>1. AuthorityInv => LimitsMeasureTheRound
  BY DEF AuthorityInv
<1>. QED BY <1>1, AuthorityInvariant, PTL

\* What was issued stays issued, and each acknowledgement is kept.
Settled(log, base) ==
    \A c \in DOMAIN base : base[c].ack # "none" => log[c].ack = base[c].ack

\* A change of authority settles nothing anew.
LEMMA ToldSettles ==
    ASSUME NEW g, NEW log \in Seq(Commands), OpenRounds \in SUBSET Nat
    PROVE  \A c \in DOMAIN log : WithAuthorityChanged(g, log)[c] = log[c]
<1>1. CASE Covered(g) = {}
  BY <1>1 DEF WithAuthorityChanged
<1>2. CASE Covered(g) # {}
  <2>1. Min(Covered(g)) \in Nat
    BY <1>2, MinOfNaturals DEF Covered
  <2>2. Command(Min(Covered(g)), "authority_changed") \in Commands
    BY <2>1 DEF Command, Commands
  <2>. QED BY <1>2, <2>2, AppendedLog DEF WithAuthorityChanged
<1>. QED BY <1>1, <1>2

\* Enforcing the limits settles nothing anew.
LEMMA EnforceSettles ==
    ASSUME AuthorityInv, NEW r \in Nat, NEW rd, NEW now, EnforceRoundLimits(r, rd, now)
    PROVE  Settled(commands', commands)
<1>1. commands' = commands \/ commands' = WithStop(r, commands)
  BY DEF EnforceRoundLimits
<1>. QED BY <1>1, IssuedStop DEF AuthorityInv, AuthorityTypeOK, Settled

\* No step changes an acknowledgement.
LEMMA StepSettles ==
    ASSUME AuthorityInv, Next
    PROVE  Settled(commands', commands)
<1>0. /\ commands \in Seq(Commands) /\ OneStop(commands)
      /\ OpenRounds \in SUBSET Nat
  BY DEF AuthorityInv, AuthorityTypeOK, OpenRounds
<1>1. CASE commands' = commands
  BY <1>1 DEF Settled
<1>2. ASSUME NEW t \in Ticket, ClaimWork(t) \/ FinishTicket(t) \/ ReopenTicket(t)
      PROVE  commands' = commands
  BY <1>2 DEF ClaimWork, FinishTicket, ReopenTicket
<1>3. ASSUME NEW r \in OpenRounds, NEW now \in Reported, Report(r, now)
      PROVE  Settled(commands', commands)
  BY <1>0, <1>1, <1>3, EnforceSettles
     DEF Report, ExecutionStarted, Progress, RaisePermissionRequest, Resumed, EndRound
<1>4. ASSUME NEW r \in OpenRounds, NEW s \in Scope, NEW now, CheckAuthority(r, s, now)
      PROVE  Settled(commands', commands)
  BY <1>0, <1>4, EnforceSettles DEF CheckAuthority
<1>5. ASSUME NEW now, RunnerHeartbeat(now)
      PROVE  Settled(commands', commands)
  BY <1>0, <1>5, EnforceSettles DEF RunnerHeartbeat
<1>6. ASSUME NEW r \in OpenRounds, Decide(r)
      PROVE  Settled(commands', commands)
  <2>1. CASE DeclinePermissionRequest(r)
    BY <2>1, <1>1 DEF DeclinePermissionRequest
  <2>2. ASSUME NEW form, NEW full, NEW e, NEW now,
               ApprovePermissionRequest(r, form, full, e, now)
        PROVE  Settled(commands', commands)
    <3>. DEFINE log == Append(commands, Command(r, "approval"))
    <3>1. Command(r, "approval") \in Commands
      BY <1>0 DEF Command, Commands
    <3>2. log \in Seq(Commands) /\ \A c \in DOMAIN commands : c \in DOMAIN log /\ log[c] = commands[c]
      BY <1>0, <3>1, AppendedLog
    <3>3. \E g : commands' = WithAuthorityChanged(g, log)
      BY <2>2 DEF ApprovePermissionRequest
    <3>. HIDE DEF log
    <3>. QED BY <1>0, <3>2, <3>3, ToldSettles DEF Settled
  <2>. QED BY <1>6, <2>1, <2>2 DEF Decide
<1>7. ASSUME NEW r \in OpenRounds, RequestStop(r)
      PROVE  Settled(commands', commands)
  BY <1>0, <1>7, IssuedStop DEF RequestStop, Settled
<1>8. ASSUME NEW g \in DOMAIN grants, NEW now, RevokePermissionGrant(g, now)
      PROVE  Settled(commands', commands)
  <2>. DEFINE covered == Covered(grants[g])
              log == IF covered = {} THEN commands ELSE WithStop(Min(covered), commands)
  <2>1. commands' = WithAuthorityChanged(grants[g], log)
    BY <1>8 DEF RevokePermissionGrant
  <2>2. log \in Seq(Commands) /\ \A c \in DOMAIN commands : c \in DOMAIN log /\ log[c] = commands[c]
    <3>1. CASE covered = {}
      BY <3>1, <1>0
    <3>2. CASE covered # {}
      <4>1. Min(covered) \in Nat
        BY <3>2, <1>0, MinOfNaturals DEF Covered
      <4>. QED BY <3>2, <4>1, <1>0, IssuedStop DEF Keeps
    <3>. QED BY <3>1, <3>2
  <2>. HIDE DEF log
  <2>. QED BY <1>0, <2>1, <2>2, ToldSettles DEF Settled
<1>9. ASSUME NEW g \in DOMAIN grants, NEW now, RevokeExpiredGrant(g, now)
      PROVE  commands' = commands
  BY <1>9 DEF RevokeExpiredGrant
<1>10. ASSUME NEW c \in DOMAIN commands, NEW outcome, AcknowledgeRoundCommand(c, outcome)
       PROVE  Settled(commands', commands)
  BY <1>0, <1>10 DEF AcknowledgeRoundCommand, Settled
<1>11. CASE Advance
  BY <1>1, <1>11 DEF Advance
<1>. QED BY <1>1, <1>2, <1>3, <1>4, <1>5, <1>6, <1>7, <1>8, <1>9, <1>10, <1>11 DEF Next

\* An acknowledgement is never changed, and a Round never has two Stops
\* (round_commands.go).
THEOREM CommandsSettleOnceHolds == Spec => CommandsSettleOnce
<1>. DEFINE SettlesOnce ==
       /\ \A c \in DOMAIN commands : commands[c].ack # "none" => commands'[c].ack = commands[c].ack
       /\ \A c, d \in DOMAIN commands' :
             (/\ commands'[c].type = "stop" /\ commands'[d].type = "stop"
              /\ commands'[c].round = commands'[d].round) => c = d
<1>1. AuthorityInv /\ AuthorityInv' /\ [Next]_vars => [SettlesOnce]_vars
  BY StepSettles DEF AuthorityInv, OneStop, Settled
<1>. QED BY <1>1, AuthorityInvariant, PTL DEF Spec, CommandsSettleOnce

-----------------------------------------------------------------------------
(* The execution slot.                                                     *)

\* Rounds are numbered within the bound, and a Stop is of a Round there is.
SlotFits ==
    /\ DOMAIN rounds \subseteq 1 .. MaxRounds
    /\ \A r \in Nat : StopRequested(r) => r \in DOMAIN rounds

\* A log asks the same Rounds to stop as another, or one more.
AsksTheSame(log, base) == \A r \in Nat : Stopped(log, r) <=> Stopped(base, r)
AsksAlso(log, base, r) == \A q \in Nat : Stopped(log, q) <=> Stopped(base, q) \/ q = r

\* requestStop() asks its Round, if it was not asked before, and no other.
LEMMA WithStopAsks ==
    ASSUME commands \in Seq(Commands), NEW r \in Nat
    PROVE  AsksAlso(WithStop(r, commands), commands, r)
<1>1. CASE StopRequested(r)
  BY <1>1 DEF WithStop, StopRequested, Stopped, AsksAlso
<1>2. CASE ~StopRequested(r)
  <2>1. PICK e : e = Command(r, "stop")
    OBVIOUS
  <2>2. e \in Commands /\ e.type = "stop" /\ e.round = r
    BY <2>1 DEF Command, Commands
  <2>3. PICK log : log = Append(commands, e)
    OBVIOUS
  <2>4. /\ DOMAIN log = DOMAIN commands \cup {Len(commands) + 1}
        /\ log[Len(commands) + 1] = e
        /\ \A i \in DOMAIN commands : log[i] = commands[i]
    BY <2>2, <2>3, AppendedLog
  <2>5. WithStop(r, commands) = log
    BY <1>2, <2>1, <2>3 DEF WithStop
  <2>. QED BY <2>2, <2>4, <2>5 DEF Stopped, AsksAlso
<1>. QED BY <1>1, <1>2

\* A command that is not a Stop asks nobody to stop.
LEMMA OtherAsksNobody ==
    ASSUME NEW log \in Seq(Commands), NEW r \in Nat, NEW type \in {"authority_changed", "approval"}
    PROVE  /\ Append(log, Command(r, type)) \in Seq(Commands)
           /\ AsksTheSame(Append(log, Command(r, type)), log)
<1>1. PICK e : e = Command(r, type)
  OBVIOUS
<1>2. e \in Commands /\ e.type # "stop"
  BY <1>1 DEF Command, Commands
<1>3. PICK more : more = Append(log, e)
  OBVIOUS
<1>4. /\ more \in Seq(Commands)
      /\ DOMAIN more = DOMAIN log \cup {Len(log) + 1}
      /\ more[Len(log) + 1] = e
      /\ \A i \in DOMAIN log : more[i] = log[i]
  BY <1>2, <1>3, AppendedLog
<1>5. AsksTheSame(more, log)
  BY <1>2, <1>4 DEF Stopped, AsksTheSame
<1>. QED BY <1>1, <1>3, <1>4, <1>5

\* Nor does telling of a change of authority.
LEMMA ChangeAsksNobody ==
    ASSUME NEW log \in Seq(Commands), NEW g, OpenRounds \in SUBSET Nat
    PROVE  AsksTheSame(WithAuthorityChanged(g, log), log)
<1>1. CASE Covered(g) = {}
  BY <1>1 DEF WithAuthorityChanged, AsksTheSame
<1>2. CASE Covered(g) # {}
  <2>1. Min(Covered(g)) \in Nat
    BY <1>2, MinOfNaturals DEF Covered
  <2>. QED BY <1>2, <2>1, OtherAsksNobody DEF WithAuthorityChanged
<1>. QED BY <1>1, <1>2

\* The Rounds that are open stay the ones that are.
RoundsStay ==
    /\ DOMAIN rounds' = DOMAIN rounds
    /\ \A r \in DOMAIN rounds : Open(r)' <=> Open(r)

\* Of one Round the holder is that Round.
LEMMA HolderIsTheOne ==
    ASSUME NEW open, \A r, q \in open : r = q, NEW holder,
           holder = IF open = {} THEN 0 ELSE CHOOSE r \in open : TRUE
    PROVE  /\ \A r \in open : holder = r
           /\ open = {} => holder = 0
OBVIOUS

\* The open Round, if there is one, holds the slot.
LEMMA HolderFacts ==
    ASSUME AuthorityInv
    PROVE  /\ \A r \in OpenRounds : Holder = r
           /\ OpenRounds = {} => Holder = 0
           /\ OpenRounds \in SUBSET Nat /\ OpenRounds \subseteq DOMAIN rounds
           /\ DOMAIN rounds = 1 .. Len(rounds) /\ Len(rounds) \in Nat
BY HolderIsTheOne DEF AuthorityInv, AuthorityTypeOK, OneOpen, Holder, OpenRounds

\* The same of the next state.
LEMMA HolderFactsNext ==
    ASSUME AuthorityInv'
    PROVE  /\ \A r \in OpenRounds' : Holder' = r
           /\ OpenRounds' = {} => Holder' = 0
BY HolderIsTheOne DEF AuthorityInv, OneOpen, Holder

\* Nobody is asked to stop, or the Round that is open.
AsksTheOpenOne ==
    \/ AsksTheSame(commands', commands)
    \/ \E r \in OpenRounds : AsksAlso(commands', commands, r)

\* A step that opens and ends no Round and asks no other to stop is a step of the slot.
LEMMA StayingStep ==
    ASSUME AuthorityInv, AuthorityInv', SlotFits, RoundsStay, AsksTheOpenOne
    PROVE  [Slot!Next]_(Slot!vars) /\ SlotFits'
<1>1. OpenRounds' = OpenRounds
  BY DEF RoundsStay, OpenRounds
<1>2. Holder' = Holder
  BY <1>1, HolderFacts, HolderFactsNext
<1>3. \A r \in Nat : (StopRequested(r) <=> Stopped(commands, r))
                     /\ (StopRequested(r)' <=> Stopped(commands', r))
  BY DEF StopRequested, Stopped
<1>4. \A r \in 1 .. MaxRounds : r \in Nat
  BY AuthorityAssumption
<1>5. CASE AsksTheSame(commands', commands)
  <2>1. \A r \in Nat : StopRequested(r)' <=> StopRequested(r)
    BY <1>3, <1>5 DEF AsksTheSame
  <2>2. SlotFits'
    BY <2>1 DEF SlotFits, RoundsStay
  <2>3. \A r \in 1 .. MaxRounds : EndedAs(r)' = EndedAs(r)
    BY <1>4, <2>1 DEF EndedAs, RoundsStay
  <2>4. UNCHANGED Slot!vars
    BY <1>2, <1>4, <2>1, <2>3 DEF Slot!vars
  <2>. QED BY <2>2, <2>4
<1>6. ASSUME NEW r \in OpenRounds, AsksAlso(commands', commands, r)
      PROVE  [Slot!Next]_(Slot!vars) /\ SlotFits'
  <2>1. r \in Nat /\ r \in 1 .. MaxRounds /\ Holder = r
    BY HolderFacts DEF SlotFits
  <2>2. \A q \in Nat : StopRequested(q)' <=> StopRequested(q) \/ q = r
    BY <1>3, <1>6 DEF AsksAlso
  <2>3. SlotFits'
    BY <2>2, HolderFacts DEF SlotFits, RoundsStay
  <2>4. \A q \in 1 .. MaxRounds : EndedAs(q)' = EndedAs(q)
    BY <1>4, <2>2 DEF EndedAs, RoundsStay, OpenRounds
  <2>5. {q \in 1 .. MaxRounds : StopRequested(q)'}
            = {q \in 1 .. MaxRounds : StopRequested(q)} \cup {r}
    BY <1>4, <2>1, <2>2
  <2>6. Slot!AskToStop(r)
    BY <1>2, <2>1, <2>4, <2>5 DEF Slot!AskToStop
  <2>. QED BY <2>1, <2>3, <2>6 DEF Slot!Next
<1>. QED BY <1>5, <1>6 DEF AsksTheOpenOne

\* A claim takes the slot.
LEMMA ClaimTakes ==
    ASSUME AuthorityInv, AuthorityInv', SlotFits, NEW t \in Ticket, ClaimWork(t)
    PROVE  [Slot!Next]_(Slot!vars) /\ SlotFits'
<1>. DEFINE r == Len(rounds) + 1
<1>1. /\ DOMAIN rounds = 1 .. Len(rounds) /\ Len(rounds) \in Nat
      /\ OpenRounds = {} /\ Len(rounds) < MaxRounds /\ MaxRounds \in Nat
      /\ commands' = commands
  BY HolderFacts, AuthorityAssumption DEF ClaimWork
<1>2. r \in 1 .. MaxRounds /\ r \notin DOMAIN rounds /\ r \in Nat
  BY <1>1
<1>3. /\ DOMAIN rounds' = DOMAIN rounds \cup {r}
      /\ rounds'[r].state = "claimed" /\ \A q \in DOMAIN rounds : rounds'[q] = rounds[q]
  BY <1>1 DEF ClaimWork, AuthorityInv, AuthorityTypeOK
<1>4. OpenRounds' = {r}
  BY <1>1, <1>3 DEF OpenRounds, Open, OpenStates
<1>5. Holder = 0 /\ Holder' = r
  BY <1>1, <1>4, HolderFacts, HolderFactsNext
<1>6. \A q : StopRequested(q)' <=> StopRequested(q)
  BY <1>1 DEF StopRequested
<1>7. \A q \in 1 .. MaxRounds : EndedAs(q)' = EndedAs(q)
  BY <1>1, <1>2, <1>3, <1>4, <1>6 DEF EndedAs, OpenRounds, Open, OpenStates
<1>8. SlotFits'
  BY <1>2, <1>3, <1>6 DEF SlotFits
<1>9. EndedAs(r) = "none" /\ ~StopRequested(r)
  BY <1>2 DEF EndedAs, SlotFits
<1>10. Slot!Take(r)
  BY <1>2, <1>5, <1>6, <1>7, <1>9 DEF Slot!Take
<1>. QED BY <1>2, <1>8, <1>10 DEF Slot!Next

\* An ending gives it up.
LEMMA EndGivesUp ==
    ASSUME AuthorityInv, AuthorityInv', SlotFits, NEW r \in OpenRounds, NEW now, EndRound(r, now)
    PROVE  [Slot!Next]_(Slot!vars) /\ SlotFits'
<1>1. /\ r \in DOMAIN rounds /\ r \in 1 .. MaxRounds /\ Holder = r /\ commands' = commands
      /\ Open(r)
  BY HolderFacts DEF EndRound, SlotFits, OpenRounds
<1>2. PICK rd : rd.state = "ended" /\ rounds' = [rounds EXCEPT ![r] = rd]
  <2>1. rounds[r] \in Rounds
    BY <1>1 DEF AuthorityInv, AuthorityTypeOK
  <2>2. [LeaveRunning(rounds[r], now, "ended") EXCEPT !.ask = NoAsk].state = "ended"
    BY <2>1 DEF LeaveRunning, Rounds
  <2>. QED BY <2>2 DEF EndRound
<1>3. /\ DOMAIN rounds' = DOMAIN rounds /\ rounds'[r].state = "ended"
      /\ \A q \in DOMAIN rounds : q # r => rounds'[q] = rounds[q]
  BY <1>1, <1>2
<1>4. OpenRounds' = {}
  BY <1>1, <1>3 DEF OpenRounds, Open, OpenStates, AuthorityInv, OneOpen
<1>5. Holder' = 0
  BY <1>4, HolderFactsNext
<1>6. \A q : StopRequested(q)' <=> StopRequested(q)
  BY <1>1 DEF StopRequested
<1>7. /\ EndedAs(r)' = IF StopRequested(r) THEN "stopped" ELSE "delivered"
      /\ \A q \in 1 .. MaxRounds : q # r => EndedAs(q)' = EndedAs(q)
  BY <1>1, <1>3, <1>6 DEF EndedAs, Open, OpenStates
<1>8. SlotFits'
  BY <1>3, <1>6 DEF SlotFits
<1>9. PICK o \in {"stopped", "delivered"} : o = EndedAs(r)' /\ (o = "stopped" => StopRequested(r))
  BY <1>7
<1>10. [q \in 1 .. MaxRounds |-> EndedAs(q)']
           = [[q \in 1 .. MaxRounds |-> EndedAs(q)] EXCEPT ![r] = o]
  BY <1>1, <1>7, <1>9
<1>11. Slot!GiveUp(r, o)
  BY <1>1, <1>5, <1>6, <1>9, <1>10 DEF Slot!GiveUp
<1>. QED BY <1>1, <1>8, <1>11 DEF Slot!Next, Slot!Outcomes

\* Enforcing the limits asks nobody to stop, or the Round that is measured.
LEMMA EnforcedStays ==
    ASSUME AuthorityInv, NEW r \in OpenRounds, NEW rd \in Rounds, rd.state \in OpenStates,
           NEW now, EnforceRoundLimits(r, rd, now)
    PROVE  RoundsStay /\ AsksTheOpenOne
<1>1. /\ commands \in Seq(Commands) /\ r \in Nat /\ r \in DOMAIN rounds /\ Open(r)
  BY OpenRoundFacts DEF AuthorityInv, AuthorityTypeOK
<1>2. PICK new : new.state = rd.state /\ rounds' = [rounds EXCEPT ![r] = new]
  <2>1. \A b : [rd EXCEPT !.breach = b].state = rd.state
    BY DEF Rounds
  <2>. QED BY <2>1 DEF EnforceRoundLimits
<1>3. RoundsStay
  BY <1>1, <1>2 DEF RoundsStay, Open
<1>4. commands' = commands \/ commands' = WithStop(r, commands)
  BY DEF EnforceRoundLimits
<1>5. AsksTheOpenOne
  BY <1>1, <1>4, WithStopAsks DEF AsksTheOpenOne, AsksTheSame
<1>. QED BY <1>3, <1>5

\* A report moves the Round that is open, or ends it.
LEMMA ReportStays ==
    ASSUME AuthorityInv, NEW r \in OpenRounds, NEW now \in Reported,
           \/ ExecutionStarted(r, now) \/ Progress(r, now) \/ Resumed(r, now)
           \/ \E s \in Scope : RaisePermissionRequest(r, s, now)
    PROVE  RoundsStay /\ AsksTheOpenOne
<1>1. /\ r \in DOMAIN rounds /\ Open(r) /\ rounds[r] \in Rounds
      /\ CountsAtMost(rounds[r], clock) /\ clock \in Nat /\ now \in Nat /\ now <= clock
  BY OpenRoundFacts
<1>2. PICK run : run = EnterRunning(rounds[r], now)
  OBVIOUS
<1>3. run \in Rounds /\ run.state = "running" /\ "running" \in OpenStates
  BY <1>1, <1>2, EnterRunningFacts DEF OpenStates
<1>4. CASE ExecutionStarted(r, now)
  BY <1>2, <1>3, <1>4, EnforcedStays DEF ExecutionStarted
<1>5. CASE Progress(r, now)
  BY <1>1, <1>5, EnforcedStays DEF Progress, Open
<1>6. CASE Resumed(r, now)
  <2>1. [run EXCEPT !.ask = NoAsk] \in Rounds /\ [run EXCEPT !.ask = NoAsk].state = "running"
    BY <1>3 DEF Rounds, NoAsk, NoTime
  <2>. QED BY <1>2, <1>3, <1>6, <2>1, EnforcedStays DEF Resumed
<1>7. ASSUME NEW s \in Scope, RaisePermissionRequest(r, s, now)
      PROVE  RoundsStay /\ AsksTheOpenOne
  <2>1. PICK left : left = LeaveRunning(rounds[r], now, "waiting")
    OBVIOUS
  <2>2. left \in Rounds
    BY <1>1, <2>1, LeaveRunningFacts
  <2>3. left.state = "waiting"
    BY <1>1, <2>1 DEF LeaveRunning, Rounds
  <2>4. PICK new : new.state = "waiting" /\ rounds' = [rounds EXCEPT ![r] = new]
    <3>1. \A ask : [left EXCEPT !.ask = ask].state = "waiting"
      BY <2>2, <2>3 DEF Rounds
    <3>. QED BY <1>7, <2>1, <3>1 DEF RaisePermissionRequest
  <2>5. RoundsStay
    BY <1>1, <2>4 DEF RoundsStay, Open, OpenStates
  <2>. QED BY <1>7, <2>5 DEF RaisePermissionRequest, AsksTheOpenOne, AsksTheSame
<1>. QED BY <1>4, <1>5, <1>6, <1>7

\* So does a check, allowed or denied.
LEMMA CheckStays ==
    ASSUME AuthorityInv, NEW r \in OpenRounds, NEW s \in Scope, NEW now \in Received,
           CheckAuthority(r, s, now)
    PROVE  RoundsStay /\ AsksTheOpenOne
<1>1. rounds[r] \in Rounds /\ rounds[r].state = "running" /\ "running" \in OpenStates
  BY OpenRoundFacts DEF CheckAuthority, OpenStates
<1>2. PICK candidates : candidates = Authorizing(rounds[r].ticket, s, now)
  OBVIOUS
<1>3. PICK denied : denied = [rounds[r] EXCEPT !.streak = @ + 1]
  OBVIOUS
<1>4. PICK allowed : allowed = [rounds[r] EXCEPT !.streak = 0,
                                    !.allowedOn = @ \cup {ChosenGrant(candidates)}]
  OBVIOUS
<1>5. CASE candidates = {}
  <2>1. EnforceRoundLimits(r, denied, now)
    BY <1>2, <1>3, <1>5 DEF CheckAuthority
  <2>2. rounds[r].streak + 1 \in Nat
    BY <1>1 DEF Rounds
  <2>3. denied \in Rounds /\ denied.state = "running"
    BY <1>1, <1>3, <2>2 DEF Rounds
  <2>. QED BY <1>1, <2>1, <2>3, EnforcedStays
<1>6. CASE candidates # {}
  <2>1. EnforceRoundLimits(r, allowed, now)
    BY <1>2, <1>4, <1>6 DEF CheckAuthority
  <2>2. candidates \in SUBSET Nat
    BY <1>2 DEF Authorizing, AuthorityInv, AuthorityTypeOK
  <2>3. ChosenGrant(candidates) \in Nat
    BY <1>6, <2>2, ChosenIsOne
  <2>4. allowed \in Rounds /\ allowed.state = "running"
    BY <1>1, <1>4, <2>3 DEF Rounds
  <2>. QED BY <1>1, <2>1, <2>4, EnforcedStays
<1>. QED BY <1>5, <1>6

\* The Owner's decision of a Permission request ends no Round and stops none.
LEMMA DecideStays ==
    ASSUME AuthorityInv, NEW r \in OpenRounds, Decide(r)
    PROVE  RoundsStay /\ AsksTheOpenOne
<1>1. /\ r \in DOMAIN rounds /\ r \in Nat /\ rounds[r] \in Rounds
      /\ commands \in Seq(Commands) /\ OpenRounds \in SUBSET Nat
  BY OpenRoundFacts, HolderFacts DEF AuthorityInv, AuthorityTypeOK
<1>2. ASSUME NEW d, rounds' = [rounds EXCEPT ![r].ask.decision = d]
      PROVE  RoundsStay
  <2>1. PICK new : new.state = rounds[r].state /\ rounds' = [rounds EXCEPT ![r] = new]
    BY <1>1, <1>2 DEF Rounds
  <2>. QED BY <1>1, <2>1 DEF RoundsStay, Open
<1>3. CASE DeclinePermissionRequest(r)
  BY <1>2, <1>3 DEF DeclinePermissionRequest, AsksTheOpenOne, AsksTheSame
<1>4. ASSUME NEW form, NEW full, NEW e, NEW now, ApprovePermissionRequest(r, form, full, e, now)
      PROVE  RoundsStay /\ AsksTheOpenOne
  <2>1. PICK log : log = Append(commands, Command(r, "approval"))
    OBVIOUS
  <2>2. log \in Seq(Commands) /\ AsksTheSame(log, commands)
    BY <1>1, <2>1, OtherAsksNobody
  <2>3. PICK g : commands' = WithAuthorityChanged(g, log)
    BY <1>4, <2>1 DEF ApprovePermissionRequest
  <2>4. AsksTheSame(commands', log)
    BY <1>1, <2>2, <2>3, ChangeAsksNobody
  <2>5. AsksTheOpenOne
    BY <2>2, <2>4 DEF AsksTheSame, AsksTheOpenOne
  <2>. QED BY <1>2, <1>4, <2>5 DEF ApprovePermissionRequest
<1>. QED BY <1>3, <1>4 DEF Decide

\* A revocation stops the open Round the grant covers, if it covers one.
LEMMA RevokeStays ==
    ASSUME AuthorityInv, NEW g \in DOMAIN grants, NEW now, RevokePermissionGrant(g, now)
    PROVE  RoundsStay /\ AsksTheOpenOne
<1>1. commands \in Seq(Commands) /\ OneStop(commands) /\ OpenRounds \in SUBSET Nat
  BY HolderFacts DEF AuthorityInv, AuthorityTypeOK
<1>2. PICK covered : covered = Covered(grants[g])
  OBVIOUS
<1>3. PICK log : log = IF covered = {} THEN commands ELSE WithStop(Min(covered), commands)
  OBVIOUS
<1>4. commands' = WithAuthorityChanged(grants[g], log) /\ rounds' = rounds
  BY <1>2, <1>3 DEF RevokePermissionGrant
<1>5. RoundsStay
  BY <1>4 DEF RoundsStay, Open
<1>6. CASE covered = {}
  <2>1. AsksTheSame(commands', commands)
    BY <1>1, <1>3, <1>4, <1>6, ChangeAsksNobody
  <2>. QED BY <1>5, <2>1 DEF AsksTheOpenOne
<1>7. CASE covered # {}
  <2>1. Min(covered) \in OpenRounds /\ Min(covered) \in Nat
    BY <1>1, <1>2, <1>7, MinOfNaturals DEF Covered
  <2>2. log \in Seq(Commands) /\ AsksAlso(log, commands, Min(covered))
    BY <1>1, <1>3, <1>7, <2>1, IssuedStop, WithStopAsks
  <2>3. AsksTheSame(commands', log)
    BY <1>1, <1>4, <2>2, ChangeAsksNobody
  <2>4. AsksAlso(commands', commands, Min(covered))
    BY <2>2, <2>3 DEF AsksTheSame, AsksAlso
  <2>. QED BY <1>5, <2>1, <2>4 DEF AsksTheOpenOne
<1>. QED BY <1>6, <1>7

\* What the runner acknowledges, and the time that passes, leave Rounds and Stops alone.
LEMMA OthersStay ==
    ASSUME AuthorityInv,
           \/ \E t \in Ticket : FinishTicket(t) \/ ReopenTicket(t)
           \/ \E r \in OpenRounds : RequestStop(r)
           \/ \E g \in DOMAIN grants, now \in Received : RevokeExpiredGrant(g, now)
           \/ \E c \in DOMAIN commands, outcome \in {"applied", "ignored"} :
                 AcknowledgeRoundCommand(c, outcome)
           \/ Advance
           \/ UNCHANGED vars
    PROVE  RoundsStay /\ AsksTheOpenOne
<1>1. commands \in Seq(Commands) /\ OpenRounds \in SUBSET Nat
  BY HolderFacts DEF AuthorityInv, AuthorityTypeOK
<1>2. ASSUME rounds' = rounds PROVE RoundsStay
  BY <1>2 DEF RoundsStay, Open
<1>3. ASSUME commands' = commands PROVE AsksTheOpenOne
  BY <1>3 DEF AsksTheOpenOne, AsksTheSame
<1>4. ASSUME NEW t \in Ticket, FinishTicket(t) \/ ReopenTicket(t)
      PROVE  rounds' = rounds /\ commands' = commands
  BY <1>4 DEF FinishTicket, ReopenTicket
<1>5. ASSUME NEW r \in OpenRounds, RequestStop(r)
      PROVE  rounds' = rounds /\ AsksTheOpenOne
  BY <1>1, <1>5, WithStopAsks DEF RequestStop, AsksTheOpenOne
<1>6. ASSUME NEW g \in DOMAIN grants, NEW now, RevokeExpiredGrant(g, now)
      PROVE  rounds' = rounds /\ commands' = commands
  BY <1>6 DEF RevokeExpiredGrant
<1>7. ASSUME NEW c \in DOMAIN commands, NEW outcome, AcknowledgeRoundCommand(c, outcome)
      PROVE  rounds' = rounds /\ AsksTheOpenOne
  <2>1. /\ rounds' = rounds
        /\ commands' = [commands EXCEPT ![c] = [commands[c] EXCEPT !.ack = outcome]]
    BY <1>7 DEF AcknowledgeRoundCommand
  <2>2. \A d \in DOMAIN commands : commands[d] \in Commands
    BY <1>1
  <2>3. /\ DOMAIN commands' = DOMAIN commands
        /\ \A d \in DOMAIN commands : /\ commands'[d].round = commands[d].round
                                      /\ commands'[d].type = commands[d].type
    BY <2>1, <2>2 DEF Commands
  <2>4. AsksTheSame(commands', commands)
    BY <2>3 DEF AsksTheSame, Stopped
  <2>. QED BY <2>1, <2>4 DEF AsksTheOpenOne
<1>8. CASE Advance
  <2>1. /\ commands' = commands /\ DOMAIN rounds' = DOMAIN rounds
        /\ \A r \in DOMAIN rounds : rounds[r] \in Rounds
        /\ \A r \in DOMAIN rounds :
              rounds'[r] \in {rounds[r], [rounds[r] EXCEPT !.ran = @ + 1]}
    BY <1>8 DEF Advance, AuthorityInv, AuthorityTypeOK
  <2>2. \A rd \in Rounds : [rd EXCEPT !.ran = @ + 1].state = rd.state
    BY DEF Rounds
  <2>3. \A r \in DOMAIN rounds : rounds'[r].state = rounds[r].state
    BY <2>1, <2>2
  <2>4. RoundsStay
    BY <2>1, <2>3 DEF RoundsStay, Open
  <2>. QED BY <1>3, <2>1, <2>4
<1>9. CASE UNCHANGED vars
  BY <1>2, <1>3, <1>9 DEF vars
<1>. QED BY <1>2, <1>3, <1>4, <1>5, <1>6, <1>7, <1>8, <1>9

\* Galley starts with the slot free and nobody asked to stop.
LEMMA AuthoritySlotInit == Init => Slot!Init /\ SlotFits
<1>. SUFFICES ASSUME Init PROVE Slot!Init /\ SlotFits
  OBVIOUS
<1>1. rounds = <<>> /\ commands = <<>> /\ OpenRounds = {}
  BY DEF Init, OpenRounds
<1>2. Holder = 0 /\ \A r : ~StopRequested(r) /\ EndedAs(r) = "none"
  BY <1>1 DEF Holder, StopRequested, EndedAs
<1>. QED BY <1>1, <1>2 DEF Slot!Init, SlotFits

\* Every step of the detailed specification is a step of the slot or leaves it alone.
LEMMA AuthoritySlotStep ==
    AuthorityInv /\ AuthorityInv' /\ SlotFits /\ [Next]_vars
        => [Slot!Next]_(Slot!vars) /\ SlotFits'
<1>. SUFFICES ASSUME AuthorityInv, AuthorityInv', SlotFits, [Next]_vars
              PROVE  [Slot!Next]_(Slot!vars) /\ SlotFits'
  OBVIOUS
<1>1. ASSUME NEW t \in Ticket, ClaimWork(t)
      PROVE  [Slot!Next]_(Slot!vars) /\ SlotFits'
  BY <1>1, ClaimTakes
<1>2. ASSUME NEW r \in OpenRounds, NEW now \in Reported, EndRound(r, now)
      PROVE  [Slot!Next]_(Slot!vars) /\ SlotFits'
  BY <1>2, EndGivesUp
<1>3. ASSUME NEW r \in OpenRounds, NEW now \in Reported,
             \/ ExecutionStarted(r, now) \/ Progress(r, now) \/ Resumed(r, now)
             \/ \E s \in Scope : RaisePermissionRequest(r, s, now)
      PROVE  [Slot!Next]_(Slot!vars) /\ SlotFits'
  BY <1>3, ReportStays, StayingStep
<1>4. ASSUME NEW r \in OpenRounds,
             Decide(r) \/ \E s \in Scope, now \in Received : CheckAuthority(r, s, now)
      PROVE  [Slot!Next]_(Slot!vars) /\ SlotFits'
  BY <1>4, CheckStays, DecideStays, StayingStep
<1>5. ASSUME NEW now \in Received, RunnerHeartbeat(now)
      PROVE  [Slot!Next]_(Slot!vars) /\ SlotFits'
  <2>1. PICK r \in OpenRounds : EnforceRoundLimits(r, rounds[r], now)
    BY <1>5 DEF RunnerHeartbeat
  <2>2. rounds[r] \in Rounds /\ rounds[r].state \in OpenStates
    BY OpenRoundFacts DEF Open
  <2>. QED BY <2>1, <2>2, EnforcedStays, StayingStep
<1>6. ASSUME NEW g \in DOMAIN grants, NEW now \in Received, RevokePermissionGrant(g, now)
      PROVE  [Slot!Next]_(Slot!vars) /\ SlotFits'
  BY <1>6, RevokeStays, StayingStep
<1>7. CASE \/ \E t \in Ticket : FinishTicket(t) \/ ReopenTicket(t)
           \/ \E r \in OpenRounds : RequestStop(r)
           \/ \E g \in DOMAIN grants, now \in Received : RevokeExpiredGrant(g, now)
           \/ \E c \in DOMAIN commands, outcome \in {"applied", "ignored"} :
                 AcknowledgeRoundCommand(c, outcome)
           \/ Advance
           \/ UNCHANGED vars
  BY <1>7, OthersStay, StayingStep
<1>. QED BY <1>1, <1>2, <1>3, <1>4, <1>5, <1>6, <1>7 DEF Next, Report

\* Grants, checks, limits and commands keep what the one execution slot promises: a Round
\* takes it when it is free, and whatever asks for a Stop - the Owner, a revocation, a
\* limit measured by a report, a check or a heartbeat - asks the Round that holds it, and
\* none that has ended (round_limits.go, grant_revocation.go, rounds.go).
THEOREM AuthorityImplementsSlot == Spec => SlotSpec
<1>1. Init => Slot!Init /\ SlotFits
  BY AuthoritySlotInit
<1>2. AuthorityInv /\ AuthorityInv' /\ SlotFits /\ [Next]_vars
          => [Slot!Next]_(Slot!vars) /\ SlotFits'
  BY AuthoritySlotStep
<1>. QED BY <1>1, <1>2, AuthorityInvariant, PTL DEF Spec, SlotSpec, Slot!Spec

-----------------------------------------------------------------------------
(* The runner's commands: the invariant.                                   *)

\* A command that is a Stop, and one that answers question q.
IsStop(c) == c \in Ids /\ roundCommands[c].type = "stop"
IsAnswerTo(c, q) == c \in Ids /\ roundCommands[c].type = "answer" /\ roundCommands[c].of = q

\* What waits for the engine was answered, what it acknowledges it has carried out,
\* and the outcome is the one its last event told.
EngineFits ==
    /\ \A c \in Ids : roundCommands[c].type = "answer" => roundCommands[c].of # 0
    /\ \A q \in inbox : \E c \in Ids : IsAnswerTo(c, q)
    /\ stop.command # 0 => IsStop(stop.command)
    /\ engine.at \in {"resuming", "acknowledging"} => \E c \in Ids : IsAnswerTo(c, engine.question)
    /\ engine.at = "acknowledging" => round.resumed >= engine.question
    /\ engine.at \in {"asking", "waiting", "resuming", "acknowledging"} => RoundOpen
    /\ engine.at = "delivering" => round.outcome # "stopped"
    /\ engine.at = "stopping" => round.outcome # "delivered"
    /\ engine.at = "confirming" => round.outcome = "stopped" /\ stop.command # 0

\* A batch has its Stops first.
StopsFirst(batch) ==
    \A i, j \in DOMAIN batch : i < j /\ IsStop(batch[j]) => IsStop(batch[i])

\* What the loop acknowledges asked nothing of the engine, and no Stop waits behind it.
LoopFits ==
    /\ loop.at = "pulled" => StopsFirst(loop.batch)
    /\ loop.at = "acknowledging" =>
          /\ loop.batch # <<>> /\ AcknowledgedByTheLoop(Head(loop.batch))
          /\ NoStopBehindAnAcknowledgement

CommandsInv == CommandsTypeOK /\ EngineFits /\ LoopFits /\ AppliedWasDone

\* The types that the type invariant's conjuncts are told apart by.
CommandRow == [type: Types, of: 0 .. Questions, applied: BOOLEAN]
LoopStates == [at: {"sleeping", "pulled", "acknowledging", "ended"},
               batch: Seq(Ids), seen: SUBSET Ids]
RoundStates == [asked: 0 .. Questions, answered: 0 .. Questions, resumed: 0 .. Questions,
                outcome: {"none", "delivered", "stopped"}]
EngineStates == [at: {"asking", "waiting", "resuming", "acknowledging",
                      "delivering", "stopping", "confirming", "gone"}, question: 0 .. Questions]

\* The invariant's facts, one by one.
LEMMA CommandsFacts ==
    ASSUME CommandsInv
    PROVE  /\ round \in RoundStates /\ roundCommands \in Seq(CommandRow) /\ loop \in LoopStates
           /\ inbox \subseteq 1 .. Questions /\ stop \in [raised: BOOLEAN, command: Ids \cup {0}]
           /\ engine \in EngineStates
           /\ Ids = 1 .. Len(roundCommands) /\ Len(roundCommands) \in Nat
           /\ \A c \in Ids : roundCommands[c] \in CommandRow
           /\ Questions \in Nat
<1>1. /\ round \in RoundStates /\ roundCommands \in Seq(CommandRow) /\ loop \in LoopStates
      /\ inbox \subseteq 1 .. Questions /\ stop \in [raised: BOOLEAN, command: Ids \cup {0}]
      /\ engine \in EngineStates
  BY DEF CommandsInv, CommandsTypeOK, RoundStates, CommandRow, LoopStates, EngineStates
<1>2. Ids = 1 .. Len(roundCommands) /\ Len(roundCommands) \in Nat
  BY <1>1 DEF Ids
<1>3. \A c \in Ids : roundCommands[c] \in CommandRow
  BY <1>1, <1>2
<1>. QED BY <1>1, <1>2, <1>3, CommandsAssumption

\* What later steps keep of the commands there are.
CommandsGrow ==
    /\ roundCommands' \in Seq(CommandRow) /\ Ids \subseteq Ids'
    /\ \A c \in Ids : /\ roundCommands'[c].type = roundCommands[c].type
                      /\ roundCommands'[c].of = roundCommands[c].of

LEMMA IssueGrows ==
    ASSUME CommandsInv, NEW type \in Types, NEW of \in 0 .. Questions, Issue(type, of)
    PROVE  /\ CommandsGrow
           /\ \E c \in Ids' \ Ids : /\ roundCommands'[c] = [type |-> type, of |-> of, applied |-> FALSE]
                                    /\ Ids' = Ids \cup {c}
           /\ \A c \in Ids : roundCommands'[c] = roundCommands[c]
<1>. DEFINE new == [type |-> type, of |-> of, applied |-> FALSE]
<1>1. new \in CommandRow
  BY DEF CommandRow
<1>2. roundCommands \in Seq(CommandRow) /\ roundCommands' = Append(roundCommands, new)
  BY CommandsFacts DEF Issue
<1>. HIDE DEF new
<1>3. /\ roundCommands' \in Seq(CommandRow)
      /\ DOMAIN roundCommands' = DOMAIN roundCommands \cup {Len(roundCommands) + 1}
      /\ Len(roundCommands) + 1 \notin DOMAIN roundCommands
      /\ roundCommands'[Len(roundCommands) + 1] = new
      /\ \A c \in DOMAIN roundCommands : roundCommands'[c] = roundCommands[c]
  BY <1>1, <1>2
<1>. QED BY <1>3 DEF Ids, CommandsGrow, new

LEMMA AcknowledgementGrows ==
    ASSUME CommandsInv, NEW c \in Ids, RecordAcknowledgement(c)
    PROVE  /\ CommandsGrow /\ Ids' = Ids
           /\ \A d \in Ids \ {c} : roundCommands'[d] = roundCommands[d]
<1>1. \A d \in Ids : roundCommands[d] \in CommandRow
  BY CommandsFacts
<1>2. [roundCommands[c] EXCEPT !.applied = TRUE] \in CommandRow
  BY <1>1 DEF CommandRow
<1>3. /\ Ids' = Ids /\ \A d \in Ids \ {c} : roundCommands'[d] = roundCommands[d]
      /\ roundCommands'[c] = [roundCommands[c] EXCEPT !.applied = TRUE]
  BY CommandsFacts DEF RecordAcknowledgement, Ids
<1>4. roundCommands' \in Seq(CommandRow)
  BY <1>2, CommandsFacts DEF RecordAcknowledgement
<1>5. /\ roundCommands'[c].type = roundCommands[c].type
      /\ roundCommands'[c].of = roundCommands[c].of
  BY <1>1, <1>3 DEF CommandRow
<1>. QED BY <1>3, <1>4, <1>5 DEF CommandsGrow

\* Commands that stay what they are, or are added to, keep what was said of them.
LEMMA GrowthKeeps ==
    ASSUME CommandsInv, CommandsGrow, UNCHANGED <<loop, inbox, stop, engine>>, AppliedWasDone',
           round' \in RoundStates, round'.resumed = round.resumed, round'.outcome = round.outcome,
           \A c \in Ids' \ Ids : roundCommands'[c].type = "answer" => roundCommands'[c].of # 0
    PROVE  CommandsInv'
<1>1. /\ \A c : IsStop(c) => IsStop(c)'
      /\ \A c, q : IsAnswerTo(c, q) => IsAnswerTo(c, q)'
      /\ \A c \in Ids : IsStop(c)' => IsStop(c)
  BY DEF CommandsGrow, IsStop, IsAnswerTo
<1>2. CommandsTypeOK'
  <2>0. Seq(Ids) \subseteq Seq(Ids')
    BY SeqMonotonic DEF CommandsGrow
  <2>1. loop.batch \in Seq(Ids') /\ loop.seen \in SUBSET (Ids')
    BY <2>0, CommandsFacts DEF CommandsGrow, LoopStates
  <2>2. /\ loop' \in [at: {"sleeping", "pulled", "acknowledging", "ended"},
                      batch: Seq(Ids'), seen: SUBSET (Ids')]
        /\ stop' \in [raised: BOOLEAN, command: Ids' \cup {0}]
    BY <2>1, CommandsFacts DEF CommandsGrow, LoopStates
  <2>. QED BY <2>2 DEF CommandsInv, CommandsTypeOK, CommandsGrow, CommandRow, RoundStates
<1>3. EngineFits'
  BY <1>1 DEF CommandsInv, EngineFits, RoundOpen, CommandsGrow
<1>4. \A i \in DOMAIN loop.batch : loop.batch[i] \in Ids
  BY CommandsFacts DEF LoopStates
<1>5. LoopFits'
  <2>1. CASE loop.at = "pulled"
    BY <1>1, <1>4, <2>1 DEF CommandsInv, LoopFits, StopsFirst
  <2>2. CASE loop.at = "acknowledging"
    <3>1. loop.batch # <<>> /\ Head(loop.batch) \in Ids
      BY <2>2, CommandsFacts DEF LoopStates, CommandsInv, LoopFits
    <3>2. AcknowledgedByTheLoop(Head(loop.batch))'
      BY <2>2, <3>1 DEF CommandsInv, LoopFits, AcknowledgedByTheLoop, CommandsGrow
    <3>3. NoStopBehindAnAcknowledgement'
      BY <1>4, <2>2 DEF CommandsInv, LoopFits, NoStopBehindAnAcknowledgement, CommandsGrow
    <3>. QED BY <2>2, <3>1, <3>2, <3>3 DEF LoopFits
  <2>. QED BY <2>1, <2>2 DEF LoopFits
<1>. QED BY <1>2, <1>3, <1>5 DEF CommandsInv

\* Steps that leave the commands alone.
LEMMA SameCommands ==
    ASSUME CommandsInv, UNCHANGED roundCommands
    PROVE  /\ Ids' = Ids /\ \A c : IsStop(c)' = IsStop(c)
           /\ \A c, q : IsAnswerTo(c, q)' = IsAnswerTo(c, q)
           /\ \A c : AcknowledgedByTheLoop(c)' = AcknowledgedByTheLoop(c)
BY DEF Ids, IsStop, IsAnswerTo, AcknowledgedByTheLoop

\* The loop hands over what it has not seen, up to what it acknowledges.
LEMMA HandleFacts ==
    ASSUME CommandsInv, NEW batch \in Seq(Ids), Handle(batch)
    PROVE  /\ UNCHANGED <<round, roundCommands, engine>>
           /\ \/ loop' \in LoopStates /\ loop'.at = "sleeping"
              \/ \E next \in 1 .. Len(batch) :
                    /\ AcknowledgedByTheLoop(batch[next])
                    /\ loop' \in LoopStates /\ loop'.at = "acknowledging"
                    /\ loop'.batch = SubSeq(batch, next, Len(batch))
           /\ \A q \in inbox' : q \in inbox \/ \E c \in Ids : IsAnswerTo(c, q)
           /\ \/ stop' = stop
              \/ \E c \in Ids : IsStop(c) /\ stop' = StopRaisedBy(c)
<1>. DEFINE tested == {i \in 1 .. Len(batch) : batch[i] \notin loop.seen /\ AcknowledgedByTheLoop(batch[i])}
            next == SelectInSeq(batch, LAMBDA c : c \notin loop.seen /\ AcknowledgedByTheLoop(c))
            handled == {batch[i] : i \in IF next = 0 THEN DOMAIN batch ELSE 1 .. next - 1} \ loop.seen
            stops == {c \in handled : roundCommands[c].type = "stop"}
            answers == {c \in handled : roundCommands[c].type = "answer"}
<1>1. /\ loop' = IF next = 0
                THEN [at |-> "sleeping", batch |-> <<>>, seen |-> loop.seen \cup handled]
                ELSE [at |-> "acknowledging", batch |-> SubSeq(batch, next, Len(batch)),
                      seen |-> loop.seen \cup handled \cup {batch[next]}]
      /\ inbox' = Delivered({roundCommands[c].of : c \in answers})
      /\ stop' = IF stops = {} THEN stop ELSE StopRaisedBy(CHOOSE c \in stops : TRUE)
      /\ UNCHANGED <<round, roundCommands, engine>>
  BY DEF Handle
<1>2. next = IF tested # {} THEN Min(tested) ELSE 0
  BY DEF SelectInSeq
<1>. HIDE DEF next
<1>3. Len(batch) \in Nat /\ \A i \in 1 .. Len(batch) : batch[i] \in Ids
  OBVIOUS
<1>4. next = 0 \/ (next \in 1 .. Len(batch) /\ AcknowledgedByTheLoop(batch[next]))
  <2>1. tested \in SUBSET Nat
    OBVIOUS
  <2>. QED BY <1>2, <2>1, MinOfNaturals
<1>5. handled \subseteq Ids
  BY <1>3, <1>4
<1>. HIDE DEF handled, tested
<1>6. loop.seen \subseteq Ids
  BY CommandsFacts DEF LoopStates
<1>7. next = 0 => loop' \in LoopStates /\ loop'.at = "sleeping"
  BY <1>1, <1>5, <1>6 DEF LoopStates
<1>8. ASSUME next # 0
      PROVE  /\ loop' \in LoopStates /\ loop'.at = "acknowledging"
             /\ loop'.batch = SubSeq(batch, next, Len(batch))
  <2>1. SubSeq(batch, next, Len(batch)) \in Seq(Ids)
    BY <1>3, <1>4, <1>8, SubSeqProperties
  <2>. QED BY <1>1, <1>3, <1>4, <1>5, <1>6, <1>8, <2>1 DEF LoopStates
<1>9. \A q \in inbox' : q \in inbox \/ \E c \in Ids : IsAnswerTo(c, q)
  BY <1>1, <1>5 DEF Delivered, IsAnswerTo
<1>10. stop' = stop \/ \E c \in Ids : IsStop(c) /\ stop' = StopRaisedBy(c)
  BY <1>1, <1>5 DEF IsStop
<1>. QED BY <1>1, <1>4, <1>7, <1>8, <1>9, <1>10

\* The Stop that was raised first stays the one that is acknowledged.
LEMMA RaisedFacts ==
    ASSUME CommandsInv, NEW c \in Ids, IsStop(c)
    PROVE  /\ StopRaisedBy(c) \in [raised: BOOLEAN, command: Ids \cup {0}]
           /\ StopRaisedBy(c).command # 0 /\ IsStop(StopRaisedBy(c).command)
<1>1. stop \in [raised: BOOLEAN, command: Ids \cup {0}] /\ c # 0
      /\ (stop.command # 0 => IsStop(stop.command))
  BY CommandsFacts DEF CommandsInv, EngineFits
<1>. QED BY <1>1 DEF StopRaisedBy

\* Nothing the loop hands over, or keeps, breaks the invariant.
LEMMA HandleKept ==
    ASSUME CommandsInv, NEW batch \in Seq(Ids), StopsFirst(batch), Handle(batch)
    PROVE  CommandsInv'
<1>1. /\ UNCHANGED <<round, roundCommands, engine>> /\ Ids' = Ids /\ loop' \in LoopStates
      /\ \A c : IsStop(c)' = IsStop(c) /\ \A q : IsAnswerTo(c, q)' = IsAnswerTo(c, q)
  BY HandleFacts, SameCommands
<1>2. /\ stop' \in [raised: BOOLEAN, command: Ids \cup {0}]
      /\ stop'.command # 0 => IsStop(stop'.command)
      /\ stop.command # 0 => stop'.command # 0
  BY HandleFacts, RaisedFacts, CommandsFacts DEF CommandsInv, EngineFits
<1>3. inbox' \subseteq 1 .. Questions /\ \A q \in inbox' : \E c \in Ids : IsAnswerTo(c, q)
  <2>1. ASSUME NEW c \in Ids, NEW q, IsAnswerTo(c, q) PROVE q \in 1 .. Questions
    BY <2>1, CommandsFacts DEF IsAnswerTo, CommandRow, CommandsInv, EngineFits
  <2>. QED BY <2>1, HandleFacts, CommandsFacts DEF CommandsInv, EngineFits
<1>4. CommandsTypeOK'
  BY <1>1, <1>2, <1>3 DEF CommandsInv, CommandsTypeOK, LoopStates
<1>5. EngineFits' /\ AppliedWasDone'
  BY <1>1, <1>2, <1>3 DEF CommandsInv, EngineFits, RoundOpen, AppliedWasDone
<1>6. LoopFits'
  <2>1. CASE loop'.at = "sleeping"
    BY <2>1 DEF LoopFits
  <2>2. ASSUME NEW next \in 1 .. Len(batch), AcknowledgedByTheLoop(batch[next]),
               loop'.at = "acknowledging", loop'.batch = SubSeq(batch, next, Len(batch))
        PROVE  LoopFits'
    <3>1. Len(batch) \in Nat /\ \A i \in 1 .. Len(batch) : batch[i] \in Ids
      OBVIOUS
    <3>2. /\ loop'.batch \in Seq(Ids) /\ Len(loop'.batch) = Len(batch) - next + 1
          /\ \A i \in 1 .. Len(loop'.batch) : loop'.batch[i] = batch[next + i - 1]
      BY <2>2, <3>1, SubSeqProperties
    <3>3. loop'.batch # <<>> /\ Head(loop'.batch) = batch[next]
      BY <3>1, <3>2
    <3>4. ~IsStop(batch[next])
      BY <2>2 DEF AcknowledgedByTheLoop, IsStop
    <3>5. \A i \in 1 .. Len(loop'.batch) : ~IsStop(loop'.batch[i])
      <4>. SUFFICES ASSUME NEW i \in 1 .. Len(loop'.batch), IsStop(batch[next + i - 1]) PROVE FALSE
        BY <3>2
      <4>1. next + i - 1 \in 1 .. Len(batch) /\ (i = 1 \/ next < next + i - 1)
        BY <3>1, <3>2
      <4>. QED BY <3>4, <4>1 DEF StopsFirst
    <3>6. \A i \in DOMAIN loop'.batch : roundCommands'[loop'.batch[i]].type # "stop"
      BY <1>1, <3>2, <3>5 DEF IsStop
    <3>7. AcknowledgedByTheLoop(Head(loop'.batch)) = AcknowledgedByTheLoop(Head(loop.batch))'
      BY <1>1, SameCommands DEF AcknowledgedByTheLoop
    <3>. QED BY <2>2, <3>3, <3>6, <3>7 DEF LoopFits, NoStopBehindAnAcknowledgement
  <2>. QED BY <2>1, <2>2, HandleFacts
<1>. QED BY <1>4, <1>5, <1>6 DEF CommandsInv

\* A pull's answer has its Stops first.
LEMMA PulledInOrder ==
    ASSUME CommandsInv, NEW batch \in SetToSeqs(PendingRoundCommands), InOrder(batch)
    PROVE  batch \in Seq(Ids) /\ StopsFirst(batch)
<1>1. PendingRoundCommands \subseteq Ids /\ IsFiniteSet(Ids)
  BY CommandsFacts, FS_Interval DEF PendingRoundCommands
<1>2. Cardinality(PendingRoundCommands) \in Nat
  BY <1>1, FS_Subset, FS_CardinalityType
<1>3. batch \in [1 .. Cardinality(PendingRoundCommands) -> PendingRoundCommands]
  BY DEF SetToSeqs
<1>4. batch \in Seq(Ids)
  BY <1>1, <1>2, <1>3
<1>5. StopsFirst(batch)
  <2>. SUFFICES ASSUME NEW i \in DOMAIN batch, NEW j \in DOMAIN batch, i < j, IsStop(batch[j])
                PROVE  IsStop(batch[i])
    BY DEF StopsFirst
  <2>1. batch[i] \in Ids /\ Precedes(batch[i], batch[j])
    BY <1>4 DEF InOrder
  <2>. QED BY <2>1 DEF Precedes, IsStop
<1>. QED BY <1>4, <1>5

-----------------------------------------------------------------------------
(* The invariant, action by action.                                        *)

LEMMA CommandsInvInit == CommandsInit => CommandsInv
<1>. SUFFICES ASSUME CommandsInit PROVE CommandsInv
  OBVIOUS
<1>1. Ids = {} /\ CommandsTypeOK
  BY CommandsAssumption DEF CommandsInit, CommandsTypeOK, Ids
<1>2. EngineFits /\ LoopFits /\ AppliedWasDone
  BY <1>1, CommandsAssumption DEF CommandsInit, EngineFits, LoopFits, AppliedWasDone, RoundOpen
<1>. QED BY <1>1, <1>2 DEF CommandsInv

\* What is issued to an open Round is not yet applied.
LEMMA IssuedKept ==
    ASSUME CommandsInv, NEW type \in Types, NEW of \in 0 .. Questions, Issue(type, of),
           type = "answer" => of # 0,
           round' = round \/ \E q \in 0 .. Questions : round' = [round EXCEPT !.answered = q],
           UNCHANGED <<loop, inbox, stop, engine>>
    PROVE  CommandsInv'
<1>1. PICK c \in Ids' \ Ids :
          /\ CommandsGrow /\ Ids' = Ids \cup {c}
          /\ roundCommands'[c] = [type |-> type, of |-> of, applied |-> FALSE]
          /\ \A d \in Ids : roundCommands'[d] = roundCommands[d]
  BY IssueGrows
<1>2. /\ round' \in RoundStates /\ round'.resumed = round.resumed /\ round'.outcome = round.outcome
  BY CommandsFacts DEF RoundStates
<1>3. AppliedWasDone'
  BY <1>1, <1>2 DEF CommandsInv, AppliedWasDone
<1>4. \A d \in Ids' \ Ids : roundCommands'[d].type = "answer" => roundCommands'[d].of # 0
  BY <1>1
<1>. QED BY <1>1, <1>2, <1>3, <1>4, GrowthKeeps

LEMMA GalleyIssuesKept ==
    ASSUME CommandsInv, IssueStop \/ AnnounceAuthorityChange \/ AnswerQuestion
    PROVE  CommandsInv'
<1>1. {"stop", "authority_changed", "answer"} \subseteq Types /\ 0 \in 0 .. Questions
  BY CommandsFacts DEF Types
<1>2. CASE IssueStop
  BY <1>1, <1>2, IssuedKept DEF IssueStop
<1>3. CASE AnnounceAuthorityChange
  BY <1>1, <1>3, IssuedKept DEF AnnounceAuthorityChange
<1>4. CASE AnswerQuestion
  <2>1. round.asked \in 0 .. Questions /\ round.asked # 0
    BY <1>4, CommandsFacts DEF AnswerQuestion, RoundStates
  <2>. QED BY <1>1, <1>4, <2>1, IssuedKept DEF AnswerQuestion
<1>. QED BY <1>2, <1>3, <1>4

\* An acknowledgement of what was carried out.
LEMMA AcknowledgedKept ==
    ASSUME CommandsInv, NEW c \in Ids, RecordAcknowledgement(c),
           roundCommands[c].type = "answer" => round.resumed >= roundCommands[c].of,
           roundCommands[c].type = "stop" => round.outcome = "stopped",
           UNCHANGED <<round, loop, inbox, stop, engine>>
    PROVE  CommandsInv'
<1>1. CommandsGrow /\ Ids' = Ids /\ \A d \in Ids \ {c} : roundCommands'[d] = roundCommands[d]
  BY AcknowledgementGrows
<1>2. AppliedWasDone'
  BY <1>1 DEF CommandsInv, AppliedWasDone, CommandsGrow
<1>. QED BY <1>1, <1>2, GrowthKeeps, CommandsFacts

LEMMA LoopKept ==
    ASSUME CommandsInv, Pull \/ PullFails \/ PullAnswered \/ LoopAcknowledges \/ LoopAcknowledged
    PROVE  CommandsInv'
<1>1. CASE Pull
  <2>1. PICK batch \in SetToSeqs(PendingRoundCommands) :
            InOrder(batch) /\ loop' = [loop EXCEPT !.at = "pulled", !.batch = batch]
    BY <1>1 DEF Pull
  <2>2. batch \in Seq(Ids) /\ StopsFirst(batch)
    BY <2>1, PulledInOrder
  <2>3. loop' \in LoopStates /\ loop'.at = "pulled" /\ loop'.batch = batch
    BY <2>1, <2>2, CommandsFacts DEF LoopStates
  <2>4. UNCHANGED <<round, roundCommands, inbox, stop, engine>>
    BY <1>1 DEF Pull
  <2>5. CommandsTypeOK' /\ EngineFits' /\ AppliedWasDone'
    BY <2>3, <2>4 DEF CommandsInv, CommandsTypeOK, EngineFits, AppliedWasDone, LoopStates, Ids,
                      RoundOpen, IsAnswerTo, IsStop
  <2>6. LoopFits'
    BY <2>2, <2>3, <2>4 DEF LoopFits, StopsFirst, IsStop, Ids
  <2>. QED BY <2>5, <2>6 DEF CommandsInv
<1>2. CASE PullFails
  <2>1. loop' \in LoopStates /\ loop'.at = "sleeping"
    BY <1>2, CommandsFacts, EmptySeq DEF PullFails, LoopStates
  <2>. QED BY <1>2, <2>1
       DEF PullFails, CommandsInv, CommandsTypeOK, EngineFits, AppliedWasDone, LoopStates, Ids,
           RoundOpen, IsAnswerTo, IsStop, LoopFits
<1>3. CASE PullAnswered
  BY <1>3, HandleKept, CommandsFacts DEF PullAnswered, LoopStates, CommandsInv, LoopFits
<1>4. CASE LoopAcknowledges
  <2>1. loop.batch # <<>> /\ loop.batch \in Seq(Ids) /\ AcknowledgedByTheLoop(Head(loop.batch))
    BY <1>4, CommandsFacts DEF LoopAcknowledges, CommandsInv, LoopFits, LoopStates
  <2>2. Head(loop.batch) \in Ids
    BY <2>1
  <2>. QED BY <1>4, <2>1, <2>2, AcknowledgedKept DEF LoopAcknowledges, AcknowledgedByTheLoop
<1>5. CASE LoopAcknowledged
  <2>1. loop.batch # <<>> /\ loop.batch \in Seq(Ids) /\ NoStopBehindAnAcknowledgement
    BY <1>5, CommandsFacts DEF LoopAcknowledged, CommandsInv, LoopFits, LoopStates
  <2>2. Tail(loop.batch) \in Seq(Ids) /\ Len(loop.batch) \in Nat
        /\ \A i \in DOMAIN Tail(loop.batch) :
              i + 1 \in DOMAIN loop.batch /\ Tail(loop.batch)[i] = loop.batch[i + 1]
    BY <2>1
  <2>3. StopsFirst(Tail(loop.batch))
    BY <1>5, <2>1, <2>2 DEF StopsFirst, IsStop, NoStopBehindAnAcknowledgement, LoopAcknowledged
  <2>. QED BY <1>5, <2>2, <2>3, HandleKept DEF LoopAcknowledged
<1>. QED BY <1>1, <1>2, <1>3, <1>4, <1>5

\* What the engine reports is the outcome, or more than was reported before.
LEMMA RecordEventKept == ASSUME CommandsInv, RecordEvent PROVE CommandsInv'
<1>1. /\ UNCHANGED <<roundCommands, loop, inbox, stop, engine>>
      /\ engine.at \in {"asking", "resuming", "delivering", "stopping"} /\ ~EventRecorded
      /\ engine.question \in 0 .. Questions /\ round \in RoundStates
  BY CommandsFacts DEF RecordEvent, EngineStates
<1>2. /\ round' \in RoundStates /\ round'.resumed >= round.resumed
      /\ round.outcome = "stopped" => round'.outcome = "stopped"
      /\ engine.at \in {"asking", "resuming"} => round'.outcome = round.outcome
      /\ engine.at = "delivering" => round'.outcome = "delivered"
      /\ engine.at = "stopping" => round'.outcome = "stopped"
  <2>1. CASE engine.at = "asking"
    BY <1>1, <2>1, CommandsFacts DEF RecordEvent, RoundStates
  <2>2. CASE engine.at = "resuming"
    <3>1. round' = [round EXCEPT !.resumed = engine.question]
      BY <1>1, <2>2 DEF RecordEvent
    <3>2. ~(round.resumed >= engine.question)
      BY <1>1, <2>2 DEF EventRecorded
    <3>3. Questions \in Nat /\ round.resumed \in 0 .. Questions
      BY <1>1, CommandsFacts DEF RoundStates
    <3>4. round' \in RoundStates /\ round'.resumed = engine.question /\ round'.outcome = round.outcome
      BY <1>1, <3>1 DEF RoundStates
    <3>5. engine.question >= round.resumed
      BY <1>1, <3>2, <3>3
    <3>. QED BY <2>2, <3>4, <3>5
  <2>3. CASE engine.at = "delivering"
    BY <1>1, <2>3, CommandsFacts DEF RecordEvent, RoundStates, CommandsInv, EngineFits
  <2>4. CASE engine.at = "stopping"
    BY <1>1, <2>4, CommandsFacts DEF RecordEvent, RoundStates
  <2>. QED BY <1>1, <2>1, <2>2, <2>3, <2>4
<1>3. CommandsTypeOK'
  BY <1>1, <1>2 DEF CommandsInv, CommandsTypeOK, RoundStates, Ids
<1>4. EngineFits'
  BY <1>1, <1>2, SameCommands DEF CommandsInv, EngineFits, RoundOpen
<1>5. LoopFits'
  BY <1>1 DEF CommandsInv, LoopFits, StopsFirst, IsStop, Ids, AcknowledgedByTheLoop,
             NoStopBehindAnAcknowledgement
<1>6. AppliedWasDone'
  <2>1. ASSUME NEW c \in Ids, roundCommands[c].type = "answer", round.resumed >= roundCommands[c].of
        PROVE  round'.resumed >= roundCommands[c].of
    BY <1>1, <1>2, <2>1, CommandsFacts DEF CommandRow, RoundStates
  <2>. QED BY <1>1, <1>2, <2>1 DEF CommandsInv, AppliedWasDone, Ids
<1>. QED BY <1>3, <1>4, <1>5, <1>6 DEF CommandsInv

\* Steps of the engine that leave the Round and its commands alone.
LEMMA EngineMoves ==
    ASSUME CommandsInv, UNCHANGED <<round, roundCommands>>, inbox' \subseteq inbox,
           engine' \in EngineStates,
           stop' = stop \/ \E c \in Ids : IsStop(c) /\ stop' = StopRaisedBy(c),
           UNCHANGED loop \/ (loop' \in LoopStates /\ loop'.at = "ended"),
           EngineFits'
    PROVE  CommandsInv'
<1>1. CommandsTypeOK'
  <2>1. stop' \in [raised: BOOLEAN, command: Ids \cup {0}] /\ loop' \in LoopStates
    BY CommandsFacts, RaisedFacts
  <2>. QED BY <2>1 DEF CommandsInv, CommandsTypeOK, LoopStates, EngineStates, Ids
<1>2. LoopFits' /\ AppliedWasDone'
  BY DEF CommandsInv, LoopFits, AppliedWasDone, StopsFirst, IsStop, Ids, AcknowledgedByTheLoop,
         NoStopBehindAnAcknowledgement
<1>. QED BY <1>1, <1>2 DEF CommandsInv

LEMMA EventAnsweredKept == ASSUME CommandsInv, EventAnswered PROVE CommandsInv'
<1>1. /\ UNCHANGED <<round, roundCommands, inbox, stop>> /\ EventRecorded
      /\ engine \in EngineStates
  BY CommandsFacts DEF EventAnswered
<1>2. CASE engine.at = "asking" /\ engine' = At("waiting") /\ UNCHANGED loop
  <2>1. engine' \in EngineStates /\ engine'.at = "waiting"
    BY <1>1, <1>2 DEF EngineStates, At
  <2>2. EngineFits'
    BY <1>1, <1>2, <2>1, SameCommands DEF CommandsInv, EngineFits, RoundOpen
  <2>. QED BY <1>1, <1>2, <2>1, <2>2, EngineMoves
<1>3. CASE engine.at = "resuming" /\ engine' = At("acknowledging") /\ UNCHANGED loop
  <2>1. engine' \in EngineStates /\ engine'.at = "acknowledging" /\ engine'.question = engine.question
    BY <1>1, <1>3 DEF EngineStates, At
  <2>2. round.resumed >= engine.question
    BY <1>1, <1>3 DEF EventRecorded
  <2>3. EngineFits'
    BY <1>1, <1>3, <2>1, <2>2, SameCommands DEF CommandsInv, EngineFits, RoundOpen
  <2>. QED BY <1>1, <1>3, <2>1, <2>3, EngineMoves
<1>4. ASSUME NEW at \in {"gone", "confirming"}, Ends(at),
             at = "confirming" => round.outcome = "stopped" /\ stop.command # 0
      PROVE  CommandsInv'
  <2>1. engine' \in EngineStates /\ engine'.at = at
    BY <1>1, <1>4 DEF EngineStates, Ends, At
  <2>2. loop' \in LoopStates /\ loop'.at = "ended"
    BY <1>4, CommandsFacts, EmptySeq DEF Ends, LoopStates
  <2>3. EngineFits'
    BY <1>1, <1>4, <2>1, SameCommands DEF CommandsInv, EngineFits, RoundOpen
  <2>. QED BY <1>1, <2>1, <2>2, <2>3, EngineMoves
<1>5. CASE engine.at = "delivering" /\ Ends("gone")
  BY <1>4, <1>5
<1>6. CASE engine.at = "stopping" /\ Ends(IF stop.command = 0 THEN "gone" ELSE "confirming")
  <2>1. round.outcome = "stopped"
    BY <1>1, <1>6 DEF EventRecorded
  <2>. QED BY <1>4, <1>6, <2>1
<1>. QED BY <1>2, <1>3, <1>5, <1>6 DEF EventAnswered

LEMMA WakeKept == ASSUME CommandsInv, Wake PROVE CommandsInv'
<1>1. /\ UNCHANGED <<round, roundCommands, loop, stop>> /\ inbox' \subseteq inbox
      /\ engine.at = "waiting" /\ RoundOpen /\ engine \in EngineStates
  BY CommandsFacts DEF Wake, CommandsInv, EngineFits
<1>2. \/ engine' = At("stopping")
      \/ engine' = At("resuming") /\ engine.question \in inbox
  BY DEF Wake
<1>3. /\ engine' \in EngineStates /\ engine'.question = engine.question
      /\ \/ engine'.at = "stopping"
         \/ engine'.at = "resuming" /\ engine.question \in inbox
  BY <1>1, <1>2 DEF EngineStates, At
<1>4. EngineFits'
  BY <1>1, <1>3, SameCommands DEF CommandsInv, EngineFits, RoundOpen
<1>. QED BY <1>1, <1>3, <1>4, EngineMoves

LEMMA StopByReconcileKept == ASSUME CommandsInv, StopByReconcile PROVE CommandsInv'
<1>1. /\ UNCHANGED <<round, roundCommands, loop, inbox>> /\ RoundOpen /\ engine \in EngineStates
      /\ IsStop(TheStop) /\ TheStop \in Ids /\ stop' = StopRaisedBy(TheStop)
  BY CommandsFacts DEF StopByReconcile, StopIssued, TheStop, IsStop
<1>2. stop'.command # 0 /\ IsStop(stop'.command)
  BY <1>1, RaisedFacts
<1>3. engine' = engine \/ (engine' \in EngineStates /\ engine'.at = "stopping")
  BY <1>1 DEF StopByReconcile, EngineStates, At
<1>4. EngineFits'
  BY <1>1, <1>2, <1>3, SameCommands DEF CommandsInv, EngineFits, RoundOpen
<1>. QED BY <1>1, <1>3, <1>4, EngineMoves

\* What the engine acknowledges is the answer it resumed on or the Stop it confirmed.
LEMMA ToAcknowledgeFacts ==
    ASSUME CommandsInv, engine.at \in {"acknowledging", "confirming"}
    PROVE  \/ IsAnswerTo(ToAcknowledge, engine.question) /\ round.resumed >= engine.question
           \/ IsStop(ToAcknowledge) /\ round.outcome = "stopped"
<1>1. CASE engine.at = "acknowledging"
  <2>1. \E c \in Ids : roundCommands[c].type = "answer" /\ roundCommands[c].of = engine.question
    BY <1>1 DEF CommandsInv, EngineFits, IsAnswerTo
  <2>2. IsAnswerTo(TheAnswer, engine.question)
    BY <2>1 DEF TheAnswer, IsAnswerTo
  <2>. QED BY <1>1, <2>2 DEF ToAcknowledge, CommandsInv, EngineFits
<1>2. CASE engine.at = "confirming"
  BY <1>2 DEF ToAcknowledge, CommandsInv, EngineFits
<1>. QED BY <1>1, <1>2

LEMMA EngineAcknowledgesKept == ASSUME CommandsInv, EngineAcknowledges PROVE CommandsInv'
<1>1. /\ RecordAcknowledgement(ToAcknowledge) /\ UNCHANGED <<round, loop, inbox, stop, engine>>
      /\ engine.at \in {"acknowledging", "confirming"}
  BY DEF EngineAcknowledges
<1>. QED BY <1>1, ToAcknowledgeFacts, AcknowledgedKept DEF IsAnswerTo, IsStop

LEMMA EngineAcknowledgedKept == ASSUME CommandsInv, EngineAcknowledged PROVE CommandsInv'
<1>1. UNCHANGED <<round, roundCommands, loop, inbox, stop>> /\ engine \in EngineStates
  BY CommandsFacts DEF EngineAcknowledged
<1>2. \/ engine' \in EngineStates /\ engine'.at = "gone"
      \/ /\ engine.at = "acknowledging" /\ engine' \in EngineStates
         /\ engine'.at \in {"stopping", "delivering", "asking"}
  <2>1. CASE engine.at = "acknowledging"
    <3>1. engine' = NextStep
      BY <2>1 DEF EngineAcknowledged
    <3>2. engine.question \in 0 .. Questions /\ Questions \in Nat
      BY <1>1, CommandsFacts DEF EngineStates
    <3>. QED BY <1>1, <2>1, <3>1, <3>2 DEF NextStep, At, EngineStates
  <2>2. CASE engine.at = "confirming"
    BY <1>1, <2>2 DEF EngineAcknowledged, At, EngineStates
  <2>. QED BY <2>1, <2>2 DEF EngineAcknowledged
<1>3. EngineFits'
  BY <1>1, <1>2, SameCommands DEF CommandsInv, EngineFits, RoundOpen
<1>. QED BY <1>1, <1>2, <1>3, EngineMoves

-----------------------------------------------------------------------------
(* Theorems.                                                               *)

LEMMA CommandsInvStep == CommandsInv /\ [CommandsNext]_commandVars => CommandsInv'
<1>. SUFFICES ASSUME CommandsInv, [CommandsNext]_commandVars PROVE CommandsInv'
  OBVIOUS
<1>1. CASE UNCHANGED commandVars
  <2>1. engine' \in EngineStates /\ EngineFits'
    BY <1>1, CommandsFacts, SameCommands DEF commandVars, CommandsInv, EngineFits, RoundOpen
  <2>. QED BY <1>1, <2>1, EngineMoves DEF commandVars
<1>. QED BY <1>1, GalleyIssuesKept, LoopKept, RecordEventKept, EventAnsweredKept, WakeKept,
            StopByReconcileKept, EngineAcknowledgesKept, EngineAcknowledgedKept
     DEF CommandsNext

\* The inductive invariant holds in every behaviour of a Round's commands.
THEOREM CommandsInvariant == CommandsSpec => []CommandsInv
<1>. QED BY CommandsInvInit, CommandsInvStep, PTL DEF CommandsSpec

\* Whatever is pulled, repeated or acknowledged twice, a command that is applied was
\* carried out (commandLoop.ts, engine.ts, round_commands.go).
THEOREM AppliedWasDoneHolds == CommandsSpec => []AppliedWasDone
<1>1. CommandsInv => AppliedWasDone
  BY DEF CommandsInv
<1>. QED BY <1>1, CommandsInvariant, PTL

\* No Stop the loop has pulled waits behind an acknowledgement it repeats, for any
\* number of questions and of changes of authority (commandLoop.ts).
THEOREM NoStopBehindAnAcknowledgementHolds == CommandsSpec => []NoStopBehindAnAcknowledgement
<1>1. CommandsInv => NoStopBehindAnAcknowledgement
  BY DEF CommandsInv, LoopFits, NoStopBehindAnAcknowledgement
<1>. QED BY <1>1, CommandsInvariant, PTL
=============================================================================
