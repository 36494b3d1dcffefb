SPECIFICATION MCSpec
CONSTANTS
    b1 = b1
    t1 = t1
    m1 = m1
    tick = tick
    Scopes = {"git.commit", "git.push", "pulls.read", "pulls.write"}
    Tickets = {tick}
    LedgerRounds = {1, 2}
    BridgeCalls = {b1}
    ToolCalls = {t1}
    ModelCalls = {m1}
    RequestOf <- MCRequestOf
    HoldMaxAttempts = 1
    Chunks = 1
    MaxGrants = 2
    MaxClock = 1
    TicketId = tick
    MaxRounds = 2
    MaxCommits = 2
    Answers = {"yes", "no"}
    MaxLaunches = 4
    Generations = {1, 2}
    UsageRounds = {1, 2}
    Tokens <- MCTokens
    Costs <- MCTokens
    MaxDeaths = 1
INVARIANTS
    LedgerTellsWhatRan
    EndedGrantStaysEnded
    DoneRestsOnAMerge
    DeliveredWorkWasPushed
    EffectOncePerAnswer
    RoundKeepsItsInputs
    TotalsTellTheirGaps
PROPERTIES
    NativeStartsOnALiveGrant
    HeldCallsSettle
CHECK_DEADLOCK FALSE
