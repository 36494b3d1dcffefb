SPECIFICATION MCSpec
CONSTANTS
    t1 = t1
    t2 = t2
    Ticket = {t1, t2}
    Scope = {"push"}
    FullAccess = "full"
    MaxActive = 2
    MaxDenials = 2
    MaxTerm = 2
    MaxLag = 1
    MaxClock = 2
    MaxRounds = 2
    MaxGrants = 1
    MaxStreak = 2
    Questions = 2
    MaxNews = 2
SYMMETRY Symmetry
CONSTRAINT SmallHistory
INVARIANTS
    RevokedGrantStopsItsRounds
    LimitsMeasureTheRound
    AppliedWasDone
    NoStopBehindAnAcknowledgement
CHECK_DEADLOCK FALSE
