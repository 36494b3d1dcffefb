SPECIFICATION MichelinSafety
CONSTANTS
    Ticket = {t1}
    ReviewedPr = {}
    Round = {r1}
    Runner = {n1}
    Ask = {1, 2, 3}
    NoAsk = 0
    NotPaired = NotPaired
    NoTicket = NoTicket
    NoRound = NoRound
    Assignees = {"none", "research"}
    Inputs = {"goal"}
    Limits = {}
    MaxEpoch = 1
    Me = n1
    Script <- FailScript
    MaxRestarts = 1
    LateClaims = TRUE
    Lossy = {"beat", "claim", "reconcile", "event", "check"}
INVARIANTS
    StrandedRoundIsAttestable
