SPECIFICATION Spec
CONSTANTS
    Ticket = {t1}
    ReviewedPr = {}
    Round = {r1}
    Runner = {n1, n2}
    Ask = {a1, a2}
    NoAsk = NoAsk
    NotPaired = NotPaired
    NoTicket = NoTicket
    NoRound = NoRound
    Assignees = {"none", "research", "coding"}
    Inputs = {"goal", "repository"}
    Limits = {"wall_clock"}
    MaxEpoch = 2
SYMMETRY Symmetry
CONSTRAINT OneRoundBound
INVARIANTS
    FirstCauseNamesTheOutcome
    UnknownExecutionStaysFlagged
    ReadyAgentHasItsInputs
    WaitsOnItsOwnAsk
PROPERTIES
    StopOutranksTheAnswer
