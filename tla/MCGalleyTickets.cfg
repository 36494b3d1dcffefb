SPECIFICATION Spec
CONSTANTS
    Ticket = {t1, t2}
    ReviewedPr = {}
    Round = {r1, r2}
    Runner = {n1}
    Ask = {}
    NoAsk = NoAsk
    NotPaired = NotPaired
    NoTicket = NoTicket
    NoRound = NoRound
    Assignees = {"none", "research"}
    Inputs = {"goal"}
    Limits = {}
    MaxEpoch = 2
SYMMETRY Symmetry
CONSTRAINT TwoTicketsBound
INVARIANTS
    OneOpenRound
    OpenRoundHoldsItsTicket
PROPERTIES
    OnlyItsRoundMovesTheTicket
    SlotSpec
