SPECIFICATION Spec
CONSTANTS
    Ticket = {t1, t2, t3}
    NoTicket = NoTicket
    Spacing = 2
    Assignable = {t1, t2}
    Archivable = {t1}
    RanksBelow = 2
    RanksAbove = 6
CONSTRAINT OneAside
INVARIANTS
    ReorderFindsRoom
PROPERTIES
    OrderSpec
    ClaimTakesTheFirst
