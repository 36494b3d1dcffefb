SPECIFICATION MCSpec
CONSTANTS
    s1 = s1
    s2 = s2
    Controls = {"action", "badge", "save", "panel", "dialog"}
    MaxVersion = 3
    MaxLosses = 1
    MaxPending = 1
    Shelf = {s1, s2}
    Opening <- MCOpening
    MaxChanges = 4
    MaxMishaps = 1
    MaxHealth = 2
INVARIANTS
    RefreshNeverUndoesACommand
    TypedForWhatIsShown
    ListNeverUndoesACommand
PROPERTIES
    AwaitedTicketCatchesUp
    OwnReorderIsShown
    NeverOlderThanTold
CHECK_DEADLOCK FALSE
