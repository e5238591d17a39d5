CONSTANTS
    t1 = t1
    t2 = t2
    c1 = c1
    c2 = c2
    c3 = c3
    Batch = Batch
    TaskIds = {t1, t2}
    CommandIds = {c1, c2, c3}
    Payloads <- TaskPayloads
    Present = {t1}
    InitialLimit = 1
    MaxLimit = 2
    KeepOpen = FALSE
    Owned = TRUE
    Trainings = {}
    MaxInterrupts = 1
SPECIFICATION Spec
SYMMETRY Symmetry
INVARIANTS
    HoldsExplained
    NothingLeftBehind
PROPERTIES
    DecidedInOrder
    ConfirmedMeansExited
    StartsAreAdmitted
