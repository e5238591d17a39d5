CONSTANTS
    t1 = t1
    t2 = t2
    c1 = c1
    c2 = c2
    c3 = c3
    Batch = Batch
    TaskIds = {t1}
    CommandIds = {c1, c2}
    Payloads <- StopPayloads
    Present = {t1}
    InitialLimit = 1
    MaxLimit = 2
    KeepOpen = FALSE
    Owned = TRUE
    Trainings = {t1}
    MaxInterrupts = 0
SPECIFICATION Spec
INVARIANTS
    CompletedMeansDone
