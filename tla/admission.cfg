CONSTANTS
    n1 = n1
    n2 = n2
    s1 = s1
    Keys <- ThreeKeys
    Charge <- Sizes
    MaxCharge = 2
    Journals <- SmallJournals
    Hosts = {1, 2, 3}
    FirstJournal <- Plenty
    FirstHost = 3
    MaxEdits = 1
    MaxCrashes = 1
SPECIFICATION FairSpec
INVARIANTS
    WorkersHaveSlots
PROPERTIES
    GrantsWithinJournal
    NoOvertaking
    RequestServed
