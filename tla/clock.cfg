SPECIFICATION ClockSpec
CONSTANTS
    j1 = j1
    j2 = j2
    m1 = m1
    v1 = v1
    v2 = v2
    Jobs = {j1, j2}
    Machines = {m1}
    Vehicles = {v1, v2}
    Release <- TwoReleases
    Outages <- TwoOutages
    Durations = {2, 5}
    ReevaluateTicks = 3
    TickLimit = 9
CHECK_DEADLOCK FALSE
INVARIANTS
    NothingOvershot
PROPERTIES
    OnTime
    RetryOnTime
