CONSTANTS
    j1 = j1
    j2 = j2
    j3 = j3
    j4 = j4
    m1 = m1
    m2 = m2
    v1 = v1
    v2 = v2
    in1 = in1
    out1 = out1
    pre1 = pre1
    post1 = post1
    pre2 = pre2
    post2 = post2
    None = None
    EmptyWait = EmptyWait
    Vehicles = {v1, v2}
    Inputs = {in1}
    Outputs = {out1}
    OpTypes = {"a", "b"}
    Jobs = {j1, j2}
    Machines = {m1, m2}
    Pre <- PairPre
    Post <- PairPost
    Capacity <- PairCapacity
    Route <- LiveRoute
    Capable <- LiveCapable
    InputOf <- LiveInputOf
    Rank <- LiveRank
    Outages <- PairOutages
    AllowStop = TRUE
    AllowEmptyWait = TRUE
SPECIFICATION FairSpec
PROPERTIES
    NegotiationEnds
    ReservationServed
    EveryJobShipped
