SPECIFICATION FairSpec
CONSTANTS
    q1 = q1
    t1 = t1
    t2 = t2
    None = None
    Source = Source
    Queues <- OneQueue
    Tasks <- TwoTasks
    Trainings <- FirstTrains
    MaxDrives = 1
    MaxKills = 1
    MaxCrashes = 1
    MaxOrders = 1
INVARIANTS
    OneDriver
    ClaimHeld
PROPERTIES
    ClaimReturned
    ReturnedSettled
