SPECIFICATION Spec
CONSTANTS
    Budget = 2
    Milestones <- AllMilestones
    SelectInitial = FALSE
    Modes = {"greedy", "sample"}
    Sample = "sample"
    Periodic <- BothEpisodes
    PlanChoices <- BestOnly
    Costs = {1, 2}
    MaxCrashes = 1
    None = None
INVARIANTS
    Resumable
