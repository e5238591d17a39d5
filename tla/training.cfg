SPECIFICATION Spec
CONSTANTS
    Budget = 2
    Milestones <- AllMilestones
    SelectInitial = FALSE
    Modes = {"greedy", "sample"}
    Sample = "sample"
    Periodic <- BothEpisodes
    PlanChoices <- BothPlans
    Costs = {1, 2}
    MaxCrashes = 2
    None = None
INVARIANTS
    Recovers
    OneModelPerEpisode
    MilestonesJudged
    FinalIsBest
