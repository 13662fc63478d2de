SPECIFICATION FairSpec
CONSTANTS
    MaxCampaigns = 3
    Curricula <- Lines
    Robot <- Robots3
    Undeclared = "undeclared"
    MaxBranches = 1
    Budget = 2
    Window = 2
    Scores = {2}
    Sigma = 0
    MaxCuts = 1
INVARIANTS
    StageIsEarned
    MorphologyHolds
    StagnationIsOfTheStage
PROPERTIES
    PromotedStageStarts
