\* Runners that outlive their generation, one run.
CONSTANTS
    r1 = r1
    r2 = r2
    r3 = r3
    w1 = w1
    w2 = w2
    RunIds = {r1}
    NoRun = NoRun
    Revisions = {}
    NoRevision = NoRevision
    MaxAttempts = 2
    MaxLostRecoveries = 2
    Runners = {w1, w2}
    NoRunner = NoRunner
    Version <- Unversioned
    Submittable = {r1}
    SubmitSpecs <- NoEndless
    Requests = {"cancel", "flag", "delete"}
    RunnerOutcomes <- MidOutcomes
    LineageDepth = 3
    Zombies = TRUE
    MaxGenerations = 2
    MaxFills = 1
SPECIFICATION WedgedSpec
INVARIANTS
    NoStrandedRun
    RetryBudgetsHold
PROPERTIES
    FinishedIsFinal
    GenerationsAdvance
    
    FlagEndsGeneration
