\* A pause request whose runner dies ends the run.
CONSTANTS
    r1 = r1
    r2 = r2
    w1 = w1
    w2 = w2
    RunIds = {r1}
    NoRun = NoRun
    Revisions = {}
    NoRevision = NoRevision
    MaxAttempts = 3
    MaxLostRecoveries = 2
    Runners = {w1, w2}
    NoRunner = NoRunner
    Version <- Unversioned
    Submittable = {r1}
    SubmitSpecs <- PlainOnly
    Requests = {"pause"}
    RunnerOutcomes <- FewOutcomes
    LineageDepth = 3
    Zombies = FALSE
    MaxGenerations = 1
    MaxFills = 1
    ControlPlane = FALSE
SPECIFICATION PauseFairSpec
PROPERTIES
    PauseTakesEffect
