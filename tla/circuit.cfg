\* A resilient run waits in the queue for a new build.
CONSTANTS
    r1 = r1
    r2 = r2
    w1 = w1
    w2 = w2
    RunIds = {r1}
    NoRun = NoRun
    Revisions <- MCRevisions
    NoRevision = NoRevision
    MaxAttempts = 3
    MaxLostRecoveries = 2
    Runners = {w1, w2}
    NoRunner = NoRunner
    Version <- MixedFleet
    Submittable = {r1}
    SubmitSpecs <- BothProfiles
    Requests = {"cancel", "flag", "delete", "pause"}
    RunnerOutcomes <- CircuitOutcomes
    LineageDepth = 3
    Zombies = FALSE
    MaxGenerations = 1
    MaxFills = 1
    ControlPlane = TRUE
SPECIFICATION PollingSpec
PROPERTIES
    CircuitWaitsForBuild
