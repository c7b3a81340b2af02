\* The circuit takes a user cancel back.
CONSTANTS
    r1 = r1
    r2 = r2
    w1 = w1
    w2 = w2
    RunIds = {r1}
    NoRun = NoRun
    Revisions <- MCRevisions
    NoRevision = NoRevision
    MaxAttempts = 3
    MaxLostRecoveries = 2
    Runners = {w1, w2}
    NoRunner = NoRunner
    Version <- MixedFleet
    Submittable = {r1}
    SubmitSpecs <- PlainOnly
    Requests = {"cancel"}
    RunnerOutcomes <- FewOutcomes
    LineageDepth = 3
    Zombies = FALSE
    MaxGenerations = 2
    MaxFills = 1
    ControlPlane = TRUE
SPECIFICATION PauseSpec
PROPERTIES
    CancelledNotHandedOut
