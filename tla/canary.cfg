\* Two runs of one circuit, a canary and its peer.
CONSTANTS
    r1 = r1
    r2 = r2
    w1 = w1
    w2 = w2
    RunIds = {r1, r2}
    NoRun = NoRun
    Revisions <- MCRevisions
    NoRevision = NoRevision
    MaxAttempts = 1
    MaxLostRecoveries = 1
    Runners = {w1, w2}
    NoRunner = NoRunner
    Version <- MixedFleet
    Submittable = {r1, r2}
    SubmitSpecs <- PlainOnly
    Requests = {}
    RunnerOutcomes <- DoneOrStuck
    LineageDepth = 3
    Zombies = FALSE
    MaxGenerations = 1
    MaxFills = 1
    ControlPlane = TRUE
SPECIFICATION PauseSpec
INVARIANTS
    OneCanary
