\* An endless run that was flagged when its worker is force-ended.
CONSTANTS
    r1 = r1
    r2 = r2
    w1 = w1
    w2 = w2
    RunIds = {r1, r2}
    NoRun = NoRun
    Unseen = Unseen
    Revisions = {}
    NoRevision = NoRevision
    MaxAttempts = 2
    MaxLostRecoveries = 1
    Runners = {w1}
    NoRunner = NoRunner
    Version <- OneRunner
    Submittable = {r1}
    SubmitSpecs <- EndlessOnly
    Requests = {"flag"}
    RunnerOutcomes <- ErrorOnly
    LineageDepth = 3
    Zombies = FALSE
    MaxGenerations = 1
    MaxFills = 1
SPECIFICATION WorkerSpec
PROPERTIES
    ForceEndIsTerminal
