\* One run that fails again and again and is paused for it, over resumes, cancels,
\* force-ends, evictions and a restart, its runner outliving its generations; no
\* control plane.
CONSTANTS
    r1 = r1
    w1 = w1
    RunIds = {r1}
    NoRun = NoRun
    Unseen = Unseen
    Revisions = {}
    NoRevision = NoRevision
    MaxAttempts = 3
    MaxLostRecoveries = 2
    Runners = {w1}
    NoRunner = NoRunner
    Version <- OneRunner
    Submittable = {r1}
    SubmitSpecs <- PlainOnly
    Requests = {"cancel", "delete"}
    RunnerOutcomes <- ErrorOnly
    LineageDepth = 3
    Zombies = TRUE
    MaxGenerations = 2
    MaxFills = 1
    MaxRestarts = 1
    ControlPlane = FALSE
SPECIFICATION FarmSpec
INVARIANTS
    FarmTypeOK
    NoClaimAhead
PROPERTIES
    PausedIsKept
    NeverGivenStays
