\* An endless run and its successors, two runners; resubmission of the first
\* one.
CONSTANTS
    r1 = r1
    r2 = r2
    r3 = r3
    w1 = w1
    w2 = w2
    RunIds = {r1, r2, r3}
    NoRun = NoRun
    Revisions = {}
    NoRevision = NoRevision
    MaxAttempts = 2
    MaxLostRecoveries = 2
    Runners = {w1, w2}
    NoRunner = NoRunner
    Version <- Unversioned
    Submittable = {r1}
    SubmitSpecs <- ChainSpecs
    Requests = {"cancel", "flag", "delete"}
    RunnerOutcomes <- DoneOrStopped
    LineageDepth = 1
    Zombies = FALSE
    MaxGenerations = 1
    MaxFills = 2
SYMMETRY SuccessorSymmetry
SPECIFICATION Spec
INVARIANTS
    OneLivePerChain
    LineageKept
    ExclusiveLease
    QueueIsExact
PROPERTIES
    CancelIsFinal
    ImplementsLeaseBook
