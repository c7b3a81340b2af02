\* Crashes, lost leases, lost reports, errors and restarts of the wall exhaust
\* the retry budgets.
CONSTANTS
    r1 = r1
    w1 = w1
    w2 = w2
    NoRun = NoRun
    NoRevision = NoRevision
    NoRunner = NoRunner
    RunIds = {r1}
    Revisions = {}
    MaxAttempts = 2
    MaxLostRecoveries = 1
    Runners = {w1, w2}
    Version <- Unversioned
    Submittable = {r1}
    SubmitSpecs <- PlainOnly
    Requests = {"cancel", "flag", "delete"}
    RunnerOutcomes <- DoneOrError
    LineageDepth = 3
    Zombies = FALSE
    MaxGenerations = 3
    MaxFills = 2
    MaxRestarts = 2
    j1 = j1
    p1 = p1
    p2 = p2
    RenderJobIds = {j1}
    ReplayWorkers = {p1, p2}
    NoReplayWorker = NoReplayWorker
    MaxJobs <- OneSlotEach
    MaxFaults = 1
    c1 = c1
    c2 = c2
    Candidates = {c1, c2}
    Format <- BothEpisodes
    MaxPubFaults = 1
    o1 = o1
    Occurrences = {o1}
    Fresh = {}
    NoOccurrence = NoOccurrence
    MaxTriage = 1
    MaxIssueFaults = 1
    h1 = h1
    h2 = h2
    m1 = m1
    m2 = m2
    HostedRuns = {h1, h2}
    NoHostedRun = NoHostedRun
    Deployments = {m1, m2}
    NoDeployment = NoDeployment
    DeploymentOf <- OneOfEachModel
    ParallelLimit <- OneRunEach
    MaxPlays <- PlayedOnce
    Mishaps = {"late", "restart"}
    MaxHostFaults = 1
SPECIFICATION EndsSpec
INVARIANTS
    PlayedIsSaved
PROPERTIES
    
    UnownedStops
    
    UploadsEnd
    FailuresAreTold
    HostLeasesEnd
