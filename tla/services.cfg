\* Render jobs, publication, issue delivery, challenge programming, model hosts.
CONSTANTS
    j1 = j1
    p1 = p1
    p2 = p2
    RenderJobIds = {j1}
    ReplayWorkers = {p1, p2}
    NoReplayWorker = NoReplayWorker
    MaxJobs <- SlotsOfWorkers
    MaxFaults = 1
    c1 = c1
    c2 = c2
    Candidates = {c1, c2}
    Format <- BothEpisodes
    MaxPubFaults = 2
    o1 = o1
    o2 = o2
    Occurrences = {o1, o2}
    Fresh = {o2}
    NoOccurrence = NoOccurrence
    MaxTriage = 1
    MaxIssueFaults = 1
    s1 = s1
    s2 = s2
    v1 = v1
    a = a
    SlotIds = {s1, s2}
    NoSlot = NoSlot
    VoteIds = {v1}
    NoVoteId = NoVoteId
    Choices = {a}
    Repeats = {TRUE}
    MaxLaunches = 2
    MaxProgramFaults = 1
    h1 = h1
    h2 = h2
    h3 = h3
    m1 = m1
    m2 = m2
    HostedRuns = {h1, h2, h3}
    NoHostedRun = NoHostedRun
    Deployments = {m1, m2}
    NoDeployment = NoDeployment
    DeploymentOf <- TwoOfOneModel
    ParallelLimit <- OneRunEach
    MaxPlays <- RetriedOnce
    Mishaps = {}
    MaxHostFaults = 1
SPECIFICATION ServicesSpec
SYMMETRY Alike
INVARIANTS
    ServicesTypeOK
    ReadyIsStored
    AcknowledgedIsSaved
    OneVideoPerCandidate
    PublishingIsLive
    PublishedHasVideo
    OneChannelUpload
    OneIssuePerFamily
    ToldIsTrue
    
    WinnerIsQueued
    
    HostedQueueIsExact
PROPERTIES
    SettledStays
    VideoNeedsApproval
