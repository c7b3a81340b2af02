\* Two models queued at an idle host.
CONSTANTS
    h1 = h1
    h2 = h2
    m1 = m1
    m2 = m2
    HostedRuns = {h1, h2}
    NoHostedRun = NoHostedRun
    Deployments = {m1, m2}
    NoDeployment = NoDeployment
    DeploymentOf <- OfEachModel
    ParallelLimit <- OneWorker
    MaxPlays <- PlayedOnce
    Mishaps = {}
    MaxHostFaults = 0
SPECIFICATION FairHostSpec
PROPERTIES
    QueuedRunsStart
