SPECIFICATION LiveSpec
CONSTANTS
    NoCommit = NoCommit
    ops = ops node = node web = web api = api core = core
    Commits <- MCCommits
    Ancestors <- MCAncestors
    Groups <- MCBoth
    ServicesOf <- MCServices
    OpsGroups <- MCOps
    Inputs <- MCInputs
    MaxPushes = 1
    MaxReleases = 1
    MaxFailures = 1
INVARIANTS PollNeverRepeats BaseCoversConsidered
PROPERTY EveryHeadSettles
