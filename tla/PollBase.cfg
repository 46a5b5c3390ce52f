SPECIFICATION PromotedSpec
CONSTANTS
    NoCommit = NoCommit
    ops = ops node = node web = web api = api core = core
    Commits <- MCCommits
    Ancestors <- MCAncestors
    Groups <- MCOps
    ServicesOf <- OpsServices
    OpsGroups <- MCOps
    Inputs <- MCInputs
    MaxPushes = 1
    MaxReleases = 1
    MaxFailures = 1
INVARIANT BaseCoversGroup
