SPECIFICATION FairSpec
CONSTANTS
    ops = ops node = node
    Validators <- MCValidators
    Sharded <- MCSharded
    Services = {web, api}
    MaxParallel = 1
    MaxAttempts = 3
    MaxFaults = 1
INVARIANTS OneAttemptEvidence ReleaseOfOneAttempt PublishAfterEveryGate
    PublicationNeverAborted
PROPERTY AttemptEnds
CHECK_DEADLOCK FALSE
