SPECIFICATION FairSpec
CONSTANTS
    Slots = {s1, s2, s3, s4, s5}
    MinDelay = 3
    JobTimeout = 1
    MaxKicks = 3
    DryRuns = TRUE
PROPERTIES NoTightLoop ChainsConverge
