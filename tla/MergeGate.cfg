SPECIFICATION VerdictsSpec
CONSTANTS
    code = code receipts = receipts main = main other = other
    idle = idle r1 = r1 NoRun = NoRun None = None
    Heads = {code, receipts} Bases = {main, other}
    EvidenceOnly <- OnlyReceipts
    Keys = {"actions"} CreatedShown = {}
    Window = 3 MaxTime = 9 MaxRuns = 2
    Dispatches = {r1} Jobs = {"board", "ops"} Current <- ThisRun Inputs <- AnyInputs
    MaxHours = 1 MaxClock = 2 MaxImages = 1
    Domain = {"integration"} Commands = {"yueboard"} Modules = {"order", "subscribe"}
    Migrations = {"db"} Gated = {"subscribe"} TestsOf <- Packages
    Ordinary = {"Traffic"} Roles = {"postgres", "migration"} Sources <- Checkouts
    Digest = "built" Allowed = {"amd64", "arm64"} Platforms <- Platform
    Formats = {"cyclonedx", "spdxjson"} Leftovers <- Leftover MaxAttempts = 3
    Period = 1 MaxAge = 2 MaxGap = 3 Horizon = 10 Leads <- Clocks
INVARIANTS PassMeansJudged CleanAuditWasGreen GateAndAuditAgree EvidenceWasEarned
    BoardCompleteMeansAllRan SignedMeansEveryPlatform DetectedInTime
CHECK_DEADLOCK FALSE
