SPECIFICATION InputsSpec
CONSTANTS
    web = web bot = bot ops = ops board = board link = link master = master
    o1 = o1 o2 = o2 b1 = b1 b2 = b2 l1 = l1 l2 = l2
    Images <- TwoImagesAndBoard
    SourceOnly <- LinkOnly
    PartsOf <- JobsOf
    Board = board Ops = ops
    Commits = {o1, o2, b1, b2, l1, l2}
    CommitsOf <- HistoryOf
    Branches = {master}
    Short = Short Unset = Unset
    Pin = b1
    MaxMoves = 1
    idle = idle NoCommit = NoCommit
    Line = {1, 2, 3, 4} MaxImages = 3
    Paths <- Repository Dirs <- DirsOf
    Dockerfile = "Dockerfile" OwnIgnore = "Dockerfile.dockerignore" RootIgnore = ".dockerignore"
    Attributes = {".gitattributes"} Contents <- MayHold
    Scopes = {"", "ui"} PinnedImages = {"node@sha256", "frontend@sha256"} Start <- FirstTrees MaxCommits = 1
    Missing = Missing Unknown = Unknown
INVARIANT UnprovedIsUnknown
CHECK_DEADLOCK FALSE
