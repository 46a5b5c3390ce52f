SPECIFICATION TwoSpec
CONSTANTS
    None = None
    Unknown = Unknown
    c1 = c1 c2 = c2 c3 = c3 x = x
    d1 = d1 d2 = d2 e2 = e2 d3 = d3 dx = dx
    A = A B = B
    Commits <- MCCommits
    Digests <- MCDigests
    Ancestors <- MCAncestors
    Inputs <- MCInputs
    Label <- MCLabel
    Runs = {r1, r2}
SYMMETRY RunSymmetry
INVARIANTS BuiltMeansVerified SuccessLeavesRecord
PROPERTIES LatestNeverBackwards PromotionRecordsImmutable LedgerSpec
