SPECIFICATION ThreeSpec
CONSTANTS
    None = None
    Unknown = Unknown
    c1 = c1 c2 = c2 c3 = c3 x = x
    d1 = d1 d2 = d2 e2 = e2 d3 = d3 dx = dx
    A = A B = B
    Commits <- ThreeCommits
    Digests <- ThreeDigests
    Ancestors <- ThreeAncestors
    Inputs <- ThreeInputs
    Label <- ThreeLabel
    Runs = {r1, r2, r3}
INVARIANT PublicationSerialized
PROPERTY RunsEnd
