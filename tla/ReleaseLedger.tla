---------------------------- MODULE ReleaseLedger ----------------------------
(***************************************************************************)
(* What the registry tags of one image promise to everything that reads    *)
(* them (the poller, the rescan planner, the deployer), with no workflow   *)
(* in sight.  ImageRelease is the build/publish pipeline that is shown to  *)
(* implement it.                                                           *)
(***************************************************************************)
CONSTANTS
    Commits,    \* commits of the source repository
    Digests,    \* image manifests that can exist in the registry
    None,       \* "no such tag"
    Ancestors,  \* Ancestors[c]: the commits reachable from c, c included
    Label       \* Label[d]: the org.opencontainers.image.revision of d

VARIABLES
    latest,     \* digest at :latest, or None
    sha,        \* sha[c]: digest at :sha-<c>, or None
    promoted,   \* promoted[d]: digest at :promoted-<Label[d]>-<d>, or None
    built       \* built[c]: digest at :built-<c>, or None

tags == <<latest, sha, promoted, built>>

Init ==
    /\ latest \in Digests \cup {None}
    /\ sha \in [Commits -> Digests \cup {None}]
    /\ promoted \in [Digests -> Digests \cup {None}]
    /\ built \in [Commits -> Digests \cup {None}]

\* A candidate that passed every gate answers "is this commit built?".
MarkBuilt(d) ==
    /\ built' = [built EXCEPT ![Label[d]] = d]
    /\ UNCHANGED <<latest, sha, promoted>>

\* :latest moves to a built commit that contains the one it leaves.
Advance(d) ==
    /\ built[Label[d]] # None
    /\ latest # None => Label[latest] \in Ancestors[Label[d]]
    /\ latest' = d
    /\ UNCHANGED <<sha, promoted, built>>

\* :sha-<c> is written once, by the first promotion of c.
BindSha(d) ==
    /\ built[Label[d]] # None
    /\ sha[Label[d]] = None
    /\ sha' = [sha EXCEPT ![Label[d]] = d]
    /\ UNCHANGED <<latest, promoted, built>>

\* Every promoted digest gets a record of its own, written once.
BindPromoted(d) ==
    /\ built[Label[d]] # None
    /\ promoted[d] = None
    /\ promoted' = [promoted EXCEPT ![d] = d]
    /\ UNCHANGED <<latest, sha, built>>

Next ==
    \E d \in Digests : MarkBuilt(d) \/ Advance(d) \/ BindSha(d) \/ BindPromoted(d)

Spec == Init /\ [][Next]_tags
=============================================================================
