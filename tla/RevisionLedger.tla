---------------------------- MODULE RevisionLedger ----------------------------
(***************************************************************************)
(* What the registry promises about one image to a reader who asks for     *)
(* source revisions and never for digests, as the poller does: markers     *)
(* stay, and :latest carries marked revisions, each a descendant of the    *)
(* one before.  ReleaseLedger keeps this promise tag by tag; PollProofs    *)
(* shows that Poll leaves nothing out that the promise allows.             *)
(***************************************************************************)
CONSTANTS
    Commits,    \* commits of the source repository
    Ancestors,  \* Ancestors[c]: the commits reachable from c, c included
    NoCommit    \* no such tag

VARIABLES
    marked,     \* the revisions with a :built-<c>
    carried     \* the revision label at :latest, or NoCommit

seen == <<marked, carried>>

Init ==
    /\ marked \subseteq Commits
    /\ carried \in Commits \cup {NoCommit}

\* A revision has passed every gate.
Mark(c) ==
    /\ marked' = marked \cup {c}
    /\ UNCHANGED carried

\* :latest moves on, to a marked descendant.
Advance(c) ==
    /\ c \in marked
    /\ carried # NoCommit => carried \in Ancestors[c]
    /\ carried' = c
    /\ UNCHANGED marked

Next == \E c \in Commits : Mark(c) \/ Advance(c)

Spec == Init /\ [][Next]_seen
=============================================================================
