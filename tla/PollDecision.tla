----------------------------- MODULE PollDecision -----------------------------
(***************************************************************************)
(* What a poll decides about the images of a group that have no marker for *)
(* HEAD: poll-skip-decision.py, and the choice of the build target in      *)
(* poll-sources.yml.  What could not be established is "unknown", and      *)
(* unknown never skips a build.                                            *)
(***************************************************************************)
EXTENDS Naturals, FiniteSets, FiniteSetsExt

CONSTANTS
    Commits,    \* source commits, numbered as their hashes sort
    Ancestors,  \* Ancestors[c]: commits reachable from c, c included
    NoCommit    \* no such image, or no answer

ASSUME CommitAssumption ==
    /\ Commits \subseteq Nat \ {0} /\ IsFiniteSet(Commits)
    /\ Ancestors \in [Commits -> SUBSET Commits]
    /\ \A c \in Commits : c \in Ancestors[c]
    /\ \A a, b, c \in Commits :
          a \in Ancestors[b] /\ b \in Ancestors[c] => a \in Ancestors[c]
    /\ NoCommit \notin Commits

Three == {"unchanged", "changed", "unknown"}

\* What decide() finds out about one image, in this order.
Facts == [promoted: Commits \cup {NoCommit},     \* revision at :latest
          provenance: {"verified", "unknown"},   \* of that digest
          recipe: Three, inputs: Three, floating: BOOLEAN]

\* Reaches(newer, older): compare says identical or ahead.
Reaches(newer, older) == older \in Ancestors[newer]

\* The first three checks: the image carries a verified ancestor of head.  It
\* is then also a baseline for migrations, whatever the later checks say.
Baseline(facts, head) ==
    /\ facts.promoted # NoCommit
    /\ facts.provenance = "verified"
    /\ Reaches(head, facts.promoted)

\* decide(): "skip" only when everything is proved.
Skips(facts, head) ==
    /\ Baseline(facts, head)
    /\ facts.recipe = "unchanged"
    /\ facts.inputs = "unchanged"
    /\ ~facts.floating

\* Faulty variant for BaseIsCommonAncestor and BaseCoversConsidered: the
\* newest baseline is kept.
NewerOf(oldest, revision) ==
    IF oldest = NoCommit \/ Reaches(revision, oldest) THEN revision ELSE oldest

\* One turn of the loop in migration_base().
OlderOf(oldest, revision) ==
    CASE oldest = NoCommit -> NoCommit
      [] oldest # NoCommit /\ Reaches(oldest, revision) -> revision
      [] oldest # NoCommit /\ ~Reaches(oldest, revision) ->
            IF Reaches(revision, oldest) THEN oldest ELSE NoCommit

\* migration_base(): the bases of the considered images, NoCommit if one has
\* none, and that of the first of them.  oldest[n] is where the loop is after
\* the revisions up to n.
MigrationBase(first, bases) ==
    IF bases = {} \/ NoCommit \in bases THEN NoCommit
    ELSE LET oldest[n \in 0..Max(bases)] ==
                 IF n = 0 THEN first
                 ELSE IF n \in bases THEN OlderOf(oldest[n - 1], n) ELSE oldest[n - 1]
         IN  oldest[Max(bases)]

\* One image is built alone, unless it was the only one without a marker.
Target(group, build, missing) ==
    IF Cardinality(build) = 1 /\ Cardinality(missing) > 1
    THEN CHOOSE s \in build : TRUE ELSE group
=============================================================================
