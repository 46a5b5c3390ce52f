------------------------------ MODULE PlanInputs ------------------------------
(***************************************************************************)
(* What a build is made of, in three instances that share nothing: the     *)
(* plan of a dispatch (BuildPlan), the base of the SQL validation          *)
(* (PollDecision), and the inputs of an image (BuildInputs).  One          *)
(* behaviour is one of the three; the others stay idle.                    *)
(***************************************************************************)
EXTENDS BuildPlan, Naturals, Sequences, FiniteSets

CONSTANTS
    Line,       \* the commits migration_base() chooses from
    MaxImages,  \* bound: the images it considers
    NoCommit,
    Paths, Dirs, Dockerfile, OwnIgnore, RootIgnore, Attributes,
    Contents, Scopes, PinnedImages, Missing, Unknown, Start, MaxCommits,
    idle        \* the value of a variable whose instance does not run

ASSUME LineAssumption ==
    Line \subseteq Nat \ {0} /\ IsFiniteSet(Line) /\ NoCommit \notin Line

VARIABLES subject,  \* the instance that runs
          history, bases,
          tree, world, recipe, commits, promoted, scope, answer

D == INSTANCE PollDecision WITH Commits <- Line, Ancestors <- history
I == INSTANCE BuildInputs

-----------------------------------------------------------------------------
\* Every history, and every choice of baselines.  The history varies from state
\* to state, so the commits are the constants of an instance per state.  HEAD,
\* a descendant of all baselines, is left out.
Orders == {R \in SUBSET (Line \X Line) :
              /\ \A a \in Line : <<a, a>> \in R
              /\ \A p, q \in R : p[2] = q[1] => <<p[1], q[2]>> \in R
              /\ \A p \in R : p[1] # p[2] => <<p[2], p[1]>> \notin R}

BaseInit ==
    /\ \E R \in Orders : history = [c \in Line |-> {a \in Line : <<a, c>> \in R}]
    /\ bases = <<>>

\* One more image is considered.
Consider ==
    /\ Len(bases) < MaxImages
    /\ \E c \in Line \cup {NoCommit} : bases' = Append(bases, c)
    /\ UNCHANGED history

-----------------------------------------------------------------------------
baseVars == <<history, bases>>
inputVars == <<tree, world, recipe, commits, promoted, scope, answer>>
allVars == <<subject, vars, baseVars, inputVars>>

\* A plan that never runs waits at its beginning.
PlanIdle ==
    /\ request = CHOOSE r \in Requests : TRUE
    /\ heads = [r \in Repos |-> [b \in Branches |-> CHOOSE c \in CommitsOf[r] : TRUE]]
    /\ Init
BaseIdle == history = idle /\ bases = <<>>
InputsIdle == /\ tree = idle /\ world = idle /\ recipe = idle /\ commits = idle
              /\ promoted = idle /\ scope = idle /\ answer = idle

InputsInit == \/ subject = "plan" /\ Init /\ BaseIdle /\ InputsIdle
              \/ subject = "base" /\ BaseInit /\ PlanIdle /\ InputsIdle
              \/ subject = "inputs" /\ I!Init /\ PlanIdle /\ BaseIdle

PlanStep == subject = "plan" /\ Next /\ UNCHANGED <<subject, baseVars, inputVars>>
BaseStep == subject = "base" /\ Consider /\ UNCHANGED <<subject, vars, inputVars>>
InputStep == subject = "inputs" /\ I!Next /\ UNCHANGED <<subject, vars, baseVars>>

InputsNext == PlanStep \/ BaseStep \/ InputStep

InputsSpec == InputsInit /\ [][InputsNext]_allVars

-----------------------------------------------------------------------------
\* The answer is one of the baselines and an ancestor of them all, so that the
\* SQL validation from there covers every considered image; baselines on one
\* line of history always have one (poll-skip-decision.py, migration_base).
BaseIsCommonAncestor ==
    subject = "base" =>
        LET given == {bases[i] : i \in DOMAIN bases}
            base == D!MigrationBase(bases[1], given)
            oldest == {b \in given : b # NoCommit /\ \A c \in given : c # NoCommit /\ D!Reaches(c, b)}
        IN /\ base # NoCommit => base \in oldest
           /\ bases # <<>> /\ NoCommit \notin given
              /\ (\A a, b \in given : D!Reaches(a, b) \/ D!Reaches(b, a)) => base # NoCommit

\* An image that is skipped, or could be, would be built from what the promoted
\* one was built from (input-fingerprint.py, poll-skip-decision.py,
\* ui_static_units.py).
SkipMeansSameBuild == subject = "inputs" => I!SkipMeansSameBuild

\* "Anything this parser cannot prove is reported unknown", which a bind mount
\* from an unpinned image is not (input-fingerprint.py:28-31).
UnprovedIsUnknown == subject = "inputs" => I!UnprovedIsUnknown
=============================================================================
