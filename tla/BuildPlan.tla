------------------------------ MODULE BuildPlan ------------------------------
(***************************************************************************)
(* The plan job of build.yml: from a dispatched request to the rows of the *)
(* validate and build matrices, and what the jobs of these rows check out. *)
(*                                                                         *)
(* The registries name a branch; the plan reads the head of a branch at    *)
(* three different moments (the board's for its authorization, that of     *)
(* Ops for the sharding, the others when the plan is frozen), and the jobs *)
(* check their source out minutes later, while branches move.              *)
(***************************************************************************)
EXTENDS Naturals, FiniteSets

CONSTANTS
    Images,       \* services.json: [service, group, repo, ref, validation]
    SourceOnly,   \* validation-targets.json, same fields
    PartsOf,      \* the jobs of a validation: node profiles, board roles
    Board, Ops,   \* the validations "yueboard" and "yueops"
    Commits, CommitsOf, \* the commits each repository has
    Branches,
    Short,        \* an abbreviated commit
    Unset,        \* an empty input
    Pin,          \* yueboard_contract_pin of native-node-contract.json
    MaxMoves      \* bound: moves of branches

Targets == Images \cup SourceOnly
Repos == {t.repo : t \in Targets}
Names == {t.service : t \in Targets} \cup {t.group : t \in Targets}
All == "all"
Validations == {t.validation : t \in Targets}

ASSUME RegistryAssumption ==
    /\ Board # Ops
    /\ Branches \cap Commits = {} /\ Short \notin Commits \cup Branches
    /\ Unset \notin Commits \cup Branches /\ Unset # Short
    /\ Pin \in Commits
    /\ CommitsOf \in [Repos -> SUBSET Commits]
    /\ \A t \in Targets : t.ref \in Branches
    /\ \A t, u \in Targets : t.repo = u.repo =>
          t.ref = u.ref /\ t.validation = u.validation
    /\ \A t, u \in Targets : t.validation = u.validation => t.repo = u.repo
    /\ \A t \in Targets : PartsOf[t.validation] # {}
    /\ MaxMoves \in Nat

VARIABLES
    request,   \* what was dispatched
    pc,
    heads,     \* of each branch of each repository
    builds,    \* .matrix
    checks,    \* .validation_matrix
    hasBuilds,
    opsSource,
    checkouts, \* what the jobs of the run have checked out
    moves

vars == <<request, pc, heads, builds, checks, hasBuilds, opsSource, checkouts, moves>>

Refs == Commits \cup Branches \cup {Short}

\* The inputs of a workflow_dispatch, the only trigger of the workflow.
Requests ==
    [service: Names \cup {All}, ref: Refs \cup {Unset}, promote: BOOLEAN,
     master: BOOLEAN,                     \* the workflow is master's
     contract: Commits \cup {Unset},      \* yueboard_contract_ref
     base: BOOLEAN,                       \* a migration_base was given
     hosted: BOOLEAN]                     \* not the self-hosted fallback

BuildRows == [service: Names, repo: Repos, ref: Refs, validation: Validations]
Parts == UNION {PartsOf[v] : v \in Validations}
CheckRows == [repo: Repos, ref: Refs, validation: Validations, part: Parts]
Sources == [repo: Repos, commit: Commits, image: BOOLEAN, validation: Validations]

TypeOK ==
    /\ request \in Requests
    /\ pc \in {"plan", "board", "ops", "freeze", "done", "refused"}
    /\ heads \in [Repos -> [Branches -> Commits]]
    /\ builds \subseteq BuildRows /\ checks \subseteq CheckRows
    /\ hasBuilds \in BOOLEAN
    /\ opsSource \in Refs \cup {Unset}
    /\ checkouts \subseteq Sources
    /\ moves \in 0..MaxMoves

Init ==
    /\ request \in Requests
    /\ pc = "plan"
    /\ heads \in [Repos -> [Branches -> Commits]]
    /\ \A r \in Repos, b \in Branches : heads[r][b] \in CommitsOf[r]
    /\ builds = {} /\ checks = {} /\ hasBuilds = FALSE /\ opsSource = Unset
    /\ checkouts = {}
    /\ moves = 0

-----------------------------------------------------------------------------
(* The inputs, build.yml, and plan-build-targets.sh.                       *)

\* The contract of the run; the reviewed pin if none is given.
Contract == IF request.contract = Unset THEN Pin ELSE request.contract

\* What a request must satisfy to be planned at all, and to promote.
Admissible ==
    /\ request.ref # Short
    /\ request.promote => request.ref \in Commits /\ request.master /\ Contract = Pin

Selected(t) == request.service \in {All, t.service, t.group}

\* The ref of the request takes the place of that of the registry.
RefOf(t) == IF request.ref = Unset THEN t.ref ELSE request.ref

PlannedBuilds ==
    {[service |-> t.service, repo |-> t.repo, ref |-> RefOf(t),
      validation |-> t.validation] : t \in {t \in Images : Selected(t)}}

\* One row for each source, however many images are built from it, and then
\* one for each profile of a node and each role of the board.
PlannedChecks ==
    UNION {{[repo |-> t.repo, ref |-> RefOf(t), validation |-> t.validation,
             part |-> p] : p \in PartsOf[t.validation]}
             : t \in {t \in Targets : Selected(t)}}

\* Ops is not validated without the base of its migrations.
BaseGiven == (\E c \in PlannedChecks : c.validation = Ops) => request.base

Refuse == pc' = "refused"

PlanTargets ==
    /\ pc = "plan"
    /\ IF Admissible /\ PlannedChecks # {} /\ BaseGiven
       THEN /\ pc' = "board"
            /\ builds' = PlannedBuilds /\ checks' = PlannedChecks
            /\ hasBuilds' = (PlannedBuilds # {})
       ELSE Refuse /\ UNCHANGED <<builds, checks, hasBuilds>>
    /\ UNCHANGED <<request, heads, opsSource, checkouts, moves>>

-----------------------------------------------------------------------------
(* The three moments at which a source is resolved.                        *)

\* The commit that a ref of a repository stands for now.
Resolved(r, ref) == IF ref \in Branches THEN heads[r][ref] ELSE ref

OfBoard == {c \in checks : c.validation = Board}
OfOps == {c \in checks : c.validation = Ops}

\* Rows of validation v judge and build the source c.
WithSource(rows, v, c) ==
    {[row EXCEPT !.ref = IF row.validation = v THEN c ELSE @] : row \in rows}

\* Faulty variant for BoardBuiltOnlyAtPin: the pin is not looked at.
AuthorizedUnpinned(rows, source) == WithSource(rows, Board, source)

\* authorize-yueboard-build-plan.sh: a board that is not the reviewed one may
\* be validated; it is not built.
Authorized(rows, source) ==
    {row \in WithSource(rows, Board, source) :
         source = Pin \/ row.validation # Board}

AuthorizeBoard ==
    /\ pc = "board"
    /\ IF OfBoard = {} THEN pc' = "ops" /\ UNCHANGED <<builds, checks, hasBuilds>>
       ELSE LET row == CHOOSE row \in OfBoard : TRUE
                source == Resolved(row.repo, row.ref)
                images == {b \in builds : b.validation = Board}
            IN IF /\ \A c \in OfBoard : c.repo = row.repo /\ c.ref = row.ref
                  /\ Cardinality(images) = 1
                  /\ source = Pin \/ ~request.promote
               THEN /\ pc' = "ops"
                    /\ builds' = Authorized(builds, source)
                    /\ checks' = WithSource(checks, Board, source)
                    /\ hasBuilds' = (Authorized(builds, source) # {})
               ELSE Refuse /\ UNCHANGED <<builds, checks, hasBuilds>>
    /\ UNCHANGED <<request, heads, opsSource, checkouts, moves>>

\* Faulty variant for EveryBuildHasItsGates: only the images get the source.
ResolveOpsBuilds ==
    /\ pc = "ops"
    /\ pc' = "freeze"
    /\ \E row \in OfOps : /\ opsSource' = Resolved(row.repo, row.ref)
                           /\ builds' = WithSource(builds, Ops, opsSource')
    /\ UNCHANGED <<request, heads, checks, hasBuilds, checkouts, moves>>

ResolveOps ==
    /\ pc = "ops"
    /\ IF OfOps = {} THEN pc' = "freeze" /\ UNCHANGED <<builds, checks, opsSource>>
       ELSE LET row == CHOOSE row \in OfOps : TRUE
                source == Resolved(row.repo, row.ref)
            IN IF Cardinality(OfOps) = 1
               THEN /\ pc' = "freeze"
                    /\ opsSource' = source
                    /\ builds' = WithSource(builds, Ops, source)
                    /\ checks' = WithSource(checks, Ops, source)
               ELSE Refuse /\ UNCHANGED <<builds, checks, opsSource>>
    /\ UNCHANGED <<request, heads, hasBuilds, checkouts, moves>>

Frozen(rows, r, ref, c) ==
    {[row EXCEPT !.ref = IF row.repo = r /\ @ = ref THEN c ELSE @] : row \in rows}

\* Faulty variant for JobsJudgeOneSource: only what is built gets frozen.
MutableBuilds == {<<row.repo, row.ref>> : row \in {row \in builds : row.ref \notin Commits}}

\* What freeze-build-plan.sh still has to resolve.
Mutable == {<<row.repo, row.ref>> : row \in {row \in builds \cup checks : row.ref \notin Commits}}

FreezeOne(r, ref) ==
    /\ pc = "freeze"
    /\ <<r, ref>> \in Mutable
    /\ builds' = Frozen(builds, r, ref, Resolved(r, ref))
    /\ checks' = Frozen(checks, r, ref, Resolved(r, ref))
    /\ UNCHANGED <<request, pc, heads, hasBuilds, opsSource, checkouts, moves>>

\* The plan is put out, after the checkout of Ops for its shards, which are
\* not planned for the self-hosted runner.
Publish ==
    /\ pc = "freeze"
    /\ Mutable = {}
    /\ IF /\ request.promote => hasBuilds
          /\ request.hosted => \A row \in OfOps : opsSource \in CommitsOf[row.repo]
       THEN pc' = "done" ELSE Refuse
    /\ UNCHANGED <<request, heads, builds, checks, hasBuilds, opsSource, checkouts, moves>>

\* A call of the source host fails for good.
CallFails ==
    /\ pc \in {"board", "ops", "freeze"}
    /\ Refuse
    /\ UNCHANGED <<request, heads, builds, checks, hasBuilds, opsSource, checkouts, moves>>

-----------------------------------------------------------------------------
(* The jobs of the run, and the developers.                                *)

\* A job checks out the ref of its row; it fails if the repository has none.
Checkout(row, image) ==
    LET commit == Resolved(row.repo, row.ref) IN
    /\ pc = "done"
    /\ commit \in CommitsOf[row.repo]
    /\ checkouts' = checkouts \cup {[repo |-> row.repo, commit |-> commit,
                                     image |-> image, validation |-> row.validation]}
    /\ UNCHANGED <<request, pc, heads, builds, checks, hasBuilds, opsSource, moves>>

Validate == \E row \in checks : Checkout(row, FALSE)
Build == hasBuilds /\ \E row \in builds : Checkout(row, TRUE)

Move(r, b) ==
    /\ moves < MaxMoves
    /\ \E c \in CommitsOf[r] \ {heads[r][b]} : heads' = [heads EXCEPT ![r][b] = c]
    /\ moves' = moves + 1
    /\ UNCHANGED <<request, pc, builds, checks, hasBuilds, opsSource, checkouts>>

Next ==
    \/ PlanTargets \/ AuthorizeBoard \/ ResolveOps
    \/ \E r \in Repos, ref \in Refs : FreezeOne(r, ref)
    \/ Publish \/ CallFails
    \/ Validate \/ Build
    \/ \E r \in Repos, b \in Branches : Move(r, b)

Spec == Init /\ [][Next]_vars

-----------------------------------------------------------------------------
(* Properties.                                                             *)

\* Whenever the branches move, all jobs of a run that check a repository out
\* get one commit: what is built is what was validated.
JobsJudgeOneSource ==
    \A x, y \in checkouts : x.repo = y.repo => x.commit = y.commit

\* No board is built but the one whose contract was reviewed, by whatever ref
\* it was asked for and wherever its branch goes.
BoardBuiltOnlyAtPin ==
    \A x \in checkouts : x.image /\ x.validation = Board => x.commit = Pin

\* A promotion builds what its dispatcher named, never what a branch came to
\* be in the meantime, and from the workflow that production trusts.
PromotesWhatWasNamed ==
    request.promote /\ pc = "done" =>
        /\ builds # {} /\ request.master
        /\ \A x \in checkouts : x.commit = request.ref

\* No image is scheduled without all the jobs that validate its source: when
\* rows are merged, dropped or frozen, they stay in step.
EveryBuildHasItsGates ==
    pc = "done" => \A b \in builds : \A p \in PartsOf[b.validation] :
        [repo |-> b.repo, ref |-> b.ref, validation |-> b.validation, part |-> p] \in checks
=============================================================================
