----------------------------- MODULE ImageRelease -----------------------------
(***************************************************************************)
(* The release of ONE image by build.yml: several workflow runs build a    *)
(* candidate, wait for validation, and publish it by moving registry tags. *)
(* All build and publish jobs of the image share the concurrency group     *)
(* verified-image-<service>.  Meanwhile the source repository's default    *)
(* branch moves, and any job may fail at any step.                         *)
(*                                                                         *)
(* One element of Runs is one (run id, run attempt): candidates and        *)
(* receipts are named after both.  The job graph inside a run is           *)
(* abstracted to validation[r], the joint verdict of the validate matrix   *)
(* and of validation-evidence; module BuildRun has the graph itself.       *)
(***************************************************************************)
CONSTANTS
    Runs,       \* workflow runs, one per (run id, attempt)
    Commits,    \* commits of the source repository
    Digests,    \* image manifests the builds can produce
    None,       \* "no such tag", "no such job", "no receipt"
    Ancestors,  \* Ancestors[c]: commits reachable from c, c included
    Inputs,     \* Inputs[c]: build-input fingerprint of the image at c
    Unknown,    \* the fingerprint that could not be computed
    Label       \* Label[d]: org.opencontainers.image.revision of d

\* Git commit ids are content addresses: reachability is a partial order and
\* never changes.  The revision label is part of the manifest's content.
ASSUME HistoryAssumption ==
    /\ Ancestors \in [Commits -> SUBSET Commits]
    /\ \A c \in Commits : c \in Ancestors[c]
    /\ \A a, b, c \in Commits :
          a \in Ancestors[b] /\ b \in Ancestors[c] => a \in Ancestors[c]

ASSUME ImageAssumption ==
    /\ Label \in [Digests -> Commits]
    /\ DOMAIN Inputs = Commits

ASSUME NoneAssumption == None \notin Runs \cup Digests \cup Commits

VARIABLES
    head,       \* the commit at the tip of the default branch
    latest,     \* registry: digest at :latest
    sha,        \* registry: digest at :sha-<c>
    promoted,   \* registry: digest at :promoted-<Label[d]>-<d>
    built,      \* registry: digest at :built-<c>
    holder,     \* run whose job holds verified-image-<service>
    pending,    \* run whose job waits for it (GitHub keeps one)
    pc,         \* where the run is
    src,        \* the frozen source commit of the run
    promote,    \* the run was dispatched with promote=true
    image,      \* digest the build pushed as candidate-<run>-<attempt>
    receipt,    \* digest in the run's candidate.json artifact
    validation, \* joint verdict of validate and validation-evidence
    seenLatest, \* the :latest the promotion gate last read
    todo        \* tags the final imagetools create has yet to write

tags == <<latest, sha, promoted, built>>
queue == <<holder, pending>>
plan == <<src, promote>>
vars == <<head, tags, queue, pc, plan, image, receipt, validation,
          seenLatest, todo>>

TagValue == Digests \cup {None}

\* Steps a job takes while it holds the group ("build" and "publish" are
\* also where it waits for the group).
BuildSteps == {"build", "verify"}
PublishSteps == {"publish", "latest1", "gate1", "promotedTag", "shaTag",
                 "latest2", "gate2", "retag"}
Ended == {"done", "failed", "cancelled"}
Steps == {"new", "gates"} \cup BuildSteps \cup PublishSteps \cup Ended

\* The steps only the holder of the group can be at.
Inside == (BuildSteps \cup PublishSteps) \ {"build", "publish"}

TypeOK ==
    /\ head \in Commits
    /\ latest \in TagValue
    /\ sha \in [Commits -> TagValue]
    /\ promoted \in [Digests -> TagValue]
    /\ built \in [Commits -> TagValue]
    /\ holder \in Runs \cup {None}
    /\ pending \in Runs \cup {None}
    /\ pc \in [Runs -> Steps]
    /\ src \in [Runs -> Commits]
    /\ promote \in [Runs -> BOOLEAN]
    /\ image \in [Runs -> TagValue]
    /\ receipt \in [Runs -> TagValue]
    /\ validation \in [Runs -> {"running", "success", "failure"}]
    /\ seenLatest \in [Runs -> TagValue]
    /\ todo \in [Runs -> SUBSET {"latest", "promoted", "sha"}]

\* The registry may already hold tags, also ones pushed by hand that bind a
\* source to an image of another one; :built-* came with this pipeline.
Init ==
    /\ head \in Commits
    /\ latest \in TagValue
    /\ sha \in [Commits -> TagValue]
    /\ promoted \in [Digests -> TagValue]
    /\ built = [c \in Commits |-> None]
    /\ holder = None
    /\ pending = None
    /\ pc = [r \in Runs |-> "new"]
    /\ src \in [Runs -> Commits]
    /\ promote \in [Runs -> BOOLEAN]
    /\ image = [r \in Runs |-> None]
    /\ receipt = [r \in Runs |-> None]
    /\ validation = [r \in Runs |-> "running"]
    /\ seenLatest = [r \in Runs |-> None]
    /\ todo = [r \in Runs |-> {}]

-----------------------------------------------------------------------------
(* The concurrency group: cancel-in-progress is false, and a newly queued  *)
(* job replaces the one that was waiting, which GitHub cancels.            *)

Enter(r, step) ==
    IF holder = None
    THEN /\ holder' = r
         /\ pc' = [pc EXCEPT ![r] = step]
         /\ UNCHANGED pending
    ELSE /\ pending' = r
         /\ pc' = [x \in Runs |-> IF x = r THEN step
                                  ELSE IF x = pending THEN "cancelled"
                                  ELSE pc[x]]
         /\ UNCHANGED holder

\* Faulty variant for RunsEnd: the group is freed, its waiter forgotten.
LeaveForgetsWaiter(r) ==
    /\ holder' = IF holder = r THEN None ELSE holder
    /\ pending' = IF pending = r THEN None ELSE pending

\* Job r is over, whether it held the group, waited for it or neither.
Leave(r) ==
    /\ holder' = IF holder = r THEN pending ELSE holder
    /\ pending' = IF r \in {holder, pending} THEN None ELSE pending

Goto(r, step) == pc' = [pc EXCEPT ![r] = step] /\ UNCHANGED queue
End(r, step)  == pc' = [pc EXCEPT ![r] = step] /\ Leave(r)

-----------------------------------------------------------------------------
(* The run up to the publication gate.                                     *)

\* plan has frozen the source; the build job is queued, validation starts.
Dispatch(r) ==
    /\ pc[r] = "new"
    /\ Enter(r, "build")
    /\ UNCHANGED <<head, tags, plan, image, receipt, validation, seenLatest,
                   todo>>

\* Faulty variant for LedgerSpec: the job checks out a branch that has moved
\* since the plan, and labels the image with what it finds.
PushCandidateOfMovedRef(r) ==
    /\ pc[r] = "build"
    /\ holder = r
    /\ \E d \in Digests :
          /\ Label[d] \in {src[r], head}
          /\ image' = [image EXCEPT ![r] = d]
    /\ Goto(r, "verify")
    /\ UNCHANGED <<head, tags, plan, receipt, validation, seenLatest, todo>>

\* "Build & push": the bytes are not reproducible, the label is.
PushCandidate(r) ==
    /\ pc[r] = "build"
    /\ holder = r
    /\ \E d \in Digests :
          /\ Label[d] = src[r]
          /\ image' = [image EXCEPT ![r] = d]
    /\ Goto(r, "verify")
    /\ UNCHANGED <<head, tags, plan, receipt, validation, seenLatest, todo>>

\* Trivy, SBOM, signing and provenance passed: the receipt is retained.
RecordCandidate(r) ==
    /\ pc[r] = "verify"
    /\ receipt' = [receipt EXCEPT ![r] = image[r]]
    /\ End(r, "gates")
    /\ UNCHANGED <<head, tags, plan, image, validation, seenLatest, todo>>

\* validate and validation-evidence run beside the build and end either way.
ValidationEnds(r) ==
    /\ pc[r] \in BuildSteps \cup {"gates"}
    /\ validation[r] = "running"
    /\ \E v \in {"success", "failure"} :
          validation' = [validation EXCEPT ![r] = v]
    /\ UNCHANGED <<head, tags, queue, pc, plan, image, receipt, seenLatest,
                   todo>>

\* A failed validation skips publish, and the abort job cancels the run.
AbortOnValidateFailure(r) ==
    /\ pc[r] \in BuildSteps \cup {"gates"}
    /\ validation[r] = "failure"
    /\ End(r, "cancelled")
    /\ UNCHANGED <<head, tags, plan, image, receipt, validation, seenLatest,
                   todo>>

\* Faulty variant for BuiltMeansVerified: publish waits for the build only.
EnterPublishAfterBuild(r) ==
    /\ pc[r] = "gates"
    /\ Enter(r, "publish")
    /\ UNCHANGED <<head, tags, plan, image, receipt, validation, seenLatest,
                   todo>>

\* publish needs build, validate and validation-evidence.
EnterPublish(r) ==
    /\ pc[r] = "gates"
    /\ validation[r] = "success"
    /\ Enter(r, "publish")
    /\ UNCHANGED <<head, tags, plan, image, receipt, validation, seenLatest,
                   todo>>

-----------------------------------------------------------------------------
(* The publish job.                                                        *)

\* Faulty variant for PublicationSerialized: publish has no concurrency group.
MarkBuiltUnserialized(r) ==
    /\ pc[r] = "publish"
    /\ receipt[r] # None
    /\ built' = [built EXCEPT ![src[r]] = receipt[r]]
    /\ IF promote[r] THEN Goto(r, "latest1") ELSE End(r, "done")
    /\ UNCHANGED <<head, latest, sha, promoted, plan, image, receipt,
                   validation, seenLatest, todo>>

\* The receipt is read back and the source revision marked as built.
MarkBuilt(r) ==
    /\ pc[r] = "publish"
    /\ holder = r
    /\ receipt[r] # None
    /\ built' = [built EXCEPT ![src[r]] = receipt[r]]
    /\ IF promote[r] THEN Goto(r, "latest1") ELSE End(r, "done")
    /\ UNCHANGED <<head, latest, sha, promoted, plan, image, receipt,
                   validation, seenLatest, todo>>

\* promote_source_gate, first half: the revision label at :latest.
ReadLatest(r) ==
    /\ \/ pc[r] = "latest1" /\ Goto(r, "gate1")
       \/ pc[r] = "latest2" /\ Goto(r, "gate2")
    /\ seenLatest' = [seenLatest EXCEPT ![r] = latest]
    /\ UNCHANGED <<head, tags, plan, image, receipt, validation, todo>>

Contains(newer, older) == older \in Ancestors[newer]

\* input-fingerprint compare: unchanged, and never so when either is unknown.
SameInputs(a, b) == Inputs[a] = Inputs[b] /\ Inputs[a] # Unknown

\* Faulty variant for LatestNeverBackwards: only the first two legs.
AuthorizedByBranch(source, tip, current) ==
    /\ Contains(tip, source)
    /\ source # tip => SameInputs(source, tip)

\* promote-source-gate.py gate(): on the branch, same inputs as HEAD, and not
\* older than (or diverged from) what :latest carries.
Authorized(source, tip, current) ==
    /\ Contains(tip, source)
    /\ source # tip => SameInputs(source, tip)
    /\ current # None => Contains(source, Label[current])

\* promote_source_gate, second half: HEAD is read and the verdict given.
Gate(r) ==
    /\ pc[r] \in {"gate1", "gate2"}
    /\ Authorized(src[r], head, seenLatest[r])
    /\ Goto(r, IF pc[r] = "gate1" THEN "promotedTag" ELSE "retag")
    /\ UNCHANGED <<head, tags, plan, image, receipt, validation, seenLatest,
                   todo>>

\* The record of this digest is added unless it already says so.
InspectPromotedTag(r) ==
    /\ pc[r] = "promotedTag"
    /\ promoted[receipt[r]] \in {None, receipt[r]}
    /\ todo' = [todo EXCEPT ![r] =
                  {"latest"} \cup (IF promoted[receipt[r]] = None
                                   THEN {"promoted"} ELSE {})]
    /\ Goto(r, "shaTag")
    /\ UNCHANGED <<head, tags, plan, image, receipt, validation, seenLatest>>

\* Faulty variant for PromotionRecordsImmutable: sha-<c> follows the newest
\* build of c.
InspectShaTagMoves(r) ==
    /\ pc[r] = "shaTag"
    /\ sha[src[r]] # None => Label[sha[src[r]]] = src[r]
    /\ todo' = [todo EXCEPT ![r] = @ \cup {"sha"}]
    /\ Goto(r, "latest2")
    /\ UNCHANGED <<head, tags, plan, image, receipt, validation, seenLatest>>

\* Faulty variant for SuccessLeavesRecord: any existing sha-<c> will do.
InspectShaTagAcceptsAny(r) ==
    /\ pc[r] = "shaTag"
    /\ \/ /\ sha[src[r]] = None
          /\ todo' = [todo EXCEPT ![r] = @ \cup {"sha"}]
       \/ /\ sha[src[r]] # None
          /\ UNCHANGED todo
    /\ Goto(r, "latest2")
    /\ UNCHANGED <<head, tags, plan, image, receipt, validation, seenLatest>>

\* :sha-<c> is written if absent and kept if it is an image of the same
\* source.
InspectShaTag(r) ==
    /\ pc[r] = "shaTag"
    /\ \/ /\ sha[src[r]] = None
          /\ todo' = [todo EXCEPT ![r] = @ \cup {"sha"}]
       \/ /\ sha[src[r]] # None
          /\ Label[sha[src[r]]] = src[r]
          /\ UNCHANGED todo
    /\ Goto(r, "latest2")
    /\ UNCHANGED <<head, tags, plan, image, receipt, validation, seenLatest>>

\* What the three checks above refuse ends the job.
Refuse(r) ==
    /\ \/ /\ pc[r] \in {"gate1", "gate2"}
          /\ ~Authorized(src[r], head, seenLatest[r])
       \/ /\ pc[r] = "promotedTag"
          /\ promoted[receipt[r]] \notin {None, receipt[r]}
       \/ /\ pc[r] = "shaTag"
          /\ sha[src[r]] # None
          /\ Label[sha[src[r]]] # src[r]
    /\ End(r, "failed")
    /\ UNCHANGED <<head, tags, plan, image, receipt, validation, seenLatest,
                   todo>>

\* imagetools create with several --tag arguments writes them one by one.
WriteTag(r) ==
    /\ pc[r] = "retag"
    /\ \E t \in todo[r] :
          /\ latest' = IF t = "latest" THEN receipt[r] ELSE latest
          /\ sha' = IF t = "sha" THEN [sha EXCEPT ![src[r]] = receipt[r]]
                    ELSE sha
          /\ promoted' = IF t = "promoted"
                         THEN [promoted EXCEPT ![receipt[r]] = receipt[r]]
                         ELSE promoted
          /\ todo' = [todo EXCEPT ![r] = @ \ {t}]
          /\ IF todo[r] = {t} THEN End(r, "done") ELSE Goto(r, "retag")
    /\ UNCHANGED <<head, built, plan, image, receipt, validation, seenLatest>>

-----------------------------------------------------------------------------
(* The environment.                                                        *)

\* A registry or API error, a timeout, a lost runner or a manual cancel ends
\* the job between any two steps, a half-done retag included.
JobFails(r) ==
    /\ pc[r] \notin Ended \cup {"new"}
    /\ End(r, "failed")
    /\ UNCHANGED <<head, tags, plan, image, receipt, validation, seenLatest,
                   todo>>

\* A push or a force-push to the default branch.
MoveHead ==
    /\ \E c \in Commits : head' = c
    /\ UNCHANGED <<tags, queue, pc, plan, image, receipt, validation,
                   seenLatest, todo>>

\* What the runners and GitHub do by themselves once a run is dispatched.
Proceed(r) ==
    \/ PushCandidate(r) \/ RecordCandidate(r) \/ ValidationEnds(r)
    \/ AbortOnValidateFailure(r) \/ EnterPublish(r) \/ MarkBuilt(r)
    \/ ReadLatest(r) \/ Gate(r) \/ InspectPromotedTag(r) \/ InspectShaTag(r)
    \/ Refuse(r) \/ WriteTag(r)

Next ==
    \/ \E r \in Runs : Dispatch(r) \/ Proceed(r) \/ JobFails(r)
    \/ MoveHead

Spec == Init /\ [][Next]_vars

\* Every job has a timeout-minutes: a dispatched run does not stop for ever.
FairSpec == Spec /\ \A r \in Runs : WF_vars(Proceed(r))
-----------------------------------------------------------------------------
(* Properties.                                                             *)

\* Jobs that touch the image's tags never overlap, although any number of
\* runs of any target may be active: what the verified-image-<service> group
\* is there for, with waiting jobs evicted and jobs failing at any step.
PublicationSerialized ==
    /\ \A r \in Runs : pc[r] \in Inside => holder = r
    /\ holder # None => pc[holder] \in BuildSteps \cup PublishSteps
    /\ pending # None => /\ pc[pending] \in {"build", "publish"}
                         /\ holder \notin {None, pending}

\* :latest never goes back to an older or a diverged source, whatever runs
\* race and however the branch moves between the gate and the write.
LatestNeverBackwards ==
    [][latest' # latest /\ latest # None
          => Contains(Label[latest'], Label[latest])]_vars

\* sha-<c> and promoted-<c>-<d> are immutable: once there, they stay.
PromotionRecordsImmutable ==
    [][/\ \A c \in Commits : sha[c] # None => sha'[c] = sha[c]
       /\ \A d \in Digests : promoted[d] # None => promoted'[d] = promoted[d]]_vars

\* A commit counts as built only through a run of that very commit that has
\* passed the image gates and the whole validation.
BuiltMeansVerified ==
    \A c \in Commits : built[c] # None =>
        \E r \in Runs : /\ src[r] = c
                        /\ receipt[r] = built[c]
                        /\ validation[r] = "success"

\* A run that reports a successful promotion has left the whole record: its
\* digest's own tag, and a sha-<c> of the same source; also when an earlier
\* retag of the same digest was cut short half-way.
SuccessLeavesRecord ==
    \A r \in Runs : pc[r] = "done" /\ promote[r] =>
        /\ promoted[receipt[r]] = receipt[r]
        /\ sha[src[r]] # None
        /\ Label[sha[src[r]]] = src[r]

\* The tags obey the ledger's rules: the pipeline implements it.
Ledger == INSTANCE ReleaseLedger
LedgerSpec == Ledger!Spec

\* And they keep what Poll takes from them, whose poller asks for revisions and
\* never for digests: :latest is labelled with marked sources only, each of
\* them a descendant of the one before.
Revisions ==
    INSTANCE RevisionLedger WITH NoCommit <- None,
        marked <- {c \in Commits : built[c] # None},
        carried <- IF latest = None THEN None ELSE Label[latest]
RevisionSpec == Revisions!Spec

\* A dispatched run ends; in particular no job waits for the group for ever.
RunsEnd == \A r \in Runs : pc[r] = "build" ~> pc[r] \in Ended
=============================================================================
