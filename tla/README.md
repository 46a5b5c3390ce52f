# A TLA+ verification of yueto-ci

yueto-ci builds, validates, publishes and watches the server images of Yue.to
from private source repositories. It has no server of its own: its state is in
GitHub (workflow runs, artifacts, concurrency queues, pull requests, check
runs) and in a container registry (tags), and its program is a handful of
workflows and the scripts they call. Everything runs concurrently with
everything else, nothing is transactional, every call can fail, and most
decisions are taken on state that was read a moment ago. That is what these
specifications are about.

Paths are relative to the repository. `tlc -config X.cfg MCX.tla` runs a model;
`tlapm XProofs.tla` checks proofs.

## 1. Inventory

### 1.1 Components

**Image publication** (`build.yml` jobs `build` and `publish`,
`promote-source-gate.py`, `candidate-receipt.py`,
`verify-sbom-attestations.py`). State: the tags of an image
(`candidate-<run>-<attempt>`, `built-<sha>`, `sha-<sha>`,
`promoted-<sha>-<digest>`, `latest`), the receipt artifact, the queue of the
concurrency group `verified-image-<service>`. Operations: build and push a
candidate, verify it, write its receipt; in publish: download the receipt, write
`built-*`, and for a promotion read `:latest`, pass the gate, look at the
immutable tags, pass the gate again, write up to three tags. Hard: runs race for
one image, the group holds one job and one waiter and drops older waiters, the
default branch moves between gate and write, the tags are written one after
another. Correct if: publication is serialized, `:latest` never goes back, the
records are immutable and complete, `built-*` means validated.

**Build run** (the job graph of `build.yml`). State: status of every job, the
artifacts of each attempt. Operations: jobs start, end, are skipped or
cancelled; abort jobs; the user's cancel; re-run of failed or of all jobs. Hard:
candidates overlap validation, fail-fast and `max-parallel`, an abort racing a
publication, artifacts of earlier attempts. Correct if: nothing is published
before every gate of the same attempt, a release is of one attempt, a
publication is never aborted, and every attempt ends.

**Build plan** (job `plan`; `plan-build-targets.sh`,
`authorize-yueboard-build-plan.sh`, `freeze-build-plan.sh`). State: the two
matrices while scripts rewrite them. Operations: check the inputs, select rows,
resolve and authorize the board, resolve Ops, freeze the other refs; later each
job checks its row out. Hard: a branch moves between any two of these reads.
Correct if: all jobs judge one commit, only the reviewed board is built, a
promotion builds what was named, and no image lacks its validations.

**Poll scan** (`poll-sources.yml` job `poll`, `poll-skip-decision.py`). State:
none between rounds; the registry, the list of runs. Operations: read HEAD,
probe markers, decide what may be skipped, compute the base of SQL validation,
choose the target, give way to active runs, dispatch. Hard: queries of different
moments make one decision; runs end and releases start in between. Correct if:
nothing is built twice at a time, everything is built in the end, and the base
covers what is validated.

**Poll chain** (job `rearm`, `poll-rearm.sh`). State: the list of poll runs.
Operations: wait in an environment, look at the list, dispatch the next run.
Hard: no lock; runs are kicked, evicted, cancelled. Correct if: chains do not
fork, do not spin and converge to one.

**Ops corpus** (`pytest-shards.py`, `lens_report.py`, `pytest-timing.py`, jobs
`validate` and `validation-evidence`). State: the admission plan and the
evidence directories. Operations: plan the shards, execute, record, collect the
reference, run native tests, join. Hard: interrupted jobs, lost records, empty
shards, skips vouched for by other jobs. Correct if: an accepted run ran every
case.

**Merge hygiene** (`merge-hygiene-audit.py`, `write-merge-receipt.py`,
`merge-receipts/`). State: pull requests, check runs and receipts, all external
and changing. Operations: the premerge gate of one pull request, the audit of
all merged ones. Hard: several API calls make one judgement; check runs are
overwritten; pages shift. Correct if: what passes was judged as a whole and what
is clean was clean at the merge.

**Image rescan** (`plan-rescan-targets.py`, `image-rescan.yml`). State: the
version list of a package. Operations: enumerate, select, scan. Hard: pages
shift under pushes, tags move between pages. Correct if: what production may be
running is scanned, and an inconsistent list is refused.

**Ops evidence around the corpus** (`pytest-shards.py`, `lens_report.py`,
`pytest-timing.py`). Three judgements of their own. The recorder writes into a
file from inside the process under test, and its summary says whether the file
is the whole run: hard, because writes are lost, processes die and tests run
pytest themselves. The *shared inputs* of a source (lock files, helpers, the
conftest) must be those of the historical baseline or have been reviewed: 32
reviewed transitions are peeled off one after the other, under conditions on
history, pin and blobs. The *skips* of a run must be those of the historical
run, reviewed successors of them, or executed by the native job. Correct if:
nothing unreviewed is admitted, and no review is half there.

**Build inputs** (`input-fingerprint.py`, `ui_static_units.py`). No state; the
git objects of two trees. Operations: parse a Dockerfile and an ignore file,
select files, hash, compare. Hard: everything a build takes that is not in git
has to make the answer unknown. Correct if: an image that is skipped, or called
skippable, would be built from the same inputs.

**Board suites** (`validate-yueboard-postgres.py`). State: a receipt between two
steps of one job. Operations: discover, run four groups of suites in order.
Hard: the suites run code of the checkout that is discovered again. Correct if:
a finished job ran every integration test.

**Evidence probe** (`verification-evidence.py`). State: the runs of a workflow,
external and changing. Operations: list, read the jobs, judge. Hard: runs are
re-run and runner images rolled out between the reads. Correct if: every job of
a run called reusable really passed in it, under this run's identities and on
its runner image.

**Signing** (`ci-retry.sh`, the sign step of `build.yml`,
`verify-sbom-attestations.py`). State: the attestations in the registry.
Operations: attest each platform under retries, read back, verify. Hard: a
command that fails may have had its effect. Correct if: signed means a statement
for each platform and for no other.

**Alert-chain deadman** (`alert-chain-deadman-check.py`). State: the last
receipt of the emitter. Operations: emit, observe. Hard: two clocks and a
throttled schedule. Correct if: an outage is noticed in bounded time.

Other parts, not modelled: see section 6.

### 1.2 Interactions

`poll-sources` dispatches `build.yml`; people and release scripts dispatch it
too. Runs of one target and ref share a queue (`build-<service>-<ref>`), jobs of
one image another (`verified-image-<service>`). `plan` hands frozen matrices to
`validate`, `build` and `publish`; `build` hands receipts to `publish`, the
shards hand evidence to `validation-evidence`, both as artifacts named after run
id and attempt. `publish` writes the tags that the poller (`built-*`, `latest`)
and the rescan (`latest`, `promoted-*`) read. The premerge gate and the audit
guard the repository that holds all of this.

### 1.3 How the modules fit together

| module | models | reads from | abstract counterpart |
|---|---|---|---|
| `ReleaseLedger` | what the tags of an image promise | | |
| `RevisionLedger` | what a reader of revisions sees of that promise | | |
| `ImageRelease` | build and publish of one image, many runs | validation verdict of `BuildRun` | implements `ReleaseLedger` and `RevisionLedger` |
| `BuildRun` | one run and its re-runs, job by job | frozen matrices of `BuildPlan` | |
| `BuildPlan` | the plan job, and the checkouts | registries, branches | |
| `PollDecision` | what a round decides about a group | | reference definition in `PlanInputs` |
| `Poll` | rounds, dispatches, runs; EXTENDS `PollDecision` | `built`, `latest`, active runs | may take every step of `RevisionLedger` (proved) |
| `PollRearm` | the chain of rounds | the run list | |
| `OpsCorpus` | plan, shards, records, join | one attempt of `BuildRun` | |
| `MergeGate` | one pull request: gate, merge, audit | checks and receipts | |
| `MergeAudit` | the audit over many pull requests | verdicts of `MergeGate` | |
| `Rescan` | the enumeration of one package | tags as `ImageRelease` writes them | |
| `BuildInputs` | fingerprint, shadow verdict, the poll's skip, UI unit | trees, `:latest` | `Build`: what BuildKit takes |
| `TimingRecord` | the recorder of a legacy corpus and its summary | | |
| `SharedReviews`, `SharedInputs` | the reviewed transitions; their admission by the planner | the source's history | |
| `SkipReviews`, `SkipCases` | the reviewed skips; the admission of a run's skips | shards and native job of `OpsCorpus` | |
| `BoardPostgres` | the board's integration suites | a row of `validate` in `BuildRun` | |
| `EvidenceReuse` | the probe for an earlier run's evidence | runs of `BuildRun` | |
| `Attestation` | sign, attest, verify under retries | the candidate of `ImageRelease` | |
| `Deadman` | emitter and observer | | |
| `PlanInputs` | `BuildPlan`, `PollDecision`, `BuildInputs` side by side | | |
| `CorpusEvidence` | `OpsCorpus`, `TimingRecord`, `SharedInputs`, `SkipCases` side by side | | |
| `Verdicts` | `MergeGate`, `EvidenceReuse`, `BoardPostgres`, `Attestation`, `Deadman` side by side | | |
| `Listings` | `Rescan`, `MergeAudit` side by side | | |

The modules meet at narrow interfaces, and each takes from its neighbour what
that one shows: `ImageRelease` lets the verdict of validation come at any time
and `BuildRun` shows that it comes from one attempt; `Poll` lets its runs do to
the registry whatever `RevisionLedger` allows and no more, which is what
`ImageRelease` keeps to; `OpsCorpus` looks at one
attempt because `BuildRun` shows that evidence is of one, and takes for granted
that a skip is reviewed, which `SkipCases` shows of `admit_skips()`;
`ImageRelease` and `PollDecision` take the comparison of inputs as given
(`Inputs`, with `Unknown`), which `BuildInputs` shows to be sound where nothing
of what `Foreseen` names is in the way.

`MC*` modules give constants their values. `*Proofs` modules hold the theorems.
An operator whose comment begins with "Faulty variant" is not used by a
specification: it is the definition below it with a plausible mistake, kept to
show that the property named there notices.

## 2. The modules and the code

### ImageRelease and ReleaseLedger

One element of `Runs` is one attempt of one workflow run. `Dispatch` chooses the
frozen source and whether to promote. `PushCandidate` and `RecordCandidate` are
the build job (`candidate-*` tag; verification, receipt), `ValidationEnds` is
the joint verdict of validation, `EnterPublish` queues the publish job,
`MarkBuilt`, `ReadLatest`, `Gate`, `InspectPromotedTag`, `InspectShaTag`,
`Gate` again and `WriteTag` are the steps of publish in the order of the shell,
with each registry call a step of its own. `Refuse` and `JobFails` end a job at
any step, also between two tag writes. `Enter` and `Leave` are GitHub's
concurrency group with one holder and one waiter; a new waiter evicts the old
one, whose run then ends as cancelled. `MoveHead` advances the branch, also in a
way that leaves commits behind (force push). Digests carry the revision label as
a function, because a label is part of a manifest. `Inputs` is the fingerprint
of the image's build inputs with `Unknown` for what cannot be computed; unknown
never authorizes.

`ReleaseLedger` has only the tags and four rules for them, from the point of
view of who reads them. `LedgerSpec` says that the pipeline implements it.
`RevisionLedger` is the same promise to a reader who asks for source revisions
and never for digests, as the poller does: `marked` is what has a `built-*`,
`carried` is the label at `:latest`, a marker stays and `:latest` only moves to
a marked descendant. `RevisionSpec` says that the pipeline implements this, too;
it follows from `LedgerSpec`, which the run checks (`KeepsRevisions`, section
4).

### BuildRun

`plan`, the rows of `validate`, `evidence`, the rows of `build` and `publish`
and the two abort jobs have a status each. The actions are GitHub's scheduler
over the `needs` and `if` of `build.yml`, the ends of the jobs with what they
upload or download, fail-fast, `max-parallel`, the cancellation that a running
job may still outrun, and both kinds of re-run. A partial re-run keeps green
jobs and runs the others with their descendants again, under a new attempt
number, which is part of every artifact name. What goes wrong by itself (a job
that fails although it could succeed, a cancellation by a person, an eviction by
a job of another run) is counted in `faults` and bounded by `MaxFaults`; a job
that has to fail, because an artifact of its attempt is missing, is no fault. How
an abort job ends tells nobody anything, so it is only over; its request to
cancel the run may fail at any time.

### BuildPlan

`PlanTargets` selects the rows of a request and checks the inputs.
`AuthorizeBoard` resolves the board's ref and drops the build of what is not the
reviewed pin; `ResolveOps` resolves the ref of Ops; `FreezeOne` resolves the
others one by one; `Publish` writes the outputs. `Checkout` is any job of the
matrices. `Move` moves a branch between any two of them. The rows are records
with the fields that decide something; the runner, the platform and the timeout
are left out.

### PollDecision and Poll

`PollDecision` has `decide()`, `migration_base()` and the choice of the target
as operators. `MigrationBase` takes the baselines one by one in the order of
their hashes, as the loop does: commits are numbers in that order, which has
nothing to do with history, and `oldest[n]` is where the loop is after the
revisions up to `n`.
`PlanInputs` compares it with a reference definition (the greatest common
ancestor among the baselines) on every history.

`Poll` runs rounds: `scan`, `probe` and `list` read one thing at a time, `send`
dispatches one run at a time. Between any two, branches move (`Push`),
releases are dispatched, runs start, publish, fail and end. Nothing of a round
survives it. The queue of `build.yml` has one running and one waiting run of a
target and ref.

An active run writes one tag of one image at a time, in any order (`MarkBuilt`,
`Promote`), so that a round may see a group half marked and half promoted. What
the gate asks is `Promotable`: the HEAD it compares with is the one it read,
which the branch may have left behind when the tag is written. Any HEAD since
the commit is allowed, also one from before the marking, when the gate of the
code has not looked yet: more promotions than the code makes, and none that
helps to settle a HEAD. A run may fail after any of its writes (`Fail`); it
succeeds when its images are marked (`Succeed`), whatever its gate has refused
to promote. That `Poll` leaves out nothing that publication may do to the
registry is a theorem (`PublicationAdmitted`, section 4).

### PollRearm

A run polls, waits in the environment (for any time, also none: the wait timer
is a setting of the repository), lists the runs and dispatches if enough time
has passed and it is the newest. Time is counted in ticks per run, up to
the delay that the script tests; a job cannot stay between its look and its
dispatch longer than its timeout. Runs are kicked from outside, evicted from the
group and cancelled; a dry run or one off master has no rearm job.

### OpsCorpus

The plan (stride over the sorted modules, the serial assignment), the shard
jobs, the recorder, the reference collection in its parts, the native job and
`join()`. A job may be interrupted at any point, a record may be lost, a
collection may miss a case of `Unstable` silently. Hashes, contexts and the
identity of the runner are abstracted to "this job's directory".

### MergeGate

The pull request, its check runs and its receipt change on a clock in which no
two events coincide. `ReadPull`, `ReadChecks`, `ReadCompare` and `Decide` are
the calls of `premerge()`, `GateFails` every error. `Existed`, `Latest` and
`CheckFindings` are `findings()`: which run of a key counts at a moment is
computed from what the API shows later. `AuditVerdict` is `merged_row()`. The
receipts are required (the activation has happened); then an absent approval is
excused by exactly what the receipt rule asks for, so reviews decide nothing and
are left out. One assumption about the outside: only the last run of a key is
run again in place. An application that overwrote a superseded run with a green
result later than a newer one started would hide the newer one from the audit.

### MergeAudit

The list of closed pull requests, the last updated first, and `audit()` reading
it page by page (`ReadPage`) with the stop at the cutoff. `Merge`, `Close` and
`Comment` move a pull request to the front; `Reopen` takes one that was closed
and not merged out of the list, and what is behind it moves forward; `Absorb` is
GitHub closing one as merged because the merge of another, or a push, brought
its head into the base. When the last page is read, `Verdict` judges the rows:
`Collateral` and `Admitted` are `indirect_merge()` (two rows of one commit, the
head is not the commit's own, its source is without findings and has a receipt,
or else the audit is not complete), `Pardoned` the exceptions and the accepted
history of `main()`. A row may be read twice, as in the code, and then counts as
its own sibling (`again`); the rows are a set otherwise, and so is a page.
`moved` is history: what was updated while the audit read, and what slid forward
over the edge of the pages read (`Unread`) because another was opened again. The
ancestry that `indirect_merge()` compares is `Below`: GitHub closes nothing
else, so its refusals of malformed or contradicting answers are left out.

### Rescan

The version list of a package, the newest first; `Push` puts a version in front,
a promotion writes `:latest` and its marker one after the other and may fail
between. `ReadPage` has the refusals of `fetch_versions()` (a version seen
twice, a page limit), `Selected` and `Plannable` are `select_digests()`. The
list of versions only grows: no code here deletes one.

### BuildInputs

A tree maps paths to objects; an object stands for its bytes, that is, for the
instructions of a Dockerfile, the rules of an ignore file or the target of a
link. `Problem` is each reason for which `parse_dockerfile()` gives up,
`Ignored` the loop of `IgnoreRules`, `Fingerprint` is `compute()`, and `Shadow`,
`PollImage` and `PollUnit` are what the three callers make of it, also when one
read fails, a listing is cut short or the promoted commit is no ancestor
(`Faults`). A floating frontend (`# syntax=`) does not make the fingerprint
unknown. It is a caveat beside the shadow verdict and a veto for the poll's skip
of an image (`poll-skip-decision.py:17-18`); the poll's answer about a UI unit
does not ask about it. The property follows these three rules: it is about every
image the poll skips, about shadow verdicts without a caveat, and about units
whose frontend has a digest.

`Build` says what BuildKit would take, without the tool's parser: the last
matching rule decides, links are followed, an ONBUILD is carried out by the
stage that starts from its own, and what has no digest, the frontend among it,
is whatever `world` holds. `Foreseen` names the four things that the fingerprint
does not hold: an image mounted into a `RUN`, an ONBUILD that a later stage of
the same file carries out, what a source that is a link leads to, and for a UI
unit a `.gitattributes` outside of it. What a command downloads on its own while
it runs is an input in neither.

### TimingRecord, SharedInputs, SkipCases

`TimingRecord` has one action per pytest hook; `Record` is `_write()`, which
may lose a line or tear it, and `Die` may come at any time. A test's own pytest
counts up `nested`, and a crash inside the test leaves the count up.

`SharedReviews` has one definition per reviewed transition: the paths it seals
and the kind of rule under which it is admitted. A blob of a path is the number
of reviews that have changed it, so that the reviewed states are a line of
points and everything else is off it. `Peeled` undoes the reviews from the last
to the first, as `admit_shared_inputs()` does; `Applies` and `Terms` say when
one has a say and what it then asks of blobs, pin and history; `Proof` is
`estate_successor_proof()`, which only the planner can make. Sources are the
reviewed ones with commits, reverts and cherry-picks after them, and the pin is
signed for any of them. Three pull requests that were merged as one review each
are kept apart only by their paths.

`SkipReviews` and `SkipCases` do the same for skipped cases: a case is admitted
at the blobs its module had in the reviews that name it. One case stands for
each way in which the code treats one: historical, hosted, cancelled by its
owner, owed natively, retired, added by a later review, in a module that the
historical run skipped whole. A module skipped at collection leaves one entry of
its own and no row of its cases (`SkipModule`, `absent`), in the shards or in
the reference; `admit_skips()` compares both with the baseline.

### BoardPostgres, EvidenceReuse, Attestation, Deadman

`BoardPostgres` has the two steps of the job; `Disturb` lets the suites of the
first change the checkout of the second. A group's outcome gives each test one
of passed, failed, skipped and unrun.

`EvidenceReuse` has the runs of the build workflow (`Dispatch`, `Conclude`,
`Rerun`, `RollOut` of a runner image) and the probe's calls between them. A job
that failed is queued again in the same run, so that a run that was finished
when it was listed may not be when it is read. `migration_base` is among the
inputs of a dispatch and not among the `Identities`, as in the code.

In `Attestation` a command may fail after its effect and may replace what the
registry held; `ci_retry()` repeats it while its error is a transient one. What
is verified is one read of the registry.

In `Deadman` the emitter writes every `Period`, the observer runs at most
`MaxGap` apart, and the receipt carries the emitter's clock, which leads or
lags.

## 3. Runs

| run | question | size |
|---|---|---|
| `image_two_runs` | does `:latest` never go back, are the records complete and immutable, does the pipeline implement the ledger | 2 runs, 3 commits of a line and one foreign, 5 digests |
| `image_three_runs` | does the group serialize, does every run end | 3 runs, so that a waiter is evicted; a history of 2 commits |
| `build_run` | does a publication rest on one attempt and on every gate, is a release of one attempt, is none aborted, does every attempt end | 2 validators (one sharded) one at a time, 2 images, 3 attempts, 1 fault |
| `plan_inputs` | do all jobs judge one source with all its gates; is the base a common ancestor; is a skipped or skippable build the same build | 3 repositories, 4 targets, all requests, 1 move of a branch; all histories of 4 commits, 3 images; 12 Dockerfiles, 4 + 2 ignore files, 2 files, 1 commit and 1 move after the promotion |
| `poll_rounds` | is nothing built twice, does the base cover, is every HEAD settled | 2 groups, 3 commits, 1 push, 1 release, 1 failure |
| `poll_rearm` | do chains not fork, not spin, and converge | 5 runs alive, 3 kicks, any wait timer |
| `ops_corpus` | is an accepted corpus a run one, a complete record a whole one; are inputs and skips reviewed, and is nothing left uncollected | 2 shards, 3 modules, 3 cases; 1 case, 2 sessions, 1 lost write; 32 reviews with 1 or 2 commits after each; 17 cases, 2 things that go wrong |
| `merge_gate` | does the gate judge one state, does the audit see the merge, do both agree; is reused evidence earned, are finished board suites and signatures what they say; is an outage noticed | 2 heads, 2 bases, 2 check runs, 9 events; 1 earlier run of 2 jobs; 2 sources of 6 packages; 2 platforms, 3 attempts; all phases of emitter and observer |
| `listings` | is a rescan plan complete, is a merge that does not move found though others do | 3 versions, pages of 1, 7 events; 3 pull requests, two in a stack, one accepted, 5 updates |
| `base_covers_group` | a finding, see below | 1 group, 1 push, 1 release, 1 failure |
| `unproved_inputs` | a finding, see below | as `plan_inputs` |
| `audit_misses_moved` | a finding, see below | 3 pull requests, pages of 2, 5 updates |

`plan_inputs`, `ops_corpus`, `merge_gate` and `listings` run several modules in
one state space (`PlanInputs`, `CorpusEvidence`, `Verdicts`, `Listings`). They
share nothing: `subject` (`reader`) says which one a behaviour is about, the
others stay idle, and each property speaks of its own. That keeps the number of
runs down to the number of subjects, and costs a sum of states, not a product.

Why these sizes. Two runs are what a race needs, three are what an eviction
needs (one holds, one waits, one evicts), and a fourth only waits like the
third. A linear history of three commits has an older, a middle and a newer one
for the gate; the foreign commit is what is on no branch. Two attempts are the
least for evidence of another attempt, and a third re-runs what a partial re-run
has left, where the sibling of a failed candidate fails again. One fault in a run
sets all of this off; that a run with more of them, or more attempts, has nothing
new to show is what the theorems of `BuildRunProofs` say, which bound neither,
except for `AttemptEnds`, which is checked up to these bounds only.
One move of a branch can happen between any two reads of the plan, and every
repository is read at most once for each of its uses. For the base, two images
cannot show an order problem and three can. A page must be full at least once
and there must be a second one. `MaxTime`, `MaxPushes`, `MaxReleases`,
`MaxFailures`, `MaxFaults`, `MaxKicks`, `MaxMoves`, `MaxAttempts`, `MaxRuns`,
`MaxPages` are bounds on counters; each is as large as the time of a run allows.
Deadlock checking is off where a workflow run, a pull request or a bounded clock
simply comes to its end; it is on for `ImageRelease` and `PollRearm` and the
poll, where something can always happen. Symmetry is used in `image_two_runs`,
`listings` and `audit_misses_moved` only, which have no liveness property.

### Findings

Three runs show a place where the code does something else than a text of the
repository says of it, and `PROJECT.json` quotes the text.

* `base_covers_group`: README.md says the base of the SQL validation is that of
  the earliest group member; it is computed from the images without a marker
  and used for the whole group.
* `audit_misses_moved`: README.md says that an unreceipted merge cannot age out
  of the gate; one that is commented on between two page reads is not seen by
  that audit, which ends clean.
* `unproved_inputs`: the fingerprint says of itself that what it cannot prove is
  unknown; an image without a digest that a `RUN` mounts is not looked at.

Met while modelling, and visible in the modules, but without a run:

* `build.yml:1731` calls the candidates of a release all-or-nothing. After one
  candidate build failed, "re-run failed jobs" makes a receipt of attempt 2 for
  that image only; its publish job goes on, that of its sibling refuses
  (`MarkBuilt` of `BuildRun` needs the candidate of the attempt).
* `poll-sources.yml:286` gives way to active runs so as "never risk cancelling a
  queued promote". The list is read once: two releases of the same HEAD that
  arrive between `ListRuns` and `Send` leave one waiting, and `Start` evicts it.
* `poll-skip-decision.py:150` promises the oldest promoted ancestor. With three
  baselines it is refused if two incomparable ones are met first, which depends
  on the order of the hashes (`OlderOf` in `PollDecision`).
* `poll-rearm.sh:74` stops because a newer run owns the chain. The newer run may
  be a dry run, whose rearm job is skipped; nobody polls until cron fires
  (`Stop` and `carries` in `PollRearm`).
* `merge-hygiene-audit.py:525` says that a lone bad merge is never turned into
  an ancestry search. A row that a page shift shows twice is its own sibling,
  and is (`Collateral` of `MergeAudit`).
* `poll-sources.yml:238` says that one remaining image is dispatched alone; it
  is only if the others lack a marker, too (`Target` in `PollDecision`).
* `build.yml:30` says promotion takes the HEAD of the default branch; the gate
  also takes an older commit with the same inputs (`Authorized`).
* `alert-chain-deadman.yml:14` gives the latency of detection as the interval of
  the schedule plus 45 minutes; a leading clock of the emitter adds its lead, up
  to another 45 minutes (`Evaluate` in `Deadman`; `DetectedInTime` states the
  bound that holds).
* `verification-evidence.py:7` calls the identity half of reusing evidence
  airtight. `migration_base` (`build.yml:25`) is an input that decides what the
  SQL of YueOps is validated from, and `assess_candidate()` does not compare it:
  two runs that differ in it have the same identities (`Identities` of
  `EvidenceReuse`). Nothing is skipped on this evidence as yet.
* `build.yml:1718` says that publish no longer waits for validation; it does
  (`AllGatesGreen`).

### Fairness

Safety needs none. `RunsEnd` assumes weak fairness of each run's own steps
(`Proceed`): every job has `timeout-minutes`, so it ends, and GitHub starts a
job whose group is free. `AttemptEnds` assumes weak fairness of the scheduler
and of the end of a job, for the same reason. `ChainsConverge` assumes that a
started run goes on and that time passes; kicks are bounded, that is, people
stop. `EveryHeadSettles` assumes that rounds go on (cron starts them even if the
chain has died) and that an active run marks its images and ends (`Proceed`; its
jobs have timeouts, and one that gives up counts as a failure); nothing makes it
promote. Failures, pushes and releases are bounded, and failing for ever is the
only way not to settle. It is checked for images that have been promoted once
and for a linear history: the poller refuses Ops groups without a promoted
ancestor by design.

## 4. Proofs

TLAPS checks the following for all values of the constants. What they assume is
in the ASSUMEs of the modules: history is a partial order, the delay is longer
than the timeout, targets of one repository agree on ref and validation, modules
have disjoint cases, the commits of a history are finitely many and, as in
`Poll`, named by their place in the order of the hashes (`LineAssumption`), and
"no such tag" is not a run, a digest or a commit (`NoneAssumption`). Theorems
about an instance have what they assume as a hypothesis, a definition of the
module (`DelaysAssumption`, `FormatsAssumption`, `NoRunAssumption`,
`AuditAssumption`, `TreesAssumption`, `CasesAssumption`, `FloorReachable`); TLC
evaluates them on the constants of the runs (`InstanceAssumption` in the MC
modules). The bounds of the exploration are constants like the others, so a
theorem holds for every bound. A theorem about an instance states its property
twice: of the module by itself, and of the modules side by side, which is what
the run checks; only the chosen one moves (`OneMoves`), so the invariant of the
one is an invariant of the other.

**ImageReleaseProofs.** `TypeCorrect`, `Serialized`, `BuiltIsVerified`,
`RecordIsComplete`, `NeverBackwards`, `RecordsImmutable`, `ImplementsLedger`,
`KeepsRevisions`. The inductive invariant has to say who may be where: a run
inside the group is the holder, and so what it has read of the tags is still
true when it writes. "Read" is the point: `seenLatest` equals `latest` from the
second gate on, and a tag in `todo` that is immutable is still absent. From that
follow the action properties and each step of the refinement. `KeepsRevisions`
rests on the ledger alone: a step that the ledger allows is one that a reader of
revisions allows or does not see (`LedgerStepIsSeen`), because a digest takes
the marker of its own label.

**BuildRunProofs.** `RunTypeCorrect`, `GatesBeforePublish`, `NeverAborted`,
`EvidenceOfOneAttempt`, `OneAttemptRelease`. The argument is that a job that is
over stays over within an attempt, so what a job saw of its needs when it
started is still so; and that a green evidence job squeezes the attempts: a
sharded validator and the join need the admission plan of their own attempt,
which only a re-run of the plan makes, and re-running the plan re-runs
everything. That a release is of one attempt (`CandidateInv`) is a comparison of
attempts, too: no artifact of an image and no mark on it is younger than its
last build, a green build may be older than the attempt it is kept in, and a
publication that GitHub keeps green is kept only if every build is, so that no
sibling has been built since.

**PollRearmProofs.** `RearmInvariant`, `RearmTypeCorrect`, `OneRearm`,
`DispatchesApart`. Time takes the place of a lock: if two runs were between look
and dispatch, the newer one was created after the older one's look, and so has
not waited long enough, because the delay is longer than the timeout.

**PollProofs.** `NeverRepeats`: one round looks at each group once, sends only
when the list of runs was empty after the scan, and no other round runs.
`PublicationAdmitted` ties the rounds to the publication: in every reachable
state (`FullInvariant`), whatever the ledger lets an active run do to one of its
images is a step of `Poll`. The proof needs to know that the gate would have
agreed: a release builds what its branch had as HEAD, and branches only move on
(`BranchInv`), so there is a HEAD under which the commit passes. With
`KeepsRevisions` this is what a composition of `Poll` and `ImageRelease` over
one registry would have shown, without the product of their states.
`PollTypeCorrect` is one of the conjuncts. `BaseIsOldest` is about
`migration_base()` alone: what each turn keeps (`GoodTurn`) is that the loop
stands at a baseline which the first one and all before it reach, or has met
diverging history. Induction over the turns is out of reach, so the proof takes
the least turn that fails (`LeastNumber`); that the recursive function exists
(`LoopRuns`) and that a finite set of commits has a greatest (`MaxIsGreatest`)
is proved the same way. `BaseStaysCovered` carries it through the rounds: what
was found out about an image was so when it was asked, and remains so because
the promise lets `:latest` move to a descendant only (`PromiseKeeps`; nothing
else about publication is used); facts do not outlive the group they are about
(`FactsInv`).

**OpsCorpusProofs.** `PlanPartitions`, `TypeCorrect`, `CorpusWasRun`,
`GoodRunsPass`. The invariant goes back from a record to what happened: what is
recorded did run in that shard, and what did not is missing from the record or
the record is incomplete; join refuses both. `GoodRunsPass` is the other
direction (`CalmInv`): as long as nothing has happened, every shard has
collected exactly the cases of its modules that are not skipped, the reference
has collected the same, and so both are empty for the same shards. It takes for
granted that the native job is not asked for more calls than there are
(`FloorReachable`). `AdmittedAreReviewed` and `LastingStay` hold for any number
of commits, reverts and cherry-picks after any reviewed source. The list of
reviews is the code's own, so the proof first establishes what it needs of it
(`ReviewsHaveShape`); then every review gives its paths a higher blob
(`BlobsGrow`), a review that is peeled off whole leaves inputs that the earlier
ones account for (`LayersAreSound`, by the first layer of which that is not so),
and a review that the inputs still carry is in the source's history, which the
outermost review over its path shows (`CarriedIsLanded`). `SkipsStayNamed` holds
for any number of faults: a review that names a case gives the module a new
blob, so an admitted skip at that blob is the named one; and a case without a
row is in a module that the shards skipped whole (`RowInv`), which is admitted
of one module at one blob only, and when the reference skipped it, too
(`AbsentIsExcused`). `CompleteRecords` is about the recorder of a legacy run,
for any cases with distinct names and any number of sessions, nested runs and
lost or torn writes. That a complete record is of one session is counting
(`CountInv`): each session shows both of its first lines or has counted a loss,
which its last line would tell. In one session each phase happens once and in
order (`RunInv`); so the record is what happened, or some phase is missing from
it for good (`PhasesInv`), and then `inspect()` finds too few phases of that
case. What a selection from a sequence keeps (`PickedMembers`, `PickedAppend`)
is proved from the recursive function that defines it, by `EveryNumber`:
induction over a set of numbers instead of an operator.

**VerdictProofs.** Five verdicts on external state. `GateInvariant`,
`PassIsJudged`, `AuditIsOfTheMerge`, `AuditAgrees` are about the gate and the
audit. The audit has to tell from the check runs it sees now how they were at
the merge. Its invariant says that the times of a run are in order and before
now, that runs of one check follow one another, and that whatever the gate has
read of them was so at its time and has left a later time behind if it changed
since. Neither needs the bounds, and both hold whether or not a check shows when
it was created. `AlarmInTime`: as long as an outage has not been noticed, the
receipt is older than the outage less the lead of the clock, and the next look
is due; this is where `Period <= MaxAge` is needed, or a live chain would be
taken for a dead one. `SignedIsAttested`: between attesting and verifying, the
set of statements of each platform that is done is what verification asks for.
The proof failed at first, rightly: a statement for a known and an unknown
architecture counts for the known one, because the script looks only at those it
knows; the property said otherwise and TLC had no such statement to start with.
Both were corrected. `DoneMeansAllRan`: the receipt names only what ran on its
manifest, and the checkout is compared with the manifest before each group.
`ReusedIsEarned`: what was read of a run was true of it then, and success
cannot be undone, only repeated. The newest of several good runs exists because
a set of numbers has a least one; this comes from the well-foundedness of the
naturals and needs no induction.

**ListingProofs.** `ListingInvariant`, `PlansAreComplete`, `RecentArePlanned`,
`MissedOnlyMoved`, for any page size, depth and number of versions. A version
that was not written since the beginning has the row that was read. A push only
moves others back, so what was not read yet is behind the pages read or is a
candidate pushed since; and a page that is not full ends the list, which is
counting (`NotFullIsLast`). For a recent promotion, each row that is ahead of it
stands for a different version that was newer at the beginning or was written
since (`RecentIsSelected`), so that there cannot be too many. `MissedOnlyMoved`
is the same question for the audit of merges, whose list moves the other way: a
row that is updated goes to the front, where pages that were read are not read
again. Every other row keeps its place or moves back (`FrontAndBack`). Where one
is opened again, what was behind it moves forward by one place, and over the
edge of the pages read can only come the one that stood there, which is in
`moved` (`ReopenKeeps`). So what was merged when the audit began and is not in
`moved` is among the rows or behind the pages read (`PagesInv`); and what is
behind a last page was updated, hence merged, before the cutoff
(`NothingBehind`). What is left is that the verdict over the rows drops nobody
(`FoundOrExcused`).

**BuildPlanProofs.** `PlanInvariant`, `PlanTypeCorrect`, `OneSource`,
`PinnedBoard`, `NamedPromotion`, `GatesKept`. All rows of one repository have
one ref from the selection on, through every rewriting; therefore one resolution
freezes them all, and an image and its validations stay in step.
`InputsInvariant`, `SkipsAreSound` are about the inputs of an image, for any
trees whose Dockerfiles and ignore files have the shape that the parser hands on
(`TreesAssumption`). The tool runs through the rules of an ignore file and
passes over those that would change nothing; BuildKit asks the last one that
matches. That the two agree (`IgnoredByLast`) is proved by giving the outcome of
the loop in closed form (`LastSaysIsLoop`) and looking at the least number of
rules at which the loop could end otherwise (`OneRuleLoop`). Then every
instruction of a Dockerfile without problems takes what cannot move, or files
that are in the fingerprint (`TakenCannotMove`, `ContextIsFingerprinted`); in
the scope of a unit, because what lies in a directory of the unit lies in the
unit. Each of the three answers compares two fingerprints that are known
(`SkipIsCompared`); equal ones hold the same Dockerfile, and its frontend has a
digest where the poll skips or the verdict has no caveat, so that the
frontend cannot move either. `BaseIsSound` is about the base of the SQL
validation over every history: here histories are states, so the invariant says
that the one chosen is a partial order on commits of the line (`IsHistory`,
`BaseInv`). The rest is the argument of `BaseIsOldest` with the history as a
parameter: what one turn keeps (`GoodTurn`, `TurnKeeps`) holds at the end of the
loop (`LoopIsGood`), where all baselines have been met (`BaseIsLastTurn`).

Only model-checked: the liveness properties `RunsEnd`, `AttemptEnds`,
`ChainsConverge` and `EveryHeadSettles`, which rest on fairness, and so on
`ENABLED`. Every invariant and every action property of a passing run is stated
by a theorem. The other way round, the type invariants of `ImageRelease`,
`BuildRun`, `Poll`, `PollRearm`, `OpsCorpus` and `BuildPlan`, and
`RevisionSpec`, are theorems and take up no run.

## 5. Plan

Done, in this order: the publication of an image with its ledger; the job graph;
the chain of polls; the scan; the corpus; the plan; merge hygiene; the rescan;
the inputs of a build; the reviews of shared inputs and skips; the recorder; the
board suites, the evidence probe, signing and the deadman.

Next:

* The plan of one unit end to end: the fingerprint of `BuildInputs` as the
  decision of `BuildPlan`, so that `SkipsAreSound` speaks of a planned build.
* A run of `Poll` in the steps of `BuildRun`: that a publication of one attempt
  is what an active run may do, as `PublicationAdmitted` shows of the tags.

## 6. Not modelled

* `validate-native-node-contract.py`, `check-first-native-source.py`,
  `changed-migrations.py`, `admission-precheck.py`, `go-cache-plan.py`,
  `list-integration-tests.go`: sequential checks of data by one process, without
  state between runs. Their verdict is the end of a validator in `BuildRun`.
* `ui_static_units.py`: rendering of Dockerfiles and the commands that validate
  a unit; no unit is registered.
* cosign, Trivy, provenance: cryptography and scanners; their verdict is a step
  of the build job.
* That a sealed review or record was altered: every transition compares a hash
  first and stops; the models start after that.
* Installers of tools: they compare a checksum and stop.
* `board-visual-capture.yml`, `policy-ci.yml`: a job that runs a script.
* The advisory manifest of changed paths (`input-fingerprint.py` `feedback`):
  one process compares two listings that it has read and prints the difference;
  nothing is decided by it. How a listing is refused that was cut short is
  `Entries` of `BuildInputs`.
* Whether a chain of polls that has died is ever revived: cron and people do
  that, and `ChainsConverge` bounds the number of chains from above only.
* The ETag cache of the audit: what is reused without asking is the comparison
  of two immutable commits, a constant of the models.
* The legacy short-hash marker that the poller also accepts.
* `merge-receipts/`, `reviews/`, `parity-logs/`: data.
