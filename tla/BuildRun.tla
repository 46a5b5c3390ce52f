------------------------------- MODULE BuildRun -------------------------------
(***************************************************************************)
(* The job graph of ONE build.yml run and of its re-runs: plan, the        *)
(* validate matrix, validation-evidence, the candidate build matrix, the   *)
(* publish matrix, and the two jobs that cancel a doomed run.              *)
(*                                                                         *)
(* GitHub's scheduler is part of the model: needs and if, fail-fast,       *)
(* max-parallel, cancellation that a running job may still outrun, and     *)
(* "Re-run failed jobs" next to "Re-run all jobs".  Artifacts carry the    *)
(* attempt they were made in; what a publish job does to the registry tags *)
(* is in ImageRelease.                                                     *)
(***************************************************************************)
EXTENDS Naturals, FiniteSets

CONSTANTS
    Validators,   \* rows of the validate matrix
    Sharded,      \* the rows that read the admission plan (yueops shards)
    Services,     \* rows of the build and publish matrices
    MaxParallel,  \* needs.plan.outputs.validation_parallelism
    MaxAttempts,  \* bound on run_attempt
    MaxFaults     \* bound on what goes wrong by itself: a job that fails
                  \* though it could succeed, a cancellation, an eviction

ASSUME RunAssumption ==
    /\ Sharded \subseteq Validators
    /\ Validators # {} /\ Services # {}
    /\ MaxParallel \in Nat \ {0}
    /\ MaxAttempts \in Nat \ {0}
    /\ MaxFaults \in Nat

VARIABLES
    attempt,    \* github.run_attempt
    cancel,     \* who asked to cancel this attempt: "none", "abort", "user"
    plan,       \* status of the plan job
    hasBuilds,  \* needs.plan.outputs.has_builds
    validate,   \* status of each validate row
    evidence,   \* status of validation-evidence
    build,      \* status of each candidate build row
    publish,    \* status of each publish row
    aborts,     \* the two abort-on-*-failure jobs; how one ended tells nobody
    artifacts,  \* <<name, row, attempt>> uploaded so far
    marked,     \* <<service, attempt>>: this attempt wrote built-<sha>
    ranAt,      \* attempt in which plan, evidence and each row last ran
    faults      \* how much has gone wrong, for MaxFaults

jobs == <<plan, hasBuilds, validate, evidence, build, publish, aborts>>
vars == <<attempt, cancel, jobs, artifacts, marked, ranAt, faults>>

Attempts == 1..MaxAttempts
Over == {"success", "failure", "cancelled", "skipped"}
Status == {"waiting", "running"} \cup Over
AbortJobs == {"validate", "build"}

Admission(a) == <<"ops-admission", "plan", a>>
Shard(v, a) == <<"ops-shard", v, a>>
Candidate(s, a) == <<"candidate", s, a>>

TypeOK ==
    /\ attempt \in Attempts
    /\ cancel \in {"none", "abort", "user"}
    /\ plan \in Status /\ evidence \in Status
    /\ hasBuilds \in BOOLEAN
    /\ validate \in [Validators -> Status]
    /\ build \in [Services -> Status]
    /\ publish \in [Services -> Status]
    /\ aborts \in [AbortJobs -> {"waiting", "running", "over"}]
    /\ artifacts \subseteq {Admission(a) : a \in Attempts}
                   \cup {Shard(v, a) : v \in Sharded, a \in Attempts}
                   \cup {Candidate(s, a) : s \in Services, a \in Attempts}
    /\ marked \subseteq Services \X Attempts
    /\ ranAt \in [plan: 0..MaxAttempts, evidence: 0..MaxAttempts,
                  validate: [Validators -> 0..MaxAttempts],
                  build: [Services -> 0..MaxAttempts]]
    /\ faults \in 0..MaxFaults

Init ==
    /\ attempt = 1
    /\ cancel = "none"
    /\ plan = "waiting" /\ evidence = "waiting"
    /\ hasBuilds \in BOOLEAN
    /\ validate = [v \in Validators |-> "waiting"]
    /\ build = [s \in Services |-> "waiting"]
    /\ publish = [s \in Services |-> "waiting"]
    /\ aborts = [j \in AbortJobs |-> "waiting"]
    /\ artifacts = {}
    /\ marked = {}
    /\ ranAt = [plan |-> 0, evidence |-> 0,
                validate |-> [v \in Validators |-> 0],
                build |-> [s \in Services |-> 0]]
    /\ faults = 0

-----------------------------------------------------------------------------
(* What GitHub reports of a matrix to the jobs that need it.               *)

AllOver(rows) == \A i \in DOMAIN rows : rows[i] \in Over
SomeRow(rows, status) == \E i \in DOMAIN rows : rows[i] = status
EveryRow(rows, status) == \A i \in DOMAIN rows : rows[i] = status

\* A row that waits or runs while the run is being cancelled, or while a
\* sibling has failed in a fail-fast matrix.
Doomed(rows) == cancel # "none" \/ SomeRow(rows, "failure")

\* The artifact a job uploads before it ends: one that fails or is cancelled
\* may have uploaded it or not.
Leaves(artifact, result) ==
    \/ artifacts' = artifacts \cup {artifact}
    \/ result # "success" /\ UNCHANGED artifacts

\* Counts what goes wrong by itself.
Fault(wrong) == /\ faults' = faults + IF wrong THEN 1 ELSE 0
                /\ faults' <= MaxFaults

-----------------------------------------------------------------------------
(* plan                                                                    *)

RunPlan ==
    /\ plan = "waiting"
    /\ \E result \in {"success", "failure", "cancelled"} :
          /\ result = "cancelled" => cancel # "none"
          /\ plan' = result
          /\ Leaves(Admission(attempt), result)
          /\ Fault(result = "failure")
    /\ ranAt' = [ranAt EXCEPT !.plan = attempt]
    /\ UNCHANGED <<attempt, cancel, hasBuilds, validate, evidence, build,
                   publish, aborts, marked>>

-----------------------------------------------------------------------------
(* validate                                                                *)

StartValidate(v) ==
    /\ validate[v] = "waiting"
    /\ plan = "success"
    /\ ~Doomed(validate)
    /\ Cardinality({w \in Validators : validate[w] = "running"}) < MaxParallel
    /\ validate' = [validate EXCEPT ![v] = "running"]
    /\ ranAt' = [ranAt EXCEPT !.validate[v] = attempt]
    /\ UNCHANGED <<attempt, cancel, plan, hasBuilds, evidence, build, publish,
                   aborts, artifacts, marked, faults>>

\* A sharded row downloads the admission plan of this very attempt first and
\* uploads its evidence last, if: always().
EndValidate(v) ==
    /\ validate[v] = "running"
    /\ \E result \in {"success", "failure", "cancelled"} :
          /\ result = "cancelled" => Doomed(validate)
          /\ result = "success" /\ v \in Sharded
                => Admission(attempt) \in artifacts
          /\ validate' = [validate EXCEPT ![v] = result]
          /\ Fault(result = "failure" /\
                   (v \in Sharded => Admission(attempt) \in artifacts))
          /\ IF v \in Sharded THEN Leaves(Shard(v, attempt), result)
             ELSE UNCHANGED artifacts
    /\ UNCHANGED <<attempt, cancel, plan, hasBuilds, evidence, build, publish,
                   aborts, marked, ranAt>>

\* Faulty variant for AttemptEnds: the rows that wait behind a failed one are
\* forgotten.
DropValidateAfterPlan(v) ==
    /\ validate[v] = "waiting"
    /\ plan \in Over \ {"success"}
    /\ validate' = [validate EXCEPT ![v] = "skipped"]
    /\ UNCHANGED <<attempt, cancel, plan, hasBuilds, evidence, build, publish,
                   aborts, artifacts, marked, ranAt, faults>>

DropValidate(v) ==
    /\ validate[v] = "waiting"
    /\ \/ /\ plan \in Over \ {"success"}
          /\ validate' = [validate EXCEPT ![v] = "skipped"]
       \/ /\ Doomed(validate)
          /\ validate' = [validate EXCEPT ![v] = "cancelled"]
    /\ UNCHANGED <<attempt, cancel, plan, hasBuilds, evidence, build, publish,
                   aborts, artifacts, marked, ranAt, faults>>

-----------------------------------------------------------------------------
(* validation-evidence: if always() && plan succeeded                      *)

StartEvidence ==
    /\ evidence = "waiting"
    /\ plan \in Over /\ AllOver(validate)
    /\ IF plan = "success"
       THEN /\ evidence' = "running"
            /\ ranAt' = [ranAt EXCEPT !.evidence = attempt]
       ELSE evidence' = "skipped" /\ UNCHANGED ranAt
    /\ UNCHANGED <<attempt, cancel, plan, hasBuilds, validate, build, publish,
                   aborts, artifacts, marked, faults>>

\* Faulty variant for OneAttemptEvidence: the admission of an earlier attempt
\* is good enough.
EvidenceOfAnyAttempt ==
    /\ \E a \in 1..attempt : Admission(a) \in artifacts
    /\ \A v \in Sharded : \E a \in 1..attempt : Shard(v, a) \in artifacts
    /\ EveryRow(validate, "success")

\* join: this attempt's admission, every shard's evidence, and validation
\* itself reported success.
EvidenceComplete ==
    /\ Admission(attempt) \in artifacts
    /\ \A v \in Sharded : Shard(v, attempt) \in artifacts
    /\ EveryRow(validate, "success")

EndEvidence ==
    /\ evidence = "running"
    /\ \/ EvidenceComplete /\ evidence' = "success" /\ UNCHANGED faults
       \/ evidence' = "failure" /\ Fault(EvidenceComplete)
    /\ UNCHANGED <<attempt, cancel, plan, hasBuilds, validate, build, publish,
                   aborts, artifacts, marked, ranAt>>

-----------------------------------------------------------------------------
(* build: needs plan only, so it overlaps validation                       *)

StartBuild(s) ==
    /\ build[s] = "waiting"
    /\ plan = "success" /\ hasBuilds
    /\ ~Doomed(build)
    /\ build' = [build EXCEPT ![s] = "running"]
    /\ ranAt' = [ranAt EXCEPT !.build[s] = attempt]
    /\ UNCHANGED <<attempt, cancel, plan, hasBuilds, validate, evidence,
                   publish, aborts, artifacts, marked, faults>>

EndBuild(s) ==
    /\ build[s] = "running"
    /\ \E result \in {"success", "failure", "cancelled"} :
          /\ result = "cancelled" => Doomed(build)
          /\ build' = [build EXCEPT ![s] = result]
          /\ Leaves(Candidate(s, attempt), result)
          /\ Fault(result = "failure")
    /\ UNCHANGED <<attempt, cancel, plan, hasBuilds, validate, evidence,
                   publish, aborts, marked, ranAt>>

\* A row that waits for verified-image-<service> is cancelled when a job of
\* another run starts to wait behind it.
DropBuild(s) ==
    /\ build[s] = "waiting"
    /\ \/ /\ plan \in Over \ {"success"} \/ (plan = "success" /\ ~hasBuilds)
          /\ build' = [build EXCEPT ![s] = "skipped"]
          /\ UNCHANGED faults
       \/ /\ Doomed(build) \/ (plan = "success" /\ hasBuilds)
          /\ build' = [build EXCEPT ![s] = "cancelled"]
          /\ Fault(~Doomed(build))
    /\ UNCHANGED <<attempt, cancel, plan, hasBuilds, validate, evidence,
                   publish, aborts, artifacts, marked, ranAt>>

-----------------------------------------------------------------------------
(* publish: needs build, plan, validate and validation-evidence            *)

PublishNeedsOver ==
    plan \in Over /\ evidence \in Over /\ AllOver(validate) /\ AllOver(build)

\* Faulty variant for PublishAfterEveryGate: the evidence job is not needed.
GatesWithoutEvidence ==
    /\ plan = "success" /\ hasBuilds
    /\ EveryRow(validate, "success") /\ EveryRow(build, "success")

\* Faulty variant for PublicationNeverAborted: publish does not wait for
\* validation.
GatesWithoutValidation ==
    plan = "success" /\ hasBuilds /\ EveryRow(build, "success")

AllGatesGreen ==
    /\ plan = "success" /\ hasBuilds
    /\ evidence = "success"
    /\ EveryRow(validate, "success") /\ EveryRow(build, "success")

StartPublish(s) ==
    /\ publish[s] = "waiting"
    /\ AllGatesGreen
    /\ cancel = "none"
    /\ publish' = [publish EXCEPT ![s] = "running"]
    /\ UNCHANGED <<attempt, cancel, plan, hasBuilds, validate, evidence,
                   build, aborts, artifacts, marked, ranAt, faults>>

\* Faulty variant for ReleaseOfOneAttempt: a receipt of an earlier attempt
\* is read as well.
MarkBuiltFromAnyAttempt(s) ==
    /\ publish[s] = "running"
    /\ \E a \in 1..attempt : Candidate(s, a) \in artifacts
    /\ marked' = marked \cup {<<s, attempt>>}
    /\ UNCHANGED <<attempt, cancel, jobs, artifacts, ranAt, faults>>

\* The receipt of this attempt is read back; only then a tag is written.
MarkBuilt(s) ==
    /\ publish[s] = "running"
    /\ Candidate(s, attempt) \in artifacts
    /\ marked' = marked \cup {<<s, attempt>>}
    /\ UNCHANGED <<attempt, cancel, jobs, artifacts, ranAt, faults>>

EndPublish(s) ==
    /\ publish[s] = "running"
    /\ \/ /\ <<s, attempt>> \in marked
          /\ publish' = [publish EXCEPT ![s] = "success"]
          /\ UNCHANGED faults
       \/ /\ publish' = [publish EXCEPT ![s] = "failure"]
          /\ Fault(Candidate(s, attempt) \in artifacts)
       \/ /\ cancel # "none"
          /\ publish' = [publish EXCEPT ![s] = "cancelled"]
          /\ UNCHANGED faults
    /\ UNCHANGED <<attempt, cancel, plan, hasBuilds, validate, evidence,
                   build, aborts, artifacts, marked, ranAt>>

\* Skipped after a red gate, or cancelled, also by a newer job in its group.
DropPublish(s) ==
    /\ publish[s] = "waiting"
    /\ \/ /\ PublishNeedsOver
          /\ ~AllGatesGreen
          /\ publish' = [publish EXCEPT ![s] = "skipped"]
          /\ UNCHANGED faults
       \/ /\ cancel # "none" \/ AllGatesGreen
          /\ publish' = [publish EXCEPT ![s] = "cancelled"]
          /\ Fault(cancel = "none")
    /\ UNCHANGED <<attempt, cancel, plan, hasBuilds, validate, evidence,
                   build, aborts, artifacts, marked, ranAt>>

-----------------------------------------------------------------------------
(* abort-on-validate-failure and abort-on-build-failure: if failure()      *)

NeededRows(j) == IF j = "validate" THEN validate ELSE build

StartAbort(j) ==
    /\ aborts[j] = "waiting"
    /\ plan \in Over /\ AllOver(NeededRows(j))
    /\ \/ /\ plan = "failure" \/ SomeRow(NeededRows(j), "failure")
          /\ aborts' = [aborts EXCEPT ![j] = "running"]
       \/ /\ \/ plan # "failure" /\ ~SomeRow(NeededRows(j), "failure")
             \/ cancel # "none"
          /\ aborts' = [aborts EXCEPT ![j] = "over"]
    /\ UNCHANGED <<attempt, cancel, plan, hasBuilds, validate, evidence,
                   build, publish, artifacts, marked, ranAt, faults>>

\* gh run cancel; the request can fail.
EndAbort(j) ==
    /\ aborts[j] = "running"
    /\ aborts' = [aborts EXCEPT ![j] = "over"]
    /\ \/ cancel' = IF cancel = "none" THEN "abort" ELSE cancel
       \/ UNCHANGED cancel
    /\ UNCHANGED <<attempt, plan, hasBuilds, validate, evidence, build,
                   publish, artifacts, marked, ranAt, faults>>

-----------------------------------------------------------------------------
(* People: cancel the run, or re-run it once it is over.                   *)

RunOver == /\ {plan, evidence} \subseteq Over
           /\ AllOver(validate) /\ AllOver(build)
           /\ AllOver(publish) /\ EveryRow(aborts, "over")

CancelRun ==
    /\ ~RunOver
    /\ cancel = "none"
    /\ cancel' = "user"
    /\ Fault(TRUE)
    /\ UNCHANGED <<attempt, jobs, artifacts, marked, ranAt>>

\* A re-run keeps the results named by kept, everything else starts again.
Rerun(keepPlan, keepEvidence, keptV, keptB, keptP) ==
    /\ RunOver
    /\ attempt < MaxAttempts
    /\ attempt' = attempt + 1
    /\ cancel' = "none"
    /\ plan' = IF keepPlan THEN plan ELSE "waiting"
    /\ evidence' = IF keepEvidence THEN evidence ELSE "waiting"
    /\ validate' = [v \in Validators |-> IF v \in keptV THEN validate[v]
                                         ELSE "waiting"]
    /\ build' = [s \in Services |-> IF s \in keptB THEN build[s] ELSE "waiting"]
    /\ publish' = [s \in Services |-> IF s \in keptP THEN publish[s]
                                      ELSE "waiting"]
    /\ aborts' = [j \in AbortJobs |-> "waiting"]
    /\ UNCHANGED <<artifacts, marked, ranAt, faults>>

\* Re-run all jobs: the plan is made again, perhaps with other builds.
RerunAll ==
    /\ Rerun(FALSE, FALSE, {}, {}, {})
    /\ hasBuilds' \in BOOLEAN

\* Re-run failed jobs: successful jobs keep their result and their outputs,
\* the others and all that depends on them run again.
RerunFailed ==
    /\ plan = "success"
    /\ \E status \in {"failure", "cancelled"} :
          evidence = status \/ SomeRow(validate, status)
          \/ SomeRow(build, status) \/ SomeRow(publish, status)
    /\ LET okV == {v \in Validators : validate[v] = "success"}
           okB == {s \in Services : build[s] = "success"}
           okE == evidence = "success" /\ okV = Validators
           okP == IF okE /\ okB = Services
                  THEN {s \in Services : publish[s] = "success"} ELSE {}
       IN  Rerun(TRUE, okE, okV, okB, okP)
    /\ UNCHANGED hasBuilds

-----------------------------------------------------------------------------
\* What GitHub and the runners do by themselves.
Scheduler ==
    \/ RunPlan
    \/ \E v \in Validators : StartValidate(v) \/ EndValidate(v) \/ DropValidate(v)
    \/ StartEvidence \/ EndEvidence
    \/ \E s \in Services : \/ StartBuild(s) \/ EndBuild(s) \/ DropBuild(s)
                           \/ StartPublish(s) \/ MarkBuilt(s) \/ EndPublish(s)
                           \/ DropPublish(s)
    \/ \E j \in AbortJobs : StartAbort(j) \/ EndAbort(j)

Next == Scheduler \/ CancelRun \/ RerunAll \/ RerunFailed

Spec == Init /\ [][Next]_vars

\* Every job has timeout-minutes, so the scheduler never rests while a job of
\* the attempt is not over.
FairSpec == Spec /\ WF_vars(Scheduler)

-----------------------------------------------------------------------------
(* Properties.                                                             *)

\* No image is published unless the whole validation, its evidence and every
\* candidate of the run have succeeded, and stay so while it is published.
PublishAfterEveryGate ==
    \A s \in Services : publish[s] = "running" \/ <<s, attempt>> \in marked =>
        /\ plan = "success" /\ evidence = "success"
        /\ EveryRow(validate, "success") /\ EveryRow(build, "success")

\* The jobs that cancel a doomed run never reach a run that is publishing:
\* no image is left half-tagged to react to a failed validation or build.
PublicationNeverAborted ==
    (\E s \in Services : publish[s] = "running")
        => cancel # "abort" /\ ~SomeRow(aborts, "running")

\* The evidence a publication rests on is that of ONE attempt: the plan, all
\* validators and the join ran together, however the run was re-run, because
\* a partial re-run has no admission plan of its own to join against.
OneAttemptEvidence ==
    evidence = "success" =>
        /\ ranAt.plan = ranAt.evidence
        /\ \A v \in Validators : ranAt.validate[v] = ranAt.evidence

\* Candidates are all-or-nothing for one release: an attempt never puts
\* built-<sha> on an image it has not built itself, and images that are
\* published next to one another were all built, and all marked, by one
\* attempt.  A partial re-run after a failed candidate therefore cannot piece
\* a release together from two builds, whichever results GitHub keeps.
ReleaseOfOneAttempt ==
    /\ \A s \in Services : <<s, attempt>> \in marked => ranAt.build[s] = attempt
    /\ \A s, t \in Services :
          publish[s] = "success" /\ publish[t] = "success" =>
              /\ ranAt.build[s] = ranAt.build[t]
              /\ {<<s, ranAt.build[s]>>, <<t, ranAt.build[s]>>} \subseteq marked

\* Every attempt comes to an end: no job waits for ever behind a failed row, a
\* full matrix, a skipped need or a cancelled run.  An attempt is left only
\* when it is over, and there are finitely many.
AttemptEnds == []<>RunOver
=============================================================================
