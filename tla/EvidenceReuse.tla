---------------------------- MODULE EvidenceReuse ----------------------------
(***************************************************************************)
(* The probe for an earlier run whose validation could stand for this      *)
(* run's (scripts/verification-evidence.py).  It lists the finished runs   *)
(* of the same commit, then reads the jobs and logs of each: runs go on    *)
(* being re-run, and runner images being rolled out, between its reads.    *)
(* `passed` is history: the jobs that ever succeeded, and on what.         *)
(***************************************************************************)
EXTENDS Naturals, FiniteSets

CONSTANTS
    Runs,            \* earlier dispatches of the build workflow
    Jobs,            \* the validation jobs this run's plan needs
    Current,         \* the inputs of this run
    Inputs,          \* what a run may have been dispatched with: the identities
                     \* and "base", the migration_base of the YueOps validators
    NoRun,
    MaxAge,          \* --max-age-hours
    MaxClock, MaxImages    \* bounds of the exploration

\* What identifies a dispatch, as its log tells it.  The base that the SQL of
\* YueOps is validated from, migration_base, is an input and no identity.
Identities == {"policy", "event", "branch", "service", "ref", "contract"}

VARIABLES runs, hour, image, passed, own, listed, read, evidence

vars == <<runs, hour, image, passed, own, listed, read, evidence>>

\* "plan" resolves the inputs; a validation job starts when it succeeded.
AllJobs == Jobs \cup {"plan"}
JobResults == [conclusion: {"none", "success", "failure"}, image: Nat, hosted: BOOLEAN]
RunRecords == [inputs: Inputs, created: Nat, jobs: [AllJobs -> JobResults]]

\* No run is not a run.
NoRunAssumption == NoRun \notin RunRecords

Queued == [conclusion |-> "none", image |-> 0, hosted |-> TRUE]

Finished(r) ==
    LET jobs == runs[r].jobs IN
    \/ jobs["plan"].conclusion = "failure"
    \/ \A j \in AllJobs : jobs[j].conclusion # "none"

Init ==
    /\ runs = [r \in Runs |-> NoRun]
    /\ hour = 0 /\ image = 0 /\ passed = {}
    /\ own = 0 /\ listed = NoRun /\ read = [r \in {} |-> NoRun]
    /\ evidence = NoRun

Dispatch(r) ==
    /\ runs[r] = NoRun
    /\ \E i \in Inputs :
          runs' = [runs EXCEPT ![r] = [inputs |-> i, created |-> hour,
                                       jobs |-> [j \in AllJobs |-> Queued]]]
    /\ UNCHANGED <<hour, image, passed, own, listed, read, evidence>>

\* A job ends, on the hosted class or on the manual fallback.
Conclude(r, j) ==
    /\ runs[r] # NoRun /\ runs[r].jobs[j].conclusion = "none"
    /\ j # "plan" => runs[r].jobs["plan"].conclusion = "success"
    /\ \E c \in {"success", "failure"}, hosted \in BOOLEAN :
          LET ended == [conclusion |-> c, image |-> image, hosted |-> hosted] IN
          /\ j = "plan" => hosted
          /\ runs' = [runs EXCEPT ![r].jobs[j] = ended]
          /\ passed' = IF c = "success"
                       THEN passed \cup {[run |-> r, job |-> j, image |-> image,
                                          hosted |-> hosted]}
                       ELSE passed
    /\ UNCHANGED <<hour, image, own, listed, read, evidence>>

\* The failed jobs of a finished run are run again, in the same run.
Rerun(r) ==
    /\ runs[r] # NoRun /\ Finished(r)
    /\ \E j \in AllJobs : runs[r].jobs[j].conclusion = "failure"
    /\ runs' = [runs EXCEPT ![r].jobs =
                   [j \in AllJobs |-> IF @[j].conclusion = "failure" THEN Queued ELSE @[j]]]
    /\ UNCHANGED <<hour, image, passed, own, listed, read, evidence>>

Tick ==
    /\ hour < MaxClock /\ hour' = hour + 1
    /\ UNCHANGED <<runs, image, passed, own, listed, read, evidence>>

RollOut ==
    /\ image < MaxImages /\ image' = image + 1
    /\ UNCHANGED <<runs, hour, passed, own, listed, read, evidence>>

-----------------------------------------------------------------------------
\* probe(): the query answers the finished dispatches of this commit, the old
\* ones are not read.
List ==
    /\ listed = NoRun
    /\ own' = image
    /\ listed' = {r \in Runs : /\ runs[r] # NoRun /\ Finished(r)
                               /\ runs[r].inputs.policy = Current.policy
                               /\ runs[r].inputs.event = Current.event
                               /\ hour - runs[r].created <= MaxAge}
    /\ UNCHANGED <<runs, hour, image, passed, read, evidence>>

\* The jobs of one listed run as they are now, not as they were when listed.
Read(r) ==
    /\ listed # NoRun /\ r \in listed \ DOMAIN read
    /\ read' = [x \in DOMAIN read \cup {r} |-> IF x = r THEN runs[r] ELSE read[x]]
    /\ UNCHANGED <<runs, hour, image, passed, own, listed, evidence>>

\* assess_candidate(): every identity must be this run's, every validation
\* job this plan needs present, successful, hosted and on the same image.
\* Faulty variant for EvidenceWasEarned: a hosted runner is like any other.
ReusableAnyImage(candidate) ==
    /\ \A f \in Identities : candidate.inputs[f] = Current[f]
    /\ candidate.jobs["plan"].conclusion = "success"
    /\ \A j \in Jobs : candidate.jobs[j].conclusion = "success" /\ candidate.jobs[j].hosted

Reusable(candidate) ==
    /\ \A f \in Identities : candidate.inputs[f] = Current[f]
    /\ candidate.jobs["plan"].conclusion = "success"
    /\ \A j \in Jobs : /\ candidate.jobs[j].conclusion = "success"
                       /\ candidate.jobs[j].hosted
                       /\ candidate.jobs[j].image = own

\* assess(): the newest candidate that passes.
Assess ==
    /\ listed # NoRun /\ DOMAIN read = listed /\ evidence = NoRun
    /\ LET good == {r \in listed : Reusable(read[r])} IN
       evidence' = [run |-> IF good = {} THEN NoRun
                            ELSE CHOOSE r \in good :
                                \A q \in good : read[q].created <= read[r].created,
                    at |-> hour]
    /\ UNCHANGED <<runs, hour, image, passed, own, listed, read>>

Next ==
    \/ \E r \in Runs : Dispatch(r) \/ Rerun(r) \/ Read(r)
    \/ \E r \in Runs, j \in AllJobs : Conclude(r, j)
    \/ Tick \/ RollOut \/ List \/ Assess

Spec == Init /\ [][Next]_vars

-----------------------------------------------------------------------------
\* A run called reusable has each identity of this one, and each job of this
\* plan really passed in it, on a hosted runner of this run's image, whatever
\* was re-run or rolled out between listing and reading (assess_candidate()).
\* It is not the same validation for that: nobody compares migration_base, so
\* YueOps may have been validated from another previous release.
EvidenceWasEarned ==
    evidence # NoRun /\ evidence.run # NoRun =>
        /\ \A f \in Identities : runs[evidence.run].inputs[f] = Current[f]
        /\ \A j \in Jobs : [run |-> evidence.run, job |-> j, image |-> own,
                            hosted |-> TRUE] \in passed
=============================================================================
