---------------------------- MODULE CorpusEvidence ----------------------------
(***************************************************************************)
(* The evidence of the yueops validation, in four instances that share     *)
(* nothing: the corpus in shards (OpsCorpus), the recorder of a legacy run *)
(* (TimingRecord), the admission of the shared inputs (SharedInputs) and   *)
(* that of skipped cases (SkipCases).  One behaviour is one of the four;   *)
(* the others stay idle.                                                   *)
(***************************************************************************)
EXTENDS OpsCorpus

CONSTANTS
    RunCases, Nested, Prepared, Other, MaxSessions, MaxLost,
    MaxCommits, MaxFaults,
    idle       \* the value of a variable whose instance does not run

VARIABLES
    subject,   \* the instance that runs
    proc, todo, phase, nested, lostWrites, stream, torn, phasesRan, receipt, sessions,
    base, commits, files, pinned, admission,
    moduleBlob, policy, context, caseOutcome, nativePassed, collected, skipVerdict

\* The record of a legacy run.
Legacy == INSTANCE TimingRecord WITH
            Cases <- RunCases, ran <- phasesRan, lost <- lostWrites

\* The admission of the shared inputs.
R == INSTANCE SharedInputs

\* The admission of a run's skips.
K == INSTANCE SkipCases WITH
        blob <- moduleBlob, outcome <- caseOutcome, pinned <- policy,
        native <- nativePassed, verdict <- skipVerdict

-----------------------------------------------------------------------------
recorderVars == <<proc, todo, phase, nested, lostWrites, stream, torn, phasesRan,
                  receipt, sessions>>
inputVars == <<base, commits, files, pinned, admission>>
skipVars == <<moduleBlob, policy, context, caseOutcome, nativePassed, collected, skipVerdict>>
allVars == <<subject, vars, recorderVars, inputVars, skipVars>>

EvidenceInit ==
    /\ subject \in {"corpus", "recorder", "inputs", "skips"}
    /\ Init
    /\ IF subject = "recorder" THEN Legacy!Init
       ELSE /\ proc = idle /\ todo = idle /\ phase = idle /\ nested = idle /\ lostWrites = idle
            /\ stream = idle /\ torn = idle /\ phasesRan = idle /\ receipt = idle
            /\ sessions = idle
    /\ IF subject = "inputs" THEN R!Init
       ELSE base = idle /\ commits = idle /\ files = idle /\ pinned = idle /\ admission = idle
    /\ IF subject = "skips" THEN K!Init
       ELSE /\ moduleBlob = idle /\ policy = idle /\ context = idle /\ caseOutcome = idle
            /\ nativePassed = idle /\ collected = idle /\ skipVerdict = idle

CorpusStep == subject = "corpus" /\ Next
              /\ UNCHANGED <<subject, recorderVars, inputVars, skipVars>>
RecorderStep == subject = "recorder" /\ Legacy!Next
                /\ UNCHANGED <<subject, vars, inputVars, skipVars>>
InputStep == subject = "inputs" /\ R!Next
             /\ UNCHANGED <<subject, vars, recorderVars, skipVars>>
SkipStep == subject = "skips" /\ K!Next
            /\ UNCHANGED <<subject, vars, recorderVars, inputVars>>

EvidenceNext == CorpusStep \/ RecorderStep \/ InputStep \/ SkipStep

EvidenceSpec == EvidenceInit /\ [][EvidenceNext]_allVars

-----------------------------------------------------------------------------
\* A record called complete is the whole of one run (lens_report.py and
\* pytest-timing.py, inspect()).
TimingCompleteMeansWhole == subject = "recorder" => Legacy!TimingCompleteMeansWhole

\* Admitted inputs hold each review whole or not at all, and only reviews that
\* the source or a signed pin has (pytest-shards.py, admit_shared_inputs()).
InputsReviewed == subject = "inputs" => R!InputsReviewed

\* What a review made lasting is not lost again (admit_shared_inputs()).
LastingReviewsStay == subject = "inputs" => R!LastingReviewsStay

\* A run without new skips executed every case but those a review named and
\* those of the module reviewed as skipped whole (pytest-shards.py,
\* admit_skips()).
SkipsStayReviewed == subject = "skips" => K!SkipsStayReviewed
=============================================================================
