------------------------------ MODULE Verdicts ------------------------------
(***************************************************************************)
(* Verdicts given from what external systems show, in five instances that  *)
(* share nothing: the merge gate and its audit (MergeGate), an earlier run *)
(* that could stand for this one (EvidenceReuse), the PostgreSQL suites of *)
(* YueBoard (BoardPostgres), the attestations of an image (Attestation)    *)
(* and the observer of the alert chain (Deadman).  One behaviour is one of *)
(* the five; the others stay idle.                                         *)
(***************************************************************************)
EXTENDS MergeGate, Integers

CONSTANTS
    Dispatches, Jobs, Current, Inputs, NoRun, MaxHours, MaxClock, MaxImages,
    Domain, Commands, Modules, Migrations, Gated, TestsOf, Ordinary, Roles,
    Sources, None,
    Digest, Allowed, Platforms, Formats, Leftovers, MaxAttempts,
    Period, MaxAge, MaxGap, Leads, Horizon,
    idle       \* the value of a variable whose instance does not run

VARIABLES
    subject,   \* the instance that runs
    dispatches, hour, image, everPassed, own, listed, read, evidence,
    source, role, step, marker, passed,
    expected, todo, attempt, registry, document, signing,
    chain, age, lead, status, waited, outage, alarmed

E == INSTANCE EvidenceReuse WITH
        Runs <- Dispatches, MaxAge <- MaxHours, runs <- dispatches, passed <- everPassed
P == INSTANCE BoardPostgres WITH receipt <- marker
A == INSTANCE Attestation WITH step <- signing
D == INSTANCE Deadman

InstanceAssumption == E!NoRunAssumption /\ A!FormatsAssumption /\ D!DelaysAssumption

-----------------------------------------------------------------------------
evidenceVars == <<dispatches, hour, image, everPassed, own, listed, read, evidence>>
boardVars == <<source, role, step, marker, passed>>
signVars == <<expected, todo, attempt, registry, document, signing>>
chainVars == <<chain, age, lead, status, waited, outage, alarmed>>
allVars == <<subject, vars, evidenceVars, boardVars, signVars, chainVars>>

\* A gate that never runs waits at its beginning.
GateIdle == pull.head = (CHOOSE h \in Heads : TRUE) /\ pull.base = (CHOOSE b \in Bases : TRUE)

VerdictsInit ==
    /\ subject \in {"gate", "evidence", "board", "sign", "chain"}
    /\ Init
    /\ subject # "gate" => GateIdle
    /\ IF subject = "evidence" THEN E!Init
       ELSE /\ dispatches = idle /\ hour = idle /\ image = idle /\ everPassed = idle
            /\ own = idle /\ listed = idle /\ read = idle /\ evidence = idle
    /\ IF subject = "board" THEN P!Init
       ELSE source = idle /\ role = idle /\ step = idle /\ marker = idle /\ passed = idle
    /\ IF subject = "sign" THEN A!Init
       ELSE /\ expected = idle /\ todo = idle /\ attempt = idle
            /\ registry = idle /\ document = idle /\ signing = idle
    /\ IF subject = "chain" THEN D!Init
       ELSE /\ chain = idle /\ age = idle /\ lead = idle /\ status = idle
            /\ waited = idle /\ outage = idle /\ alarmed = idle

GateStep == subject = "gate" /\ Next
            /\ UNCHANGED <<subject, evidenceVars, boardVars, signVars, chainVars>>
EvidenceStep == subject = "evidence" /\ E!Next
                /\ UNCHANGED <<subject, vars, boardVars, signVars, chainVars>>
BoardStep == subject = "board" /\ P!Next
             /\ UNCHANGED <<subject, vars, evidenceVars, signVars, chainVars>>
SignStep == subject = "sign" /\ A!Next
            /\ UNCHANGED <<subject, vars, evidenceVars, boardVars, chainVars>>
ChainStep == subject = "chain" /\ D!Next
             /\ UNCHANGED <<subject, vars, evidenceVars, boardVars, signVars>>

VerdictsNext == GateStep \/ EvidenceStep \/ BoardStep \/ SignStep \/ ChainStep

VerdictsSpec == VerdictsInit /\ [][VerdictsNext]_allVars

-----------------------------------------------------------------------------
\* Evidence of an earlier run is called reusable only if that run has this
\* one's identities and passed what this one has to (verification-evidence.py).
EvidenceWasEarned == subject = "evidence" => E!EvidenceWasEarned

\* A complete receipt of the board means that every suite ran on the manifest
\* (validate-yueboard-postgres.py).
BoardCompleteMeansAllRan == subject = "board" => P!BoardCompleteMeansAllRan

\* A signed image has a good statement for each of its platforms, whatever was
\* retried (ci-retry.sh, verify-sbom-attestations.py).
SignedMeansEveryPlatform == subject = "sign" => A!SignedMeansEveryPlatform

\* An outage of the alert chain is noticed in bounded time
\* (alert-chain-deadman-check.py).
DetectedInTime == subject = "chain" => D!DetectedInTime
=============================================================================
