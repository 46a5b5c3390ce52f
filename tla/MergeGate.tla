------------------------------ MODULE MergeGate ------------------------------
(***************************************************************************)
(* merge-hygiene-audit.py on one pull request: the gate of --premerge,     *)
(* which reads the live pull request call by call while it changes, and    *)
(* the audit after the merge, which must find out from what the API still  *)
(* shows what was so at the moment of the merge.                           *)
(*                                                                         *)
(* Receipts are required (the policy has been activated).  Then a missing  *)
(* approval and missing checks are excused by exactly what the receipt     *)
(* rule asks for, so reviews decide nothing and are left out.  A status is *)
(* a check whose runs are never overwritten.  Merges by ancestry and the   *)
(* accepted history are MergeAudit's.                                      *)
(***************************************************************************)
EXTENDS Naturals, Sequences, FiniteSets

CONSTANTS
    Heads, Bases,
    EvidenceOnly,   \* <<base, head>>: the difference is receipts and reviews
    Keys,           \* app, suite and name of a check
    CreatedShown,   \* the keys whose runs show when they were created
    Window,         \* for how long a receipt may be backfilled: 24 h
    MaxTime, MaxRuns

ASSUME GateAssumption ==
    /\ EvidenceOnly \subseteq Bases \X Heads
    /\ CreatedShown \subseteq Keys
    /\ Window \in Nat /\ MaxTime \in Nat \ {0} /\ MaxRuns \in Nat

VARIABLES
    clock,     \* no two events at the same time
    pull,      \* the pull request
    runs,      \* check runs, in the order of their creation
    receipt,   \* the committed receipt of the pull request, if any
    gate,      \* the premerge gate: what it has read
    audit,     \* verdict of the audit
    seen       \* history: what was so when it mattered

vars == <<clock, pull, runs, receipt, gate, audit, seen>>

Times == 0..MaxTime     \* 0: not yet
Never == 0

Runs == [key: Keys, head: Heads, created: Times, started: Times,
         completed: Times, ok: BOOLEAN]
NoReceipt == [head |-> {}, at |-> Never, backfilled |-> FALSE]
Receipts == [head: {{h} : h \in Heads} \cup {{}}, at: Times, backfilled: BOOLEAN]
Verdicts == {"none", "pass", "findings", "incomplete"}

TypeOK ==
    /\ clock \in 1..MaxTime
    /\ pull \in [head: Heads, base: Bases, merged: Times]
    /\ runs \in Seq(Runs) /\ Len(runs) <= MaxRuns
    /\ receipt \in Receipts
    /\ gate \in [pc: {"idle", "pulled", "checked", "compared", "over"}, head: Heads,
                base: Bases, now: Times, runs: Seq(Runs), evidence: BOOLEAN,
                verdict: Verdicts]
    /\ audit \in Verdicts
    /\ seen \in [gateGreen: BOOLEAN, gateReceipt: BOOLEAN, mergeGreen: BOOLEAN,
                 mergeReceipt: BOOLEAN, touched: BOOLEAN]

Idle(h, b) == [pc |-> "idle", head |-> h, base |-> b, now |-> Never, runs |-> <<>>,
               evidence |-> FALSE, verdict |-> "none"]

Init ==
    /\ clock = 1
    /\ \E h \in Heads, b \in Bases :
          /\ pull = [head |-> h, base |-> b, merged |-> Never]
          /\ gate = Idle(h, b)
    /\ runs = <<>>
    /\ receipt = NoReceipt
    /\ audit = "none"
    /\ seen = [gateGreen |-> FALSE, gateReceipt |-> FALSE, mergeGreen |-> FALSE,
               mergeReceipt |-> FALSE, touched |-> FALSE]

Open == pull.merged = Never

\* The time goes on with every event.
Tick == clock < MaxTime /\ clock' = clock + 1

-----------------------------------------------------------------------------
(* What the API shows, and findings().                                     *)

RunsOf(h, list) == {i \in DOMAIN list : list[i].head = h}

\* Faulty variant for CleanAuditWasGreen: a run of unknown age is ignored.
UnknownIgnored(r, moment) ==
    IF r.key \in CreatedShown THEN r.created
    ELSE IF r.started # Never /\ r.started <= moment THEN r.started ELSE moment + 1

\* When the run existed at the latest; Never if that cannot be known.
Existed(r, moment) ==
    IF r.key \in CreatedShown THEN r.created
    ELSE IF r.started # Never /\ r.started <= moment THEN r.started ELSE Never

\* The runs of a head that count at a moment: the last one of each key.
Latest(h, list, moment) ==
    LET before == {i \in RunsOf(h, list) : Existed(list[i], moment) \in 1..moment}
    IN {i \in before : \A j \in before : list[j].key = list[i].key =>
            \/ Existed(list[j], moment) < Existed(list[i], moment)
            \/ Existed(list[j], moment) = Existed(list[i], moment) /\ j <= i}

\* Faulty variant for PassMeansJudged: what is still running is not red.
CheckFindingsRed(h, list, moment) ==
    \/ \E i \in RunsOf(h, list) : Existed(list[i], moment) = Never
    \/ \E i \in Latest(h, list, moment) : list[i].completed # Never /\ ~list[i].ok

\* A check whose history is not known, or which was not green at the moment.
\* That there is no check at all is a finding of its own, and excused.
CheckFindings(h, list, moment) ==
    LET latest == Latest(h, list, moment) IN
    \/ \E i \in RunsOf(h, list) : Existed(list[i], moment) = Never
    \/ \E i \in RunsOf(h, list) : \A j \in latest : list[j].key # list[i].key
    \/ \E i \in latest : \/ list[i].completed \notin 1..moment
                         \/ ~list[i].ok

\* receipt(): it is of this very head, and in time.
ReceiptValid(r, h, merged) ==
    /\ r.head = {h}
    /\ r.at <= merged + Window
    /\ r.at > merged => r.backfilled

-----------------------------------------------------------------------------
(* The pull request and its checks.                                        *)

\* The last run of every check of a head is green.
Green(h) ==
    \A i \in RunsOf(h, runs) :
        \/ runs[i].completed # Never /\ runs[i].ok
        \/ \E j \in RunsOf(h, runs) : j > i /\ runs[j].key = runs[i].key

\* A check of the head of the gate changes.
Touch(h) == seen' = [seen EXCEPT !.touched = @ \/ h = gate.head]

Push(h) ==
    /\ Open /\ h # pull.head
    /\ Tick
    /\ pull' = [pull EXCEPT !.head = h]
    /\ UNCHANGED <<runs, receipt, gate, audit, seen>>

MoveBase(b) ==
    /\ Open /\ b # pull.base
    /\ Tick
    /\ pull' = [pull EXCEPT !.base = b]
    /\ UNCHANGED <<runs, receipt, gate, audit, seen>>

\* A check is queued for the head; again only when its last run is over.
Queue(k) ==
    /\ Len(runs) < MaxRuns
    /\ \A i \in RunsOf(pull.head, runs) : runs[i].key = k => runs[i].completed # Never
    /\ Tick
    /\ runs' = Append(runs, [key |-> k, head |-> pull.head, created |-> clock,
                             started |-> Never, completed |-> Never, ok |-> FALSE])
    /\ Touch(pull.head)
    /\ UNCHANGED <<pull, receipt, gate, audit>>

StartRun(i) ==
    /\ runs[i].started = Never
    /\ Tick
    /\ runs' = [runs EXCEPT ![i].started = clock]
    /\ Touch(runs[i].head)
    /\ UNCHANGED <<pull, receipt, gate, audit>>

EndRun(i, ok) ==
    /\ runs[i].started # Never /\ runs[i].completed = Never
    /\ Tick
    /\ runs' = [runs EXCEPT ![i].completed = clock, ![i].ok = ok]
    /\ Touch(runs[i].head)
    /\ UNCHANGED <<pull, receipt, gate, audit>>

\* An app runs the check again and overwrites its run, the last one of the key.
Overwrite(i) ==
    /\ runs[i].completed # Never
    /\ \A j \in RunsOf(runs[i].head, runs) : runs[j].key = runs[i].key => j <= i
    /\ Tick
    /\ runs' = [runs EXCEPT ![i].started = clock, ![i].completed = Never, ![i].ok = FALSE]
    /\ Touch(runs[i].head)
    /\ UNCHANGED <<pull, receipt, gate, audit>>

\* A review and a parity run of a head are committed as the receipt.  After
\* the merge write-merge-receipt.py insists on its head and on the window.
WriteReceipt(h) ==
    /\ ~Open => h = pull.head /\ clock <= pull.merged + Window
    /\ Tick
    /\ receipt' = [head |-> {h}, at |-> clock, backfilled |-> ~Open]
    /\ UNCHANGED <<pull, runs, gate, audit, seen>>

\* Anyone may merge, with or without the gate.
Merge ==
    /\ Open
    /\ Tick
    /\ pull' = [pull EXCEPT !.merged = clock]
    /\ seen' = [seen EXCEPT !.mergeGreen = Green(pull.head)]
    /\ UNCHANGED <<runs, receipt, gate, audit>>

-----------------------------------------------------------------------------
(* premerge(): five calls of the API, and the receipt in the checkout.     *)

ReadPull ==
    /\ gate.pc \in {"idle", "over"} /\ Open
    /\ Tick
    /\ gate' = [Idle(pull.head, pull.base) EXCEPT !.pc = "pulled"]
    /\ seen' = [seen EXCEPT !.touched = FALSE]
    /\ UNCHANGED <<pull, runs, receipt, audit>>

ReadChecks ==
    /\ gate.pc = "pulled"
    /\ Tick
    /\ gate' = [gate EXCEPT !.pc = "checked", !.runs = runs, !.now = clock]
    /\ seen' = [seen EXCEPT !.gateGreen = Green(gate.head), !.touched = FALSE]
    /\ UNCHANGED <<pull, runs, receipt, audit>>

\* Faulty variant for PassMeansJudged: the files of the pull request are
\* those of its present head.
PresentFiles ==
    /\ gate.pc = "checked"
    /\ Tick
    /\ gate' = [gate EXCEPT !.pc = "compared",
                            !.evidence = (<<pull.base, pull.head>> \in EvidenceOnly)]
    /\ UNCHANGED <<pull, runs, receipt, audit, seen>>

\* The files that differ between the two commits that were read.
ReadCompare ==
    /\ gate.pc = "checked"
    /\ Tick
    /\ gate' = [gate EXCEPT !.pc = "compared",
                            !.evidence = (<<gate.base, gate.head>> \in EvidenceOnly)]
    /\ UNCHANGED <<pull, runs, receipt, audit, seen>>

\* Whether the gate may pass the head that was read.
GateVerdict ==
    IF \/ pull.head # gate.head \/ pull.base # gate.base
       \/ receipt # NoReceipt /\ (~ReceiptValid(receipt, gate.head, gate.now)
                                  \/ receipt.backfilled \/ receipt.at > gate.now)
    THEN "incomplete"
    ELSE IF \/ CheckFindings(gate.head, gate.runs, gate.now)
            \/ receipt = NoReceipt /\ ~gate.evidence
    THEN "findings" ELSE "pass"

\* The pull request is read once more, and then all is judged.
Decide ==
    /\ gate.pc = "compared"
    /\ Tick
    /\ gate' = [gate EXCEPT !.pc = "over", !.verdict = GateVerdict]
    /\ seen' = [seen EXCEPT !.gateReceipt = (receipt.head = {gate.head})]
    /\ UNCHANGED <<pull, runs, receipt, audit>>

\* A call fails, or the rate limit is near: the gate is not passed.
GateFails ==
    /\ gate.pc \in {"pulled", "checked", "compared"}
    /\ gate' = [gate EXCEPT !.pc = "over", !.verdict = "incomplete"]
    /\ UNCHANGED <<clock, pull, runs, receipt, audit, seen>>

-----------------------------------------------------------------------------
(* audit(): the merged pull request, at any later time.                    *)

OnlyEvidence == <<pull.base, pull.head>> \in EvidenceOnly

\* Faulty variant for GateAndAuditAgree: receipts need a receipt.
AuditVerdictStrict ==
    IF receipt # NoReceipt /\ ~ReceiptValid(receipt, pull.head, pull.merged)
    THEN "incomplete"
    ELSE IF CheckFindings(pull.head, runs, pull.merged) \/ receipt = NoReceipt
    THEN "findings" ELSE "pass"

AuditVerdict ==
    IF receipt # NoReceipt /\ ~ReceiptValid(receipt, pull.head, pull.merged)
    THEN "incomplete"
    ELSE IF \/ CheckFindings(pull.head, runs, pull.merged)
            \/ receipt = NoReceipt /\ ~OnlyEvidence
    THEN "findings" ELSE "pass"

Audit ==
    /\ ~Open /\ audit = "none"
    /\ Tick
    /\ audit' = AuditVerdict
    /\ seen' = [seen EXCEPT !.mergeReceipt = (receipt.head = {pull.head})]
    /\ UNCHANGED <<pull, runs, receipt, gate>>

Next ==
    \/ \E h \in Heads : Push(h) \/ WriteReceipt(h)
    \/ \E b \in Bases : MoveBase(b)
    \/ \E k \in Keys : Queue(k)
    \/ \E i \in DOMAIN runs : \/ StartRun(i) \/ Overwrite(i)
                              \/ \E ok \in BOOLEAN : EndRun(i, ok)
    \/ Merge
    \/ ReadPull \/ ReadChecks \/ ReadCompare \/ Decide \/ GateFails
    \/ Audit

Spec == Init /\ [][Next]_vars

-----------------------------------------------------------------------------
(* Properties.                                                             *)

\* The gate passes a head only if its own checks were green when they were
\* read, and a receipt names it or it only adds evidence: however often the
\* branch is pushed to and put back between the calls.
PassMeansJudged ==
    gate.verdict = "pass" =>
        /\ seen.gateGreen
        /\ seen.gateReceipt \/ <<gate.base, gate.head>> \in EvidenceOnly

\* An audit without findings means that at the merge the last run of each
\* check was green, whatever has been run again or overwritten since, and
\* that the merged head has its receipt.
CleanAuditWasGreen ==
    audit = "pass" => seen.mergeGreen /\ (seen.mergeReceipt \/ OnlyEvidence)

\* The head that the gate passed, merged while nothing happened to its checks,
\* its base and its receipt, is not found fault with by the audit.
GateAndAuditAgree ==
    /\ gate.verdict = "pass" /\ audit # "none" /\ ~seen.touched
    /\ pull.head = gate.head /\ pull.base = gate.base /\ gate.now <= pull.merged
    /\ receipt.at <= gate.now
    => audit = "pass"
=============================================================================
