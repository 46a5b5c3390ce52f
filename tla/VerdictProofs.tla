---------------------------- MODULE VerdictProofs ----------------------------
(***************************************************************************)
(* The five verdicts of Verdicts, for any constants; those of an instance  *)
(* hold of its own specification and of the five side by side.             *)
(*                                                                         *)
(* Gate and audit judge by the times of the runs and never see the runs as *)
(* they were.  That this is enough rests on two facts: the runs of one     *)
(* check follow one another in time (a new one is queued when the last is  *)
(* over, and only the last is ever overwritten), and whatever is done to a *)
(* run after a moment leaves a time behind that is later than the moment.  *)
(***************************************************************************)
EXTENDS Verdicts, SequenceTheorems, WellFoundedInduction, TLAPS

-----------------------------------------------------------------------------
(* Of the five only the chosen one moves.                                  *)

LEMMA OneMoves ==
    ASSUME [VerdictsNext]_allVars
    PROVE  /\ subject' = subject
           /\ subject = "evidence" => [E!Next]_(E!vars)
           /\ subject = "board" => [P!Next]_(P!vars)
           /\ subject = "sign" => [A!Next]_(A!vars)
           /\ subject = "chain" => [D!Next]_(D!vars)
BY DEF VerdictsNext, allVars, GateStep, EvidenceStep, BoardStep, SignStep, ChainStep,
       evidenceVars, boardVars, signVars, chainVars, E!vars, P!vars, A!vars, D!vars

-----------------------------------------------------------------------------
(* The merge gate: the invariant.                                          *)

\* Two runs of one check.
SameCheck(r, s) == r.head = s.head /\ r.key = s.key

\* The times of a run are in order, and before now.
Timed(r, now) ==
    /\ 1 <= r.created /\ r.created < now
    /\ r.started # Never => r.created < r.started /\ r.started < now
    /\ r.completed # Never =>
          r.started # Never /\ r.started < r.completed /\ r.completed < now

AllTimed(list, now) == \A i \in DOMAIN list : Timed(list[i], now)

\* The runs of one check follow one another.
Chained(list) ==
    \A i, j \in DOMAIN list : i < j /\ SameCheck(list[i], list[j]) =>
        list[i].completed # Never /\ list[i].completed < list[j].created

\* Green of any list of runs.
GreenIn(h, list) ==
    \A i \in RunsOf(h, list) :
        \/ list[i].completed # Never /\ list[i].ok
        \/ \E j \in RunsOf(h, list) : j > i /\ list[j].key = list[i].key

\* The last run of a check before a moment was not green then.
RedAt(h, list, moment) ==
    \E i \in RunsOf(h, list) :
        /\ list[i].created < moment
        /\ list[i].completed \notin 1..moment \/ ~list[i].ok
        /\ \A j \in RunsOf(h, list) :
              j > i /\ list[j].key = list[i].key => list[j].created > moment

\* Nobody has touched the checks of a head between two lists.
SameOf(h, list, other) ==
    /\ RunsOf(h, list) = RunsOf(h, other)
    /\ \A i \in RunsOf(h, list) : list[i] = other[i]

HasRead == gate.pc \in {"checked", "compared", "over"}

TimeInv ==
    /\ AllTimed(runs, clock) /\ Chained(runs)
    /\ pull.merged < clock /\ gate.now < clock /\ receipt.at < clock
    /\ receipt.at = Never <=> receipt = NoReceipt
    /\ audit # "none" => ~Open

\* What the gate has read was so.
ReadInv ==
    /\ gate.verdict = "pass" => gate.pc = "over" /\ gate.now # Never
    /\ gate.pc \in {"checked", "compared"} => gate.now # Never
    /\ gate.now = Never => gate.runs = <<>>
    /\ AllTimed(gate.runs, gate.now) /\ Chained(gate.runs)
    /\ gate.now # Never => HasRead /\ seen.gateGreen = GreenIn(gate.head, gate.runs)
    /\ gate.evidence => <<gate.base, gate.head>> \in EvidenceOnly
    /\ gate.now # Never /\ ~seen.touched => SameOf(gate.head, runs, gate.runs)

\* What a pass was given for, as long as the receipt is the one it was given for.
PassInv ==
    gate.verdict = "pass" =>
        /\ ~CheckFindings(gate.head, gate.runs, gate.now)
        /\ seen.gateReceipt \/ gate.evidence
        /\ receipt.at <= gate.now =>
              \/ receipt = NoReceipt /\ gate.evidence
              \/ receipt # NoReceipt /\ receipt.head = {gate.head}

\* A check that was red at the merge has left its trace.
MergeInv ==
    ~Open /\ ~seen.mergeGreen => RedAt(pull.head, runs, pull.merged)

\* An audit of what nobody has touched since would say the same again.
AuditInv ==
    /\ audit = "pass" => seen.mergeGreen /\ (seen.mergeReceipt \/ OnlyEvidence)
    /\ /\ audit # "none" /\ ~seen.touched /\ pull.head = gate.head
       /\ gate.now <= pull.merged /\ receipt.at <= gate.now
       => audit = AuditVerdict

IInv == TypeOK /\ TimeInv /\ ReadInv /\ PassInv /\ MergeInv /\ AuditInv
-----------------------------------------------------------------------------
(* What a step does to the runs.                                           *)

\* Run i becomes r: no later run of its check exists, and every time that
\* changes is now.
Replaced(i, r) ==
    /\ runs' = [runs EXCEPT ![i] = r]
    /\ SameCheck(r, runs[i]) /\ r.created = runs[i].created
    /\ r.started = clock \/ r.started = runs[i].started
    /\ r.started # Never
    /\ r.completed \in {Never, clock}
    /\ r.completed = clock => r.started = runs[i].started
    /\ \A j \in DOMAIN runs : SameCheck(runs[j], runs[i]) => j <= i
    /\ Touch(runs[i].head)

\* A new run of the head of the pull request, the runs of its check over.
Added(r) ==
    /\ runs' = Append(runs, r)
    /\ r.head = pull.head
    /\ r.created = clock /\ r.started = Never /\ r.completed = Never
    /\ \A i \in DOMAIN runs : SameCheck(runs[i], r) => runs[i].completed # Never
    /\ Touch(pull.head)

\* Queue adds a run.
LEMMA QueueAdds ==
    ASSUME TypeOK, NEW k \in Keys, Queue(k)
    PROVE  \E r \in Runs : Added(r)
<1> DEFINE r == [key |-> k, head |-> pull.head, created |-> clock,
                 started |-> Never, completed |-> Never, ok |-> FALSE]
<1>1. r \in Runs
  BY GateAssumption DEF Queue, Tick, TypeOK, Runs, Times, Never
<1>2. Added(r)
  BY DEF Queue, Added, SameCheck, RunsOf
<1> QED
  BY <1>1, <1>2

\* The last run of each check is the only one that may not be over.
LEMMA OnlyLastOpen ==
    ASSUME TypeOK, Chained(runs), NEW i \in DOMAIN runs, runs[i].completed = Never
    PROVE  \A j \in DOMAIN runs : SameCheck(runs[j], runs[i]) => j <= i
<1> SUFFICES ASSUME NEW j \in DOMAIN runs, SameCheck(runs[j], runs[i]), ~(j <= i)
             PROVE  FALSE
  OBVIOUS
<1>1. i \in Int /\ j \in Int
  BY LenProperties DEF TypeOK
<1>2. i < j /\ SameCheck(runs[i], runs[j])
  BY <1>1 DEF SameCheck
<1> QED
  BY <1>2 DEF Chained

\* A step of a run replaces it.
LEMMA RunReplaced ==
    ASSUME TypeOK, TimeInv, NEW i \in DOMAIN runs, NEW ok \in BOOLEAN,
           StartRun(i) \/ EndRun(i, ok) \/ Overwrite(i)
    PROVE  \E r \in Runs : Replaced(i, r)
<1>1. /\ runs[i] \in Runs /\ Timed(runs[i], clock)
      /\ clock \in Times /\ clock # Never /\ Never \in Times
  BY GateAssumption, LenProperties, ElementOfSeq DEF TypeOK, TimeInv, AllTimed, Times, Never
<1>2. CASE StartRun(i)
  <2> DEFINE r == [runs[i] EXCEPT !.started = clock]
  <2>1. r \in Runs
    BY <1>1 DEF Runs
  <2>2. runs[i].completed = Never
    BY <1>1, <1>2 DEF StartRun, Timed
  <2>3. \A j \in DOMAIN runs : SameCheck(runs[j], runs[i]) => j <= i
    BY <2>2, OnlyLastOpen DEF TimeInv
  <2>4. Replaced(i, r)
    BY <1>1, <1>2, <2>2, <2>3 DEF StartRun, Replaced, SameCheck, Runs
  <2> QED
    BY <2>1, <2>4
<1>3. CASE EndRun(i, ok)
  <2> DEFINE r == [runs[i] EXCEPT !.completed = clock, !.ok = ok]
  <2>1. r \in Runs
    BY <1>1 DEF Runs
  <2>2. runs[i].completed = Never
    BY <1>3 DEF EndRun
  <2>3. \A j \in DOMAIN runs : SameCheck(runs[j], runs[i]) => j <= i
    BY <2>2, OnlyLastOpen DEF TimeInv
  <2>4. runs' = [runs EXCEPT ![i] = r]
    BY <1>1, <1>3 DEF EndRun, Runs
  <2>5. Replaced(i, r)
    BY <1>1, <1>3, <2>3, <2>4 DEF EndRun, Replaced, SameCheck, Runs
  <2> QED
    BY <2>1, <2>5
<1>4. CASE Overwrite(i)
  <2> DEFINE r == [runs[i] EXCEPT !.started = clock, !.completed = Never, !.ok = FALSE]
  <2>1. r \in Runs
    BY <1>1 DEF Runs
  <2>2. runs' = [runs EXCEPT ![i] = r]
    BY <1>1, <1>4 DEF Overwrite, Runs
  <2>3. \A j \in DOMAIN runs : SameCheck(runs[j], runs[i]) => j <= i
    BY <1>4 DEF Overwrite, RunsOf, SameCheck
  <2>4. Replaced(i, r)
    BY <1>1, <1>4, <2>2, <2>3 DEF Overwrite, Replaced, SameCheck, Runs
  <2> QED
    BY <2>1, <2>4
<1> QED
  BY <1>2, <1>3, <1>4
\* A step of the checks and of nothing else.
RunsOnly == Tick /\ UNCHANGED <<pull, receipt, gate, audit>>

\* The steps that leave the runs alone.
PullStep == Merge \/ (\E h \in Heads : Push(h)) \/ \E b \in Bases : MoveBase(b)
GateActs == ReadPull \/ ReadChecks \/ ReadCompare \/ Decide \/ GateFails

\* A step replaces a run, adds one, or leaves the runs alone.
LEMMA StepKinds ==
    ASSUME TypeOK, TimeInv, [Next]_vars
    PROVE  \/ \E i \in DOMAIN runs, r \in Runs : RunsOnly /\ Replaced(i, r)
           \/ \E r \in Runs : RunsOnly /\ Added(r) /\ Len(runs) < MaxRuns
           \/ PullStep \/ GateActs \/ Audit
           \/ \E h \in Heads : WriteReceipt(h)
           \/ UNCHANGED vars
<1>1. ASSUME NEW k \in Keys, Queue(k)
      PROVE  \E r \in Runs : RunsOnly /\ Added(r) /\ Len(runs) < MaxRuns
  BY <1>1, QueueAdds DEF RunsOnly, Queue
<1>2. ASSUME NEW i \in DOMAIN runs, NEW ok \in BOOLEAN,
             StartRun(i) \/ EndRun(i, ok) \/ Overwrite(i)
      PROVE  \E r \in Runs : RunsOnly /\ Replaced(i, r)
  BY <1>2, RunReplaced DEF RunsOnly, StartRun, EndRun, Overwrite
<1>3. ASSUME NEW i \in DOMAIN runs, StartRun(i) \/ Overwrite(i)
      PROVE  \E r \in Runs : RunsOnly /\ Replaced(i, r)
  BY <1>2, <1>3
<1> QED
  BY <1>1, <1>2, <1>3 DEF Next, PullStep, GateActs

\* What the runs are after one of them is replaced.
LEMMA ReplacedRuns ==
    ASSUME TypeOK, NEW i \in DOMAIN runs, NEW r \in Runs, Replaced(i, r)
    PROVE  /\ runs' \in Seq(Runs) /\ Len(runs') = Len(runs)
           /\ DOMAIN runs' = DOMAIN runs
           /\ runs'[i] = r
           /\ \A j \in DOMAIN runs : j # i => runs'[j] = runs[j]
<1>1. runs \in Seq(Runs) /\ DOMAIN runs = 1..Len(runs) /\ i \in 1..Len(runs)
  BY LenProperties DEF TypeOK
<1>2. runs' \in Seq(Runs) /\ Len(runs') = Len(runs)
  BY <1>1, ExceptSeq DEF Replaced
<1> QED
  BY <1>1, <1>2, LenProperties DEF Replaced

\* What the runs are after one is added.
LEMMA AddedRuns ==
    ASSUME TypeOK, NEW r \in Runs, Added(r)
    PROVE  /\ runs' \in Seq(Runs) /\ Len(runs') = Len(runs) + 1
           /\ DOMAIN runs' = DOMAIN runs \cup {Len(runs) + 1}
           /\ \A j \in DOMAIN runs : j < Len(runs) + 1 /\ runs'[j] = runs[j]
           /\ runs'[Len(runs) + 1] = r
<1>1. runs \in Seq(Runs) /\ DOMAIN runs = 1..Len(runs) /\ Len(runs) \in Nat
  BY LenProperties DEF TypeOK
<1>2. /\ runs' \in Seq(Runs) /\ Len(runs') = Len(runs) + 1
      /\ \A j \in 1..Len(runs) : runs'[j] = runs[j]
      /\ runs'[Len(runs) + 1] = r
  BY <1>1, AppendProperties DEF Added
<1>3. DOMAIN runs' = 1..Len(runs')
  BY <1>2, LenProperties
<1> QED
  BY <1>1, <1>2, <1>3

-----------------------------------------------------------------------------
(* Types.                                                                  *)

\* Every verdict of the gate and of the audit is one.
LEMMA VerdictType == GateVerdict \in Verdicts /\ AuditVerdict \in Verdicts
  BY DEF GateVerdict, AuditVerdict, Verdicts

\* Every step keeps the types.
LEMMA TypeStep ==
    ASSUME TypeOK, TimeInv, [Next]_vars
    PROVE  TypeOK'
<1> USE GateAssumption
<1>1. clock \in Times /\ Never \in Times /\ (Tick => clock' \in 1..MaxTime)
  BY DEF TypeOK, Times, Never, Tick
<1>2. ASSUME NEW i \in DOMAIN runs, NEW r \in Runs, RunsOnly, Replaced(i, r)
      PROVE  TypeOK'
  BY <1>1, <1>2, ReplacedRuns DEF RunsOnly, Replaced, TypeOK, Touch
<1>3. ASSUME NEW r \in Runs, RunsOnly, Added(r), Len(runs) < MaxRuns
      PROVE  TypeOK'
  <2>1. Len(runs') <= MaxRuns
    BY <1>3, AddedRuns, LenProperties DEF TypeOK
  <2> QED
    BY <1>1, <1>3, <2>1, AddedRuns DEF RunsOnly, Added, TypeOK, Touch
<1>4. CASE PullStep
  <2>1. CASE Merge
    <3>1. Green(pull.head) \in BOOLEAN
      BY DEF Green
    <3> QED
      BY <1>1, <2>1, <3>1 DEF Merge, TypeOK
  <2>2. ASSUME NEW h \in Heads, Push(h)
        PROVE  TypeOK'
    BY <1>1, <2>2 DEF Push, TypeOK
  <2>3. ASSUME NEW b \in Bases, MoveBase(b)
        PROVE  TypeOK'
    BY <1>1, <2>3 DEF MoveBase, TypeOK
  <2> QED
    BY <1>4, <2>1, <2>2, <2>3 DEF PullStep
<1>5. CASE ReadPull
  <2>1. Idle(pull.head, pull.base) \in [pc: {"idle"}, head: Heads, base: Bases,
           now: Times, runs: Seq(Runs), evidence: BOOLEAN, verdict: Verdicts]
    BY <1>1 DEF Idle, TypeOK, Verdicts
  <2> QED
    BY <1>1, <1>5, <2>1 DEF ReadPull, TypeOK
<1>6. CASE ReadChecks
  BY <1>1, <1>6 DEF ReadChecks, TypeOK, Green
<1>7. CASE ReadCompare
  <2> DEFINE excused == <<gate.base, gate.head>> \in EvidenceOnly
  <2>1. excused \in BOOLEAN
    OBVIOUS
  <2>2. gate' = [gate EXCEPT !.pc = "compared", !.evidence = excused]
    BY <1>7 DEF ReadCompare
  <2> HIDE DEF excused
  <2> QED
    BY <1>1, <1>7, <2>1, <2>2 DEF ReadCompare, TypeOK
<1>8. CASE Decide
  BY <1>1, <1>8, VerdictType DEF Decide, TypeOK
<1>9. CASE GateFails
  BY <1>9 DEF GateFails, TypeOK, Verdicts
<1>10. CASE Audit
  BY <1>1, <1>10, VerdictType DEF Audit, TypeOK
<1>11. ASSUME NEW h \in Heads, WriteReceipt(h)
       PROVE  TypeOK'
  BY <1>1, <1>11 DEF WriteReceipt, TypeOK, Receipts
<1>12. CASE UNCHANGED vars
  BY <1>12 DEF vars, TypeOK
<1> QED
  BY <1>2, <1>3, <1>4, <1>5, <1>6, <1>7, <1>8, <1>9, <1>10, <1>11, <1>12,
     StepKinds DEF GateActs

-----------------------------------------------------------------------------
(* Times.                                                                  *)

\* Types of the numbers the steps compare.
LEMMA Numbers ==
    ASSUME TypeOK
    PROVE  /\ clock \in Nat /\ clock # Never /\ pull.merged \in Nat
           /\ gate.now \in Nat /\ receipt.at \in Nat
           /\ DOMAIN runs = 1..Len(runs) /\ Len(runs) \in Nat
           /\ \A i \in DOMAIN runs : runs[i] \in Runs
           /\ \A r \in Runs : r.created \in Nat /\ r.started \in Nat /\ r.completed \in Nat
<1>1. clock \in Nat /\ clock # Never /\ pull.merged \in Nat
      /\ gate.now \in Nat /\ receipt.at \in Nat
  BY GateAssumption DEF TypeOK, Times, Never, Receipts
<1>2. DOMAIN runs = 1..Len(runs) /\ Len(runs) \in Nat
      /\ \A i \in DOMAIN runs : runs[i] \in Runs
  BY LenProperties, ElementOfSeq DEF TypeOK
<1>3. \A r \in Runs : r.created \in Nat /\ r.started \in Nat /\ r.completed \in Nat
  BY GateAssumption DEF Runs, Times
<1> QED
  BY <1>1, <1>2, <1>3

\* A replaced run keeps the runs in order.
LEMMA ReplacedTimes ==
    ASSUME TypeOK, TimeInv, NEW i \in DOMAIN runs, NEW r \in Runs,
           RunsOnly, Replaced(i, r)
    PROVE  AllTimed(runs', clock') /\ Chained(runs')
<1>1. clock' = clock + 1
  BY DEF RunsOnly, Tick
<1>2. AllTimed(runs', clock')
  <2>1. Timed(r, clock')
    <3>1. Timed(runs[i], clock)
      BY DEF TimeInv, AllTimed
    <3> QED
      BY <1>1, <3>1, Numbers DEF Timed, Replaced, Never
  <2>2. ASSUME NEW j \in DOMAIN runs
        PROVE  Timed(runs[j], clock')
    BY <1>1, Numbers DEF TimeInv, AllTimed, Timed, Never
  <2> QED
    BY <2>1, <2>2, ReplacedRuns DEF AllTimed
<1>3. Chained(runs')
  <2> SUFFICES ASSUME NEW a \in DOMAIN runs, NEW b \in DOMAIN runs,
                      a < b, SameCheck(runs'[a], runs'[b])
               PROVE  runs'[a].completed # Never /\ runs'[a].completed < runs'[b].created
    BY ReplacedRuns DEF Chained
  <2>1. SameCheck(runs[a], runs[b])
    BY ReplacedRuns DEF Replaced, SameCheck
  <2>2. a # i
    BY <2>1, Numbers DEF Replaced, SameCheck
  <2>3. runs'[b].created = runs[b].created
    BY ReplacedRuns DEF Replaced
  <2> QED
    BY <2>1, <2>2, <2>3, ReplacedRuns DEF TimeInv, Chained
<1> QED
  BY <1>2, <1>3

\* An added run comes after the runs of its check.
LEMMA AddedTimes ==
    ASSUME TypeOK, TimeInv, NEW r \in Runs, RunsOnly, Added(r)
    PROVE  AllTimed(runs', clock') /\ Chained(runs')
<1>1. clock' = clock + 1
  BY DEF RunsOnly, Tick
<1>2. \A j \in DOMAIN runs : Timed(runs[j], clock')
  BY <1>1, Numbers DEF TimeInv, AllTimed, Timed, Never
<1>3. Timed(r, clock')
  BY <1>1, Numbers DEF Timed, Added, Never
<1>4. AllTimed(runs', clock')
  BY <1>2, <1>3, AddedRuns DEF AllTimed
<1>5. Chained(runs')
  <2> SUFFICES ASSUME NEW a \in DOMAIN runs', NEW b \in DOMAIN runs',
                      a < b, SameCheck(runs'[a], runs'[b])
               PROVE  runs'[a].completed # Never /\ runs'[a].completed < runs'[b].created
    BY DEF Chained
  <2>1. a \in DOMAIN runs /\ runs'[a] = runs[a]
    BY AddedRuns, Numbers
  <2>2. CASE b \in DOMAIN runs
    BY <2>1, <2>2, AddedRuns DEF TimeInv, Chained
  <2>3. CASE b \notin DOMAIN runs
    <3>1. runs'[b] = r
      BY <2>3, AddedRuns
    <3>2. runs[a].completed # Never /\ r.created = clock
      BY <2>1, <3>1 DEF Added
    <3> QED
      BY <2>1, <3>1, <3>2 DEF TimeInv, AllTimed, Timed
  <2> QED
    BY <2>2, <2>3
<1> QED
  BY <1>4, <1>5

\* Every step keeps the order of the times.
LEMMA TimeStep ==
    ASSUME TypeOK, TimeInv, [Next]_vars
    PROVE  TimeInv'
<1>0. clock \in Nat /\ clock # Never /\ (Tick => clock' = clock + 1)
  BY Numbers DEF Tick
<1>1. UNCHANGED runs /\ clock' \in {clock, clock + 1}
         => AllTimed(runs', clock') /\ Chained(runs')
  BY Numbers DEF TimeInv, AllTimed, Timed, Never
<1>2. ASSUME NEW i \in DOMAIN runs, NEW r \in Runs, RunsOnly, Replaced(i, r)
      PROVE  TimeInv'
  BY <1>0, <1>2, ReplacedTimes, Numbers DEF RunsOnly, TimeInv, Open
<1>3. ASSUME NEW r \in Runs, RunsOnly, Added(r)
      PROVE  TimeInv'
  BY <1>0, <1>3, AddedTimes, Numbers DEF RunsOnly, TimeInv, Open
<1>4. CASE PullStep
  BY <1>0, <1>1, <1>4, Numbers
  DEF PullStep, Merge, Push, MoveBase, TimeInv, Open, TypeOK
<1>5. CASE GateActs
  <2>1. UNCHANGED <<runs, pull, receipt, audit>> /\ clock' \in {clock, clock + 1}
    BY <1>0, <1>5 DEF GateActs, ReadPull, ReadChecks, ReadCompare, Decide, GateFails
  <2>2. \/ gate'.now \in {gate.now, Never}
        \/ gate'.now = clock /\ clock' = clock + 1
    BY <1>0, <1>5
    DEF GateActs, ReadPull, ReadChecks, ReadCompare, Decide, GateFails, Idle, TypeOK
  <2> QED
    BY <1>0, <1>1, <2>1, <2>2, Numbers DEF TimeInv, Open, Never
<1>6. CASE Audit
  BY <1>0, <1>1, <1>6, Numbers DEF Audit, TimeInv, Open
<1>7. ASSUME NEW h \in Heads, WriteReceipt(h)
      PROVE  TimeInv'
  <2>1. receipt'.at = clock /\ receipt' # NoReceipt
    BY <1>0, <1>7 DEF WriteReceipt, NoReceipt
  <2> QED
    BY <1>0, <1>1, <1>7, <2>1, Numbers DEF WriteReceipt, TimeInv, Open
<1>8. CASE UNCHANGED vars
  BY <1>1, <1>8 DEF vars, TimeInv, Open
<1> QED
  BY <1>2, <1>3, <1>4, <1>5, <1>6, <1>7, <1>8, StepKinds

-----------------------------------------------------------------------------
(* What findings() can tell from the times.                                *)

\* The entries of a list of runs.
LEMMA Entries ==
    ASSUME NEW list \in Seq(Runs)
    PROVE  /\ \A i \in DOMAIN list : i \in Nat
           /\ \A i \in DOMAIN list :
                 /\ list[i].created \in Nat /\ list[i].started \in Nat
                 /\ list[i].completed \in Nat
<1>1. DOMAIN list = 1..Len(list) /\ \A i \in DOMAIN list : list[i] \in Runs
  BY LenProperties, ElementOfSeq
<1>2. \A r \in Runs : r.created \in Nat /\ r.started \in Nat /\ r.completed \in Nat
  BY GateAssumption DEF Runs, Times
<1> QED
  BY <1>1, <1>2

\* findings() reads no more than the runs of the head.
LEMMA SameFindings ==
    ASSUME NEW h, NEW list, NEW other, NEW m, SameOf(h, list, other)
    PROVE  CheckFindings(h, list, m) <=> CheckFindings(h, other, m)
<1>1. RunsOf(h, list) = RunsOf(h, other) /\ \A i \in RunsOf(h, list) : list[i] = other[i]
  BY DEF SameOf
<1>2. Latest(h, list, m) = Latest(h, other, m)
  <2> HIDE DEF RunsOf
  <2> QED
    BY <1>1, Zenon DEF Latest
<1>3. Latest(h, list, m) \subseteq RunsOf(h, list)
  BY DEF Latest
<1> QED
  BY <1>1, <1>2, <1>3 DEF CheckFindings

\* What a run was is the same at any moment after all its times.
LEMMA ExistedLater ==
    ASSUME NEW r \in Runs, NEW n \in Nat, NEW m \in Nat, Timed(r, n), n <= m
    PROVE  /\ Existed(r, n) = Existed(r, m)
           /\ Existed(r, n) \in 1..n <=> Existed(r, m) \in 1..m
           /\ r.completed \in 1..n <=> r.completed \in 1..m
<1>1. r.created \in Nat /\ r.started \in Nat /\ r.completed \in Nat
  BY GateAssumption DEF Runs, Times
<1> QED
  BY <1>1 DEF Existed, Timed, Never

\* The audit finds in a list what the gate finds in it.
LEMMA LaterFindings ==
    ASSUME NEW h, NEW list \in Seq(Runs), NEW n \in Nat, NEW m \in Nat,
           AllTimed(list, n), n <= m
    PROVE  CheckFindings(h, list, n) <=> CheckFindings(h, list, m)
<1>1. \A i \in DOMAIN list :
         /\ Existed(list[i], n) = Existed(list[i], m)
         /\ Existed(list[i], n) \in 1..n <=> Existed(list[i], m) \in 1..m
         /\ list[i].completed \in 1..n <=> list[i].completed \in 1..m
  BY ExistedLater, LenProperties, ElementOfSeq DEF AllTimed
<1>2. RunsOf(h, list) \subseteq DOMAIN list
  BY DEF RunsOf
<1>3. Latest(h, list, n) = Latest(h, list, m)
  BY <1>1, <1>2 DEF Latest
<1>4. Latest(h, list, m) \subseteq RunsOf(h, list)
  BY DEF Latest
<1> QED
  BY <1>1, <1>2, <1>3, <1>4 DEF CheckFindings

\* Without findings, the run that decided for a check is its last one that
\* existed, and was green at the moment.
LEMMA DecidingRun ==
    ASSUME NEW h, NEW list \in Seq(Runs), NEW now \in Nat, NEW m \in Nat,
           AllTimed(list, now), Chained(list), ~CheckFindings(h, list, m),
           NEW i \in RunsOf(h, list)
    PROVE  \E j \in RunsOf(h, list) :
              /\ list[j].key = list[i].key
              /\ list[j].completed \in 1..m /\ list[j].ok
              /\ Existed(list[i], m) \in 1..m => i <= j
<1>1. PICK j \in Latest(h, list, m) : list[j].key = list[i].key
  BY DEF CheckFindings
<1>2. j \in RunsOf(h, list) /\ list[j].completed \in 1..m /\ list[j].ok
  BY <1>1 DEF Latest, CheckFindings
<1>3. Existed(list[i], m) \in 1..m => i <= j
  <2> SUFFICES ASSUME Existed(list[i], m) \in 1..m, ~(i <= j)
               PROVE  FALSE
    OBVIOUS
  <2>1. i \in DOMAIN list /\ j \in DOMAIN list /\ i \in Nat /\ j \in Nat
    BY <1>2, Entries DEF RunsOf
  <2>2. Existed(list[i], m) < Existed(list[j], m)
    BY <1>1, <2>1 DEF Latest
  <2>3. list[j].completed # Never /\ list[j].completed < list[i].created
    BY <1>1, <1>2, <2>1 DEF Chained, SameCheck, RunsOf
  <2>4. Timed(list[i], now) /\ Timed(list[j], now)
    BY <2>1 DEF AllTimed
  <2>5. Existed(list[j], m) \in {list[j].created, list[j].started}
    BY <1>1 DEF Latest, Existed, Never
  <2>6. Existed(list[i], m) \in {list[i].created, list[i].started} /\ Existed(list[i], m) # Never
    BY DEF Existed, Never
  <2> QED
    BY <2>1, <2>2, <2>3, <2>4, <2>5, <2>6, Entries DEF Timed, Never
<1> QED
  BY <1>1, <1>2, <1>3

\* Of runs that all lie before the moment, no finding means green.
LEMMA NoFindingsGreen ==
    ASSUME NEW h, NEW list \in Seq(Runs), NEW m \in Nat,
           AllTimed(list, m), Chained(list), ~CheckFindings(h, list, m)
    PROVE  GreenIn(h, list)
<1> SUFFICES ASSUME NEW i \in RunsOf(h, list)
             PROVE  \/ list[i].completed # Never /\ list[i].ok
                    \/ \E j \in RunsOf(h, list) : j > i /\ list[j].key = list[i].key
  BY DEF GreenIn
<1>1. i \in DOMAIN list /\ Timed(list[i], m)
  BY DEF RunsOf, AllTimed
<1>2. Existed(list[i], m) # Never
  BY DEF CheckFindings
<1>3. Existed(list[i], m) \in 1..m
  BY <1>1, <1>2, Entries DEF Existed, Timed, Never
<1>4. PICK j \in RunsOf(h, list) : /\ list[j].key = list[i].key
                                   /\ list[j].completed \in 1..m /\ list[j].ok
                                   /\ i <= j
  BY <1>3, DecidingRun
<1>5. i \in Nat /\ j \in Nat /\ list[j].completed # Never
  BY <1>1, <1>4, Entries DEF RunsOf, Never
<1>6. i = j \/ j > i
  BY <1>4, <1>5
<1> QED
  BY <1>4, <1>5, <1>6

\* A check that was red at the moment is found out at any later time.
LEMMA RedFound ==
    ASSUME NEW h, NEW list \in Seq(Runs), NEW now \in Nat, NEW m \in Nat,
           AllTimed(list, now), Chained(list), RedAt(h, list, m)
    PROVE  CheckFindings(h, list, m)
<1> SUFFICES ASSUME ~CheckFindings(h, list, m)
             PROVE  FALSE
  OBVIOUS
<1>1. PICK i \in RunsOf(h, list) :
         /\ list[i].created < m
         /\ list[i].completed \notin 1..m \/ ~list[i].ok
         /\ \A j \in RunsOf(h, list) :
               j > i /\ list[j].key = list[i].key => list[j].created > m
  BY DEF RedAt
<1>2. i \in DOMAIN list /\ Timed(list[i], now)
  BY DEF RunsOf, AllTimed
<1>3. Existed(list[i], m) \in 1..m
  <2>1. Existed(list[i], m) # Never
    BY DEF CheckFindings
  <2> QED
    BY <1>1, <1>2, <2>1, Entries DEF Existed, Timed, Never
<1>4. PICK j \in RunsOf(h, list) : /\ list[j].key = list[i].key
                                   /\ list[j].completed \in 1..m /\ list[j].ok
                                   /\ i <= j
  BY <1>3, DecidingRun
<1>5. j \in DOMAIN list /\ Timed(list[j], now)
  BY DEF RunsOf, AllTimed
<1>6. j # i
  BY <1>1, <1>4
<1>7. list[j].created > m
  BY <1>1, <1>2, <1>4, <1>5, <1>6, Entries
<1> QED
  BY <1>4, <1>5, <1>7, Entries DEF Timed, Never

-----------------------------------------------------------------------------
(* The gate.                                                               *)

\* As long as nobody touches the checks of the gate's head, they are the same.
LEMMA Untouched ==
    ASSUME TypeOK, RunsOnly, ~seen'.touched,
           \/ \E i \in DOMAIN runs, r \in Runs : Replaced(i, r)
           \/ \E r \in Runs : Added(r)
    PROVE  ~seen.touched /\ SameOf(gate.head, runs', runs)
<1>1. ASSUME NEW i \in DOMAIN runs, NEW r \in Runs, Replaced(i, r)
      PROVE  ~seen.touched /\ SameOf(gate.head, runs', runs)
  <2>1. ~seen.touched /\ runs[i].head # gate.head
    BY <1>1 DEF Replaced, Touch, TypeOK
  <2>2. r.head # gate.head
    BY <1>1, <2>1 DEF Replaced, SameCheck
  <2>3. RunsOf(gate.head, runs') = RunsOf(gate.head, runs)
    BY <1>1, <2>1, <2>2, ReplacedRuns DEF RunsOf
  <2> QED
    BY <1>1, <2>1, <2>3, ReplacedRuns DEF SameOf, RunsOf
<1>2. ASSUME NEW r \in Runs, Added(r)
      PROVE  ~seen.touched /\ SameOf(gate.head, runs', runs)
  <2>1. ~seen.touched /\ r.head # gate.head
    BY <1>2 DEF Added, Touch, TypeOK
  <2>2. RunsOf(gate.head, runs') = RunsOf(gate.head, runs)
    BY <1>2, <2>1, AddedRuns DEF RunsOf
  <2> QED
    BY <1>2, <2>1, <2>2, AddedRuns DEF SameOf, RunsOf
<1> QED
  BY <1>1, <1>2

\* A step of the checks leaves the rest of what is remembered alone.
LEMMA SeenKept ==
    ASSUME TypeOK, NEW h, Touch(h)
    PROVE  /\ seen'.gateGreen = seen.gateGreen /\ seen'.gateReceipt = seen.gateReceipt
           /\ seen'.mergeGreen = seen.mergeGreen
           /\ seen'.mergeReceipt = seen.mergeReceipt
  BY DEF Touch, TypeOK

\* What the gate has read stays what was so when it read it.
LEMMA ReadStep ==
    ASSUME TypeOK, TimeInv, ReadInv, [Next]_vars
    PROVE  ReadInv'
<1>1. CASE RunsOnly /\ (\/ \E i \in DOMAIN runs, r \in Runs : Replaced(i, r)
                        \/ \E r \in Runs : Added(r))
  <2>1. gate' = gate /\ seen'.gateGreen = seen.gateGreen
    BY <1>1, SeenKept DEF RunsOnly, Replaced, Added
  <2>2. gate.now # Never /\ ~seen'.touched => SameOf(gate.head, runs', gate.runs)
    BY <1>1, Untouched DEF SameOf, ReadInv
  <2> QED
    BY <2>1, <2>2 DEF ReadInv, HasRead
<1>2. CASE PullStep
  <2>1. /\ UNCHANGED <<runs, gate>> /\ seen'.gateGreen = seen.gateGreen
        /\ seen'.touched = seen.touched
    BY <1>2 DEF PullStep, Merge, Push, MoveBase, TypeOK
  <2> QED
    BY <2>1 DEF ReadInv, HasRead
<1>3. CASE ReadPull
  <2>1. /\ gate'.pc = "pulled" /\ gate'.now = Never /\ gate'.runs = <<>>
        /\ ~gate'.evidence /\ gate'.verdict = "none"
    BY <1>3 DEF ReadPull, Idle
  <2>2. AllTimed(<<>>, Never) /\ Chained(<<>>)
    BY DEF AllTimed, Chained
  <2> QED
    BY <2>1, <2>2 DEF ReadInv, HasRead
<1>4. CASE ReadChecks
  <2>1. /\ gate'.pc = "checked" /\ gate'.now = clock /\ gate'.runs = runs
        /\ gate'.verdict = gate.verdict /\ gate'.head = gate.head
        /\ gate'.base = gate.base /\ gate'.evidence = gate.evidence
        /\ runs' = runs
    BY <1>4 DEF ReadChecks, TypeOK
  <2>2. seen'.gateGreen = GreenIn(gate.head, runs)
    <3>1. seen'.gateGreen = Green(gate.head)
      BY <1>4 DEF ReadChecks, TypeOK
    <3>2. Green(gate.head) = GreenIn(gate.head, runs)
      BY DEF Green, GreenIn
    <3> QED
      BY <3>1, <3>2
  <2>3. gate.verdict # "pass" /\ clock # Never
    BY <1>4, Numbers DEF ReadChecks, ReadInv
  <2>4. SameOf(gate.head, runs, runs)
    BY DEF SameOf
  <2> QED
    BY <2>1, <2>2, <2>3, <2>4 DEF ReadInv, TimeInv, HasRead
<1>5. CASE ReadCompare \/ Decide \/ GateFails
  <2>1. /\ gate'.pc \in {"compared", "over"} /\ gate'.now = gate.now
        /\ gate'.runs = gate.runs /\ gate'.head = gate.head /\ gate'.base = gate.base
        /\ seen'.gateGreen = seen.gateGreen /\ seen'.touched = seen.touched
        /\ runs' = runs
    BY <1>5 DEF ReadCompare, Decide, GateFails, TypeOK
  <2>2. gate'.evidence => <<gate.base, gate.head>> \in EvidenceOnly
    BY <1>5 DEF ReadCompare, Decide, GateFails, TypeOK, ReadInv
  <2>3. gate'.verdict = "pass" => gate'.pc = "over" /\ gate.now # Never
    BY <1>5 DEF ReadCompare, Decide, GateFails, TypeOK, ReadInv
  <2>4. gate'.pc = "compared" => gate.now # Never
    BY <1>5 DEF ReadCompare, Decide, GateFails, TypeOK, ReadInv
  <2> QED
    BY <2>1, <2>2, <2>3, <2>4 DEF ReadInv, HasRead
<1>6. CASE Audit \/ \E h \in Heads : WriteReceipt(h)
  <2>1. /\ UNCHANGED <<runs, gate>> /\ seen'.gateGreen = seen.gateGreen
        /\ seen'.touched = seen.touched
    BY <1>6 DEF Audit, WriteReceipt, TypeOK
  <2> QED
    BY <2>1 DEF ReadInv, HasRead
<1>7. CASE UNCHANGED vars
  BY <1>7 DEF vars, ReadInv, HasRead
<1> QED
  BY <1>1, <1>2, <1>3, <1>4, <1>5, <1>6, <1>7, StepKinds DEF GateActs

\* A pass is given on no findings, and for a receipt or for evidence only.
LEMMA PassStep ==
    ASSUME TypeOK, TimeInv, ReadInv, PassInv, [Next]_vars
    PROVE  PassInv'
<1>1. CASE RunsOnly /\ (\/ \E i \in DOMAIN runs, r \in Runs : Replaced(i, r)
                        \/ \E r \in Runs : Added(r))
  <2>1. UNCHANGED <<gate, receipt>> /\ seen'.gateReceipt = seen.gateReceipt
    BY <1>1, SeenKept DEF RunsOnly, Replaced, Added
  <2> QED
    BY <2>1 DEF PassInv
<1>2. CASE PullStep \/ Audit
  <2>1. UNCHANGED <<gate, receipt>> /\ seen'.gateReceipt = seen.gateReceipt
    BY <1>2 DEF PullStep, Merge, Push, MoveBase, Audit, TypeOK
  <2> QED
    BY <2>1 DEF PassInv
<1>3. CASE ReadPull \/ ReadChecks \/ ReadCompare \/ GateFails
  <2>1. gate'.verdict # "pass"
    BY <1>3 DEF ReadPull, ReadChecks, ReadCompare, GateFails, Idle, TypeOK, ReadInv
  <2> QED
    BY <2>1 DEF PassInv
<1>4. CASE Decide
  <2>1. /\ gate'.head = gate.head /\ gate'.runs = gate.runs /\ gate'.now = gate.now
        /\ gate'.evidence = gate.evidence /\ gate'.verdict = GateVerdict
        /\ seen'.gateReceipt = (receipt.head = {gate.head})
        /\ receipt' = receipt
    BY <1>4 DEF Decide, TypeOK
  <2> SUFFICES ASSUME GateVerdict = "pass"
               PROVE  /\ ~CheckFindings(gate.head, gate.runs, gate.now)
                      /\ \/ receipt = NoReceipt /\ gate.evidence
                         \/ receipt # NoReceipt /\ receipt.head = {gate.head}
    BY <2>1 DEF PassInv
  <2>2. /\ receipt # NoReceipt => ReceiptValid(receipt, gate.head, gate.now)
        /\ ~CheckFindings(gate.head, gate.runs, gate.now)
        /\ receipt # NoReceipt \/ gate.evidence
    BY DEF GateVerdict
  <2> QED
    BY <2>2 DEF ReceiptValid
<1>5. ASSUME NEW h \in Heads, WriteReceipt(h)
      PROVE  PassInv'
  <2>1. UNCHANGED <<gate, seen>> /\ receipt'.at = clock
    BY <1>5 DEF WriteReceipt
  <2> QED
    BY <2>1, Numbers DEF PassInv, TimeInv
<1>6. CASE UNCHANGED vars
  BY <1>6 DEF vars, PassInv
<1> QED
  BY <1>1, <1>2, <1>3, <1>4, <1>5, <1>6, StepKinds DEF GateActs

-----------------------------------------------------------------------------
(* The audit.                                                              *)

\* A check that is not green leaves its trace when the pull request is merged.
LEMMA RedAtMerge ==
    ASSUME TypeOK, TimeInv, NEW h, ~Green(h)
    PROVE  RedAt(h, runs, clock)
<1>1. PICK i \in RunsOf(h, runs) :
         /\ ~(runs[i].completed # Never /\ runs[i].ok)
         /\ ~\E j \in RunsOf(h, runs) : j > i /\ runs[j].key = runs[i].key
  BY DEF Green
<1>2. i \in DOMAIN runs /\ Timed(runs[i], clock)
  BY DEF RunsOf, TimeInv, AllTimed
<1>3. runs[i].created < clock /\ (runs[i].completed \notin 1..clock \/ ~runs[i].ok)
  BY <1>1, <1>2, Numbers DEF Timed, Never
<1> QED
  BY <1>1, <1>3 DEF RedAt

\* The trace is not lost when the checks are run again or overwritten.
LEMMA RedStays ==
    ASSUME TypeOK, TimeInv, NEW h, NEW m \in Nat, m < clock, RedAt(h, runs, m),
           \/ \E i \in DOMAIN runs, r \in Runs : Replaced(i, r)
           \/ \E r \in Runs : Added(r)
    PROVE  RedAt(h, runs', m)
<1>1. PICK w \in RunsOf(h, runs) :
         /\ runs[w].created < m
         /\ runs[w].completed \notin 1..m \/ ~runs[w].ok
         /\ \A j \in RunsOf(h, runs) :
               j > w /\ runs[j].key = runs[w].key => runs[j].created > m
  BY DEF RedAt
<1>2. w \in DOMAIN runs
  BY DEF RunsOf
<1>3. ASSUME NEW i \in DOMAIN runs, NEW r \in Runs, Replaced(i, r)
      PROVE  RedAt(h, runs', m)
  <2>1. RunsOf(h, runs') = RunsOf(h, runs)
    BY <1>3, ReplacedRuns DEF RunsOf, Replaced, SameCheck
  <2>2. \A j \in DOMAIN runs : /\ runs'[j].created = runs[j].created
                               /\ runs'[j].key = runs[j].key
    BY <1>3, ReplacedRuns DEF Replaced, SameCheck
  <2>3. runs'[w].completed \notin 1..m \/ ~runs'[w].ok
    <3>1. CASE w = i
      BY <1>3, <3>1, ReplacedRuns, Numbers DEF Replaced, Never
    <3>2. CASE w # i
      BY <1>1, <1>2, <1>3, <3>2, ReplacedRuns
    <3> QED
      BY <3>1, <3>2
  <2> QED
    BY <1>1, <1>2, <2>1, <2>2, <2>3 DEF RedAt, RunsOf
<1>4. ASSUME NEW r \in Runs, Added(r)
      PROVE  RedAt(h, runs', m)
  <2>1. w \in RunsOf(h, runs') /\ runs'[w] = runs[w]
    BY <1>2, <1>4, AddedRuns DEF RunsOf
  <2>2. ASSUME NEW j \in RunsOf(h, runs'), j > w, runs'[j].key = runs'[w].key
        PROVE  runs'[j].created > m
    <3>1. CASE j \in DOMAIN runs
      BY <1>1, <1>4, <2>1, <2>2, <3>1, AddedRuns DEF RunsOf
    <3>2. CASE j \notin DOMAIN runs
      <4>1. runs'[j] = r
        BY <1>4, <3>2, AddedRuns DEF RunsOf
      <4> QED
        BY <1>4, <4>1, Numbers DEF Added
    <3> QED
      BY <3>1, <3>2
  <2> QED
    BY <1>1, <2>1, <2>2 DEF RedAt
<1> QED
  BY <1>3, <1>4

\* What was red at the merge stays found.
LEMMA MergeStep ==
    ASSUME TypeOK, TimeInv, MergeInv, [Next]_vars
    PROVE  MergeInv'
<1>1. CASE RunsOnly /\ (\/ \E i \in DOMAIN runs, r \in Runs : Replaced(i, r)
                        \/ \E r \in Runs : Added(r))
  <2>1. UNCHANGED pull /\ seen'.mergeGreen = seen.mergeGreen
    BY <1>1, SeenKept DEF RunsOnly, Replaced, Added
  <2>2. pull.merged \in Nat /\ pull.merged < clock
    BY Numbers DEF TimeInv
  <2> QED
    BY <1>1, <2>1, <2>2, RedStays DEF MergeInv, Open
<1>2. CASE Merge
  <2>1. /\ pull'.merged = clock /\ pull'.head = pull.head /\ runs' = runs
        /\ seen'.mergeGreen = Green(pull.head)
    BY <1>2 DEF Merge, TypeOK
  <2> QED
    BY <2>1, RedAtMerge DEF MergeInv
<1>3. CASE (\E h \in Heads : Push(h)) \/ \E b \in Bases : MoveBase(b)
  <2>1. Open'
    BY <1>3 DEF Push, MoveBase, Open, TypeOK
  <2> QED
    BY <2>1 DEF MergeInv
<1>4. CASE GateActs \/ Audit \/ \E h \in Heads : WriteReceipt(h)
  <2>1. UNCHANGED <<pull, runs>> /\ seen'.mergeGreen = seen.mergeGreen
    BY <1>4 DEF GateActs, ReadPull, ReadChecks, ReadCompare, Decide, GateFails,
                Audit, WriteReceipt, TypeOK
  <2> QED
    BY <2>1 DEF MergeInv, Open
<1>5. CASE UNCHANGED vars
  BY <1>5 DEF vars, MergeInv, Open
<1> QED
  BY <1>1, <1>2, <1>3, <1>4, <1>5, StepKinds DEF PullStep

\* A clean audit is of a merge whose checks were green, with a receipt or
\* evidence only.
LEMMA CleanVerdict ==
    ASSUME TypeOK, TimeInv, MergeInv, ~Open, AuditVerdict = "pass"
    PROVE  seen.mergeGreen /\ (receipt.head = {pull.head} \/ OnlyEvidence)
<1>1. /\ receipt # NoReceipt => ReceiptValid(receipt, pull.head, pull.merged)
      /\ ~CheckFindings(pull.head, runs, pull.merged)
      /\ receipt # NoReceipt \/ OnlyEvidence
  BY DEF AuditVerdict
<1>2. ~RedAt(pull.head, runs, pull.merged)
  BY <1>1, RedFound, Numbers DEF TypeOK, TimeInv
<1> QED
  BY <1>1, <1>2 DEF MergeInv, ReceiptValid

\* What the audit said it would say again.
LEMMA AuditStep ==
    ASSUME TypeOK, TimeInv, MergeInv, AuditInv, [Next]_vars
    PROVE  AuditInv'
<1>1. CASE RunsOnly /\ (\/ \E i \in DOMAIN runs, r \in Runs : Replaced(i, r)
                        \/ \E r \in Runs : Added(r))
  <2>1. /\ UNCHANGED <<pull, receipt, gate, audit>>
        /\ seen'.mergeGreen = seen.mergeGreen /\ seen'.mergeReceipt = seen.mergeReceipt
    BY <1>1, SeenKept DEF RunsOnly, Replaced, Added
  <2>2. ~seen'.touched /\ pull.head = gate.head
           => ~seen.touched /\ AuditVerdict' = AuditVerdict
    <3> SUFFICES ASSUME ~seen'.touched, pull.head = gate.head
                 PROVE  ~seen.touched /\ AuditVerdict' = AuditVerdict
      OBVIOUS
    <3>1. ~seen.touched /\ SameOf(pull.head, runs', runs)
      BY <1>1, Untouched
    <3>2. CheckFindings(pull.head, runs', pull.merged)
             <=> CheckFindings(pull.head, runs, pull.merged)
      BY <3>1, SameFindings
    <3> QED
      BY <2>1, <3>1, <3>2 DEF AuditVerdict, OnlyEvidence
  <2> QED
    BY <2>1, <2>2 DEF AuditInv, OnlyEvidence
<1>2. CASE PullStep
  <2>1. audit' = "none"
    BY <1>2 DEF PullStep, Merge, Push, MoveBase, TimeInv, TypeOK, Verdicts
  <2> QED
    BY <2>1 DEF AuditInv
<1>3. CASE ReadPull
  <2>1. audit' = "none"
    BY <1>3 DEF ReadPull, TimeInv
  <2> QED
    BY <2>1 DEF AuditInv
<1>4. CASE ReadChecks
  <2>1. /\ UNCHANGED <<pull, audit>> /\ gate'.now = clock
        /\ seen'.mergeGreen = seen.mergeGreen /\ seen'.mergeReceipt = seen.mergeReceipt
    BY <1>4 DEF ReadChecks, TypeOK
  <2>2. ~(gate'.now <= pull'.merged)
    BY <2>1, Numbers DEF TimeInv
  <2> QED
    BY <2>1, <2>2 DEF AuditInv, OnlyEvidence
<1>5. CASE ReadCompare \/ Decide \/ GateFails
  <2>1. /\ UNCHANGED <<pull, runs, receipt, audit>>
        /\ gate'.now = gate.now /\ gate'.head = gate.head
        /\ seen'.touched = seen.touched
        /\ seen'.mergeGreen = seen.mergeGreen /\ seen'.mergeReceipt = seen.mergeReceipt
    BY <1>5 DEF ReadCompare, Decide, GateFails, TypeOK
  <2>2. AuditVerdict' = AuditVerdict
    BY <2>1 DEF AuditVerdict, OnlyEvidence
  <2> QED
    BY <2>1, <2>2 DEF AuditInv, OnlyEvidence
<1>6. CASE Audit
  <2>1. /\ UNCHANGED <<pull, runs, receipt, gate>> /\ audit' = AuditVerdict
        /\ seen'.mergeGreen = seen.mergeGreen
        /\ seen'.mergeReceipt = (receipt.head = {pull.head})
    BY <1>6 DEF Audit, TypeOK
  <2>2. AuditVerdict' = AuditVerdict /\ OnlyEvidence' = OnlyEvidence
    BY <2>1 DEF AuditVerdict, OnlyEvidence
  <2>3. AuditVerdict = "pass" => seen.mergeGreen
                                 /\ (receipt.head = {pull.head} \/ OnlyEvidence)
    BY <1>6, CleanVerdict DEF Audit
  <2> QED
    BY <2>1, <2>2, <2>3 DEF AuditInv
<1>7. ASSUME NEW h \in Heads, WriteReceipt(h)
      PROVE  AuditInv'
  <2>1. UNCHANGED <<pull, gate, audit, seen>> /\ receipt'.at = clock
    BY <1>7 DEF WriteReceipt
  <2>2. ~(receipt'.at <= gate'.now)
    BY <2>1, Numbers DEF TimeInv
  <2> QED
    BY <2>1, <2>2 DEF AuditInv, OnlyEvidence
<1>8. CASE UNCHANGED vars
  BY <1>8 DEF vars, AuditInv, AuditVerdict, OnlyEvidence
<1> QED
  BY <1>1, <1>2, <1>3, <1>4, <1>5, <1>6, <1>7, <1>8, StepKinds DEF GateActs

-----------------------------------------------------------------------------
(* The theorems.                                                           *)

\* Initially nothing has been run, read or merged.
LEMMA InitInv == Init => IInv
<1> SUFFICES ASSUME Init PROVE IInv
  OBVIOUS
<1> USE GateAssumption
<1>1. clock = 1 /\ runs = <<>> /\ receipt = NoReceipt /\ audit = "none"
  BY DEF Init
<1>2. PICK h \in Heads, b \in Bases :
         pull = [head |-> h, base |-> b, merged |-> Never] /\ gate = Idle(h, b)
  BY DEF Init
<1>3. Never \in Times /\ clock \in 1..MaxTime
  BY <1>1 DEF Times, Never
<1>4. TypeOK
  BY <1>1, <1>2, <1>3 DEF Init, TypeOK, Idle, Verdicts, NoReceipt, Receipts
<1>5. AllTimed(<<>>, 1) /\ AllTimed(<<>>, Never) /\ Chained(<<>>)
  BY DEF AllTimed, Chained
<1>6. TimeInv
  BY <1>1, <1>2, <1>5 DEF TimeInv, Idle, NoReceipt, Never
<1>7. ReadInv
  BY <1>2, <1>5 DEF ReadInv, Idle, HasRead
<1>8. PassInv /\ MergeInv /\ AuditInv
  BY <1>1, <1>2 DEF PassInv, MergeInv, AuditInv, Idle, Open
<1> QED
  BY <1>4, <1>6, <1>7, <1>8 DEF IInv

\* The times, what was read, what passed and what was merged always fit.
THEOREM GateInvariant == Spec => []IInv
<1>1. IInv /\ [Next]_vars => IInv'
  BY TypeStep, TimeStep, ReadStep, PassStep, MergeStep, AuditStep DEF IInv
<1> QED
  BY InitInv, <1>1, PTL DEF Spec

\* --premerge passes a head only on checks of that head that were green when
\* they were read, and on its receipt or a diff of evidence only.
THEOREM PassIsJudged == Spec => []PassMeansJudged
<1>1. IInv => PassMeansJudged
  <2> SUFFICES ASSUME IInv, gate.verdict = "pass"
               PROVE  /\ seen.gateGreen
                      /\ seen.gateReceipt \/ <<gate.base, gate.head>> \in EvidenceOnly
    BY DEF PassMeansJudged
  <2>1. /\ gate.now # Never /\ seen.gateGreen = GreenIn(gate.head, gate.runs)
        /\ AllTimed(gate.runs, gate.now) /\ Chained(gate.runs)
        /\ gate.evidence => <<gate.base, gate.head>> \in EvidenceOnly
    BY DEF IInv, ReadInv
  <2>2. /\ ~CheckFindings(gate.head, gate.runs, gate.now)
        /\ seen.gateReceipt \/ gate.evidence
    BY DEF IInv, PassInv
  <2>3. gate.runs \in Seq(Runs) /\ gate.now \in Nat
    BY Numbers DEF IInv, TypeOK
  <2>4. GreenIn(gate.head, gate.runs)
    BY <2>1, <2>2, <2>3, NoFindingsGreen
  <2> QED
    BY <2>1, <2>2, <2>4
<1> QED
  BY <1>1, GateInvariant, PTL

\* A clean audit, whenever it is made, is of a merge whose checks were green
\* at that moment: re-runs, overwritten runs and new heads hide nothing.
THEOREM AuditIsOfTheMerge == Spec => []CleanAuditWasGreen
<1>1. IInv => CleanAuditWasGreen
  BY DEF IInv, AuditInv, CleanAuditWasGreen
<1> QED
  BY <1>1, GateInvariant, PTL

\* The audit finds no fault with the head that the gate has passed, merged as
\* it was passed.
THEOREM AuditAgrees == Spec => []GateAndAuditAgree
<1>1. IInv => GateAndAuditAgree
  <2> SUFFICES ASSUME IInv, gate.verdict = "pass", audit # "none", ~seen.touched,
                      pull.head = gate.head, pull.base = gate.base,
                      gate.now <= pull.merged, receipt.at <= gate.now
               PROVE  audit = "pass"
    BY DEF GateAndAuditAgree
  <2>1. audit = AuditVerdict
    BY DEF IInv, AuditInv
  <2>2. /\ gate.now # Never /\ AllTimed(gate.runs, gate.now)
        /\ SameOf(gate.head, runs, gate.runs)
        /\ gate.evidence => OnlyEvidence
    BY DEF IInv, ReadInv, OnlyEvidence
  <2>3. /\ ~CheckFindings(gate.head, gate.runs, gate.now)
        /\ \/ receipt = NoReceipt /\ gate.evidence
           \/ receipt # NoReceipt /\ receipt.head = {gate.head}
    BY DEF IInv, PassInv
  <2>4. /\ gate.runs \in Seq(Runs) /\ gate.now \in Nat /\ pull.merged \in Nat
        /\ receipt.at \in Nat
    BY Numbers DEF IInv, TypeOK
  <2>5. ~CheckFindings(pull.head, runs, pull.merged)
    <3>1. ~CheckFindings(gate.head, gate.runs, pull.merged)
      BY <2>2, <2>3, <2>4, LaterFindings
    <3> QED
      BY <2>2, <3>1, SameFindings
  <2>6. receipt # NoReceipt => ReceiptValid(receipt, pull.head, pull.merged)
    BY <2>3, <2>4, GateAssumption DEF ReceiptValid
  <2> QED
    BY <2>1, <2>2, <2>3, <2>5, <2>6 DEF AuditVerdict
<1> QED
  BY <1>1, GateInvariant, PTL

-----------------------------------------------------------------------------
(* The observer of the alert chain.                                        *)

\* Since the alert chain broke, either the observer has not looked, or what
\* it saw was young: the age of an unbroken silence, or that of a receipt of
\* an emitter that has not yet said that it cannot deliver.
SilenceInv ==
    /\ age \in Nat /\ outage \in Nat /\ waited \in 0..MaxGap /\ lead \in Leads
    /\ chain \in {"ok", "stopped", "degraded", "gone"}
    /\ status \in {"ok", "degraded"} /\ (chain = "ok" => status = "ok")
    /\ D!Emitting => age <= Period
    /\ chain \in {"stopped", "degraded"} /\ status = "ok" => outage <= age
    /\ ~alarmed => /\ chain = "gone" => outage <= waited
                   /\ chain = "degraded" => outage <= waited + Period
                   /\ chain = "stopped" =>
                         outage <= waited + MaxAge + (IF lead > 0 THEN lead ELSE 0)

\* Every step of the chain and of its observer keeps SilenceInv.
LEMMA SilenceStep ==
    ASSUME D!DelaysAssumption, SilenceInv, [D!Next]_(D!vars)
    PROVE  SilenceInv'
<1> USE DEF D!DelaysAssumption, SilenceInv, D!Emitting
<1>1. lead \in Int /\ waited \in Nat
  OBVIOUS
<1>2. CASE D!Tick
  BY <1>1, <1>2 DEF D!Tick, D!Older
<1>3. CASE D!Emit
  <2>1. /\ chain' = chain /\ chain \in {"ok", "degraded"}
        /\ age' = 0 /\ status' = chain /\ lead' \in Leads
        /\ waited' = waited /\ outage' = outage /\ alarmed' = alarmed
    BY <1>3 DEF D!Emit
  <2>2. age' \in Nat /\ (D!Emitting' => age' <= Period)
    BY <2>1
  <2>3. ~alarmed /\ chain = "degraded" => outage <= waited + Period
    OBVIOUS
  <2> QED
    BY <2>1, <2>2, <2>3
<1>4. CASE D!Break
  BY <1>1, <1>4 DEF D!Break
<1>5. CASE D!Repair
  BY <1>1, <1>5 DEF D!Repair
<1>6. CASE D!Observe
  <2>1. waited' = 0 /\ UNCHANGED <<chain, age, lead, status, outage>>
    BY <1>6 DEF D!Observe
  <2>2. ~alarmed' => D!Evaluate = "ok"
    BY <1>6 DEF D!Observe
  <2>3. D!Evaluate = "ok" => chain # "gone" /\ status = "ok" /\ age - lead <= MaxAge
    BY <1>1 DEF D!Evaluate
  <2> QED
    BY <1>1, <2>1, <2>2, <2>3
<1>7. CASE UNCHANGED D!vars
  BY <1>7 DEF D!vars
<1> QED
  BY <1>2, <1>3, <1>4, <1>5, <1>6, <1>7 DEF D!Next

\* An outage of the alert chain raises the alarm within the gap between two
\* observations, the age a receipt may have and the lead of its clock.
THEOREM AlarmInTime ==
    ASSUME D!DelaysAssumption
    PROVE  /\ D!Spec => []D!DetectedInTime
           /\ VerdictsSpec => []DetectedInTime
<1>1. D!Init => SilenceInv
  BY DEF D!DelaysAssumption, D!Init, SilenceInv, D!Emitting
<1>2. SilenceInv /\ [D!Next]_(D!vars) => SilenceInv'
  BY SilenceStep
<1>3. SilenceInv => D!DetectedInTime
  BY DEF D!DelaysAssumption, SilenceInv, D!DetectedInTime
<1>4. VerdictsInit => (subject = "chain" => SilenceInv)
  BY <1>1 DEF VerdictsInit
<1>5. (subject = "chain" => SilenceInv) /\ [VerdictsNext]_allVars => (subject = "chain" => SilenceInv)'
  BY <1>2, OneMoves
<1>6. (subject = "chain" => SilenceInv) => DetectedInTime
  BY <1>3 DEF DetectedInTime
<1> QED
  BY <1>1, <1>2, <1>3, <1>4, <1>5, <1>6, PTL DEF D!Spec, VerdictsSpec

-----------------------------------------------------------------------------
(* The attestations of an image.                                           *)

\* What has been read back is of the registry, and what has been verified is
\* in it: nothing is attested any more once the first format is read back.
SignInv ==
    /\ signing \in {"attest", "cyclonedx", "spdxjson", "signed", "rejected", "failed"}
    /\ document # {} =>
          signing \in Formats /\ document = {s \in registry : s.format = signing}
    /\ signing \in {"spdxjson", "signed"} => A!Attested("cyclonedx") = expected
    /\ signing = "signed" => A!Attested("spdxjson") = expected
    /\ signing = "rejected" => \E f \in Formats : A!Attested(f) # expected

\* verify() observes the architectures that are attested, each on its own.
LEMMA ObservedIsAttested ==
    ASSUME NEW f,
           document = {s \in registry : s.format = f}
    PROVE  A!Observed(f) = A!Attested(f)
<1>1. \A s \in document :
         /\ A!Architectures(s, f) \subseteq Allowed
         /\ A!Architectures(s, f) # {} => s.subject = Digest /\ ~s.malformed
         /\ s.subject = Digest /\ ~s.malformed
               => A!Architectures(s, f) = s.archs \cap Allowed
  BY DEF A!Architectures
<1>2. ASSUME NEW a, a \in A!Observed(f)
      PROVE  a \in A!Attested(f)
  <2>1. PICK s \in document : a \in Allowed /\ A!Architectures(s, f) = {a}
    BY <1>2 DEF A!Observed
  <2> QED
    BY <1>1, <2>1 DEF A!Attested
<1>3. ASSUME NEW a, a \in A!Attested(f)
      PROVE  a \in A!Observed(f)
  <2>1. PICK s \in document : /\ s.subject = Digest /\ ~s.malformed
                              /\ s.archs \cap Allowed = {a} /\ a \in Allowed
    BY <1>3 DEF A!Attested
  <2>2. A!Architectures(s, f) = {a}
    BY <1>1, <2>1
  <2>3. s \in {x \in document : \E b \in Allowed : A!Architectures(x, f) = {b}}
    BY <2>1, <2>2
  <2> QED
    BY <2>2, <2>3 DEF A!Observed
<1> QED
  BY <1>2, <1>3

\* Every step of signing keeps SignInv.
LEMMA AttestStep ==
    ASSUME A!FormatsAssumption, SignInv, [A!Next]_(A!vars)
    PROVE  SignInv'
<1>1. ASSUME NEW p \in A!Predicates(expected), A!Attest(p)
      PROVE  SignInv'
  <2>1. /\ signing' \in {"attest", "cyclonedx", "failed"}
        /\ signing = "attest" /\ document' = document
    BY <1>1 DEF A!Attest, A!AfterFailure
  <2>2. document = {}
    BY <2>1 DEF SignInv, A!FormatsAssumption
  <2> QED
    BY <2>1, <2>2 DEF SignInv
<1>2. ASSUME NEW f \in Formats, A!ReadBack(f)
      PROVE  SignInv'
  <2>1. /\ signing = f /\ UNCHANGED <<registry, expected>>
        /\ \/ signing' = f /\ document' = {s \in registry : s.format = f}
           \/ signing' \in {f, "failed"} /\ document' = {}
    BY <1>2 DEF A!ReadBack, A!AfterFailure
  <2>2. \A g : A!Attested(g)' = A!Attested(g)
    BY <2>1 DEF A!Attested
  <2> QED
    BY <2>1, <2>2 DEF SignInv, A!FormatsAssumption
<1>3. ASSUME NEW f \in Formats, A!Verify(f)
      PROVE  SignInv'
  <2>1. /\ signing = f /\ document # {} /\ document' = {}
        /\ UNCHANGED <<registry, expected>>
        /\ signing' = IF A!Observed(f) # expected THEN "rejected"
                      ELSE IF f = "cyclonedx" THEN "spdxjson" ELSE "signed"
    BY <1>3 DEF A!Verify
  <2>2. \A g : A!Attested(g)' = A!Attested(g)
    BY <2>1 DEF A!Attested
  <2>3. A!Observed(f) = A!Attested(f)
    BY <2>1, ObservedIsAttested DEF SignInv
  <2> QED
    BY <2>1, <2>2, <2>3 DEF SignInv, A!FormatsAssumption
<1>4. CASE UNCHANGED A!vars
  BY <1>4 DEF A!vars, SignInv, A!Attested
<1> QED
  BY <1>1, <1>2, <1>3, <1>4 DEF A!Next

\* An image is called signed exactly for the architectures attested in the
\* registry in both formats, and refused for no other reason.
THEOREM SignedIsAttested ==
    ASSUME A!FormatsAssumption
    PROVE  /\ A!Spec => []A!SignedMeansEveryPlatform
           /\ VerdictsSpec => []SignedMeansEveryPlatform
<1>1. A!Init => SignInv
  BY DEF A!Init, SignInv
<1>2. SignInv /\ [A!Next]_(A!vars) => SignInv'
  BY AttestStep
<1>3. SignInv => A!SignedMeansEveryPlatform
  BY DEF A!FormatsAssumption, SignInv, A!SignedMeansEveryPlatform
<1>4. VerdictsInit => (subject = "sign" => SignInv)
  BY <1>1 DEF VerdictsInit
<1>5. (subject = "sign" => SignInv) /\ [VerdictsNext]_allVars => (subject = "sign" => SignInv)'
  BY <1>2, OneMoves
<1>6. (subject = "sign" => SignInv) => SignedMeansEveryPlatform
  BY <1>3 DEF SignedMeansEveryPlatform
<1> QED
  BY <1>1, <1>2, <1>3, <1>4, <1>5, <1>6, PTL DEF A!Spec, VerdictsSpec

-----------------------------------------------------------------------------
(* The PostgreSQL suites of YueBoard.                                      *)

\* Every test of some packages has passed on a checkout with these packages.
AllRan(packages, found) ==
    \A t \in P!TestsIn(packages) :
        \E s \in Sources : s.found = found /\ <<s, t>> \in passed

\* The receipt names only what ran on its manifest, and the checkout is the
\* one of the manifest from the commands on.
SuitesInv ==
    /\ source \in Sources
    /\ step \in {"domain", "commands", "modules", "migrations", "check", "done", "failed"}
    /\ step = "domain" => marker = None
    /\ step \in {"commands", "modules", "migrations", "check"} \/ (step = "done" /\ role = "migration")
          => /\ marker = [manifest |-> marker.manifest, ran |-> marker.ran]
             /\ AllRan(marker.ran, marker.manifest)
    /\ step \in {"modules", "migrations", "check"} \/ (step = "done" /\ role = "migration")
          => marker.manifest = source.found /\ P!Required(source) \subseteq source.found
    /\ step = "done" /\ role = "migration" => marker.ran = marker.manifest

\* A test that passed stays passed, and one more group is one more.
LEMMA RanMore ==
    ASSUME NEW ran, NEW found, AllRan(ran, found), NEW packages,
           passed \subseteq passed',
           \A t \in P!TestsIn(packages) :
              \E s \in Sources : s.found = found /\ <<s, t>> \in passed'
    PROVE  \A t \in P!TestsIn(ran \cup packages) :
              \E s \in Sources : s.found = found /\ <<s, t>> \in passed'
<1> SUFFICES ASSUME NEW t \in P!TestsIn(ran \cup packages)
             PROVE  \E s \in Sources : s.found = found /\ <<s, t>> \in passed'
  OBVIOUS
<1>1. t \in P!TestsIn(ran) \/ t \in P!TestsIn(packages)
  BY DEF P!TestsIn
<1> QED
  BY <1>1 DEF AllRan

\* The groups of the plan, one after another.
LEMMA GroupStep ==
    ASSUME SuitesInv, NEW here \in {"modules", "migrations"},
           NEW next \in {"migrations", "check"}, NEW packages,
           P!RunGroup(here, packages, next)
    PROVE  SuitesInv'
<1>1. PICK outcome \in [P!TestsIn(packages \cap marker.manifest) -> P!Outcomes] :
         /\ passed' = passed \cup {<<source, t>> : t \in P!Passed(outcome)}
         /\ IF P!GroupGood(outcome)
            THEN /\ marker' = [marker EXCEPT !.ran = @ \cup (packages \cap marker.manifest)]
                 /\ step' = next
            ELSE P!Fail
  BY DEF P!RunGroup
<1>2. step = here /\ UNCHANGED <<source, role>>
  BY DEF P!RunGroup
<1>3. CASE ~P!GroupGood(outcome)
  BY <1>1, <1>2, <1>3 DEF P!Fail, SuitesInv
<1>4. CASE P!GroupGood(outcome)
  <2>1. \A t \in P!TestsIn(packages \cap marker.manifest) : <<source, t>> \in passed'
    BY <1>1, <1>4 DEF P!GroupGood
  <2>2. AllRan(marker.ran, marker.manifest) /\ marker.manifest = source.found
        /\ P!Required(source) \subseteq source.found /\ source \in Sources
        /\ marker = [manifest |-> marker.manifest, ran |-> marker.ran]
    BY <1>2 DEF SuitesInv
  <2>3. \A t \in P!TestsIn(marker.ran \cup (packages \cap marker.manifest)) :
           \E s \in Sources : s.found = marker.manifest /\ <<s, t>> \in passed'
    <3>1. passed \subseteq passed'
      BY <1>1
    <3> QED
      BY <2>1, <2>2, <3>1, RanMore
  <2>4. marker' = [manifest |-> marker.manifest,
                   ran |-> marker.ran \cup (packages \cap marker.manifest)]
    BY <1>1, <1>4, <2>2
  <2>5. AllRan(marker.ran, marker.manifest)'
    BY <2>3, <2>4 DEF AllRan
  <2>6. step' \in {"migrations", "check"}
    BY <1>1, <1>4
  <2> QED
    BY <1>2, <2>2, <2>4, <2>5, <2>6 DEF SuitesInv
<1> QED
  BY <1>3, <1>4

\* The first phase writes a receipt of the domain suites, which have run.
LEMMA DomainStep ==
    ASSUME SuitesInv, P!RunDomain
    PROVE  SuitesInv'
<1>1. PICK outcome \in [P!TestsIn(Domain \cap source.found) -> P!Outcomes] :
         /\ passed' = passed \cup {<<source, t>> : t \in P!Passed(outcome)}
         /\ IF P!Discovered(source) /\ marker = None /\ P!GroupGood(outcome)
            THEN /\ marker' = [manifest |-> source.found, ran |-> Domain \cap source.found]
                 /\ step' = IF role = "postgres" THEN "done" ELSE "commands"
            ELSE P!Fail
  BY DEF P!RunDomain
<1>2. UNCHANGED <<source, role>> /\ source \in Sources
  BY DEF P!RunDomain, SuitesInv
<1>3. CASE ~(P!Discovered(source) /\ marker = None /\ P!GroupGood(outcome))
  BY <1>1, <1>2, <1>3 DEF P!Fail, SuitesInv
<1>4. CASE P!Discovered(source) /\ marker = None /\ P!GroupGood(outcome)
  <2>1. \A t \in P!TestsIn(Domain \cap source.found) : <<source, t>> \in passed'
    BY <1>1, <1>4 DEF P!GroupGood
  <2>2. AllRan(marker.ran, marker.manifest)'
    <3>1. marker'.ran = Domain \cap source.found /\ marker'.manifest = source.found
      BY <1>1, <1>4
    <3> QED
      BY <1>2, <2>1, <3>1 DEF AllRan
  <2>3. step' = "commands" \/ (step' = "done" /\ role = "postgres")
    BY <1>1, <1>4
  <2> QED
    BY <1>1, <1>2, <1>4, <2>2, <2>3 DEF SuitesInv
<1> QED
  BY <1>3, <1>4

\* The second phase begins on the checkout of the receipt, with the commands.
LEMMA CommandsStep ==
    ASSUME SuitesInv, P!RunCommands
    PROVE  SuitesInv'
<1> DEFINE here == Commands \cap source.found
           good == /\ P!Discovered(source)
                   /\ marker.manifest = source.found /\ marker.ran = Domain
<1>1. PICK native \in [P!TestsIn(here) -> P!Outcomes],
           ordinary \in [P!TestsIn(here) \cap Ordinary -> P!Outcomes] :
         /\ passed' = passed \cup {<<source, t>> : t \in P!Passed(native) \cup P!Passed(ordinary)}
         /\ IF good /\ P!CommandsGood(source, native, ordinary)
            THEN marker' = [marker EXCEPT !.ran = @ \cup here] /\ step' = "modules"
            ELSE P!Fail
  BY DEF P!RunCommands
<1>2. UNCHANGED <<source, role>> /\ source \in Sources
      /\ marker = [manifest |-> marker.manifest, ran |-> marker.ran]
      /\ AllRan(marker.ran, marker.manifest)
  BY DEF P!RunCommands, SuitesInv
<1>3. CASE ~(good /\ P!CommandsGood(source, native, ordinary))
  BY <1>1, <1>2, <1>3 DEF P!Fail, SuitesInv
<1>4. CASE good /\ P!CommandsGood(source, native, ordinary)
  <2>1. \A t \in P!TestsIn(here) : <<source, t>> \in passed'
    <3> SUFFICES ASSUME NEW t \in P!TestsIn(here)
                 PROVE  t \in P!Passed(native) \cup P!Passed(ordinary)
      BY <1>1
    <3>1. here # {}
      BY DEF P!TestsIn
    <3>2. CASE t \in Ordinary
      <4>1. t \in DOMAIN ordinary
        BY <1>1, <3>2
      <4> QED
        BY <1>4, <3>1, <4>1 DEF P!CommandsGood, P!GroupGood
    <3>3. CASE t \notin Ordinary
      BY <1>4, <3>1, <3>3 DEF P!CommandsGood, P!NativeTests
    <3> QED
      BY <3>2, <3>3
  <2>2. \A t \in P!TestsIn(marker.ran \cup here) :
           \E s \in Sources : s.found = marker.manifest /\ <<s, t>> \in passed'
    <3>1. passed \subseteq passed'
      BY <1>1
    <3> HIDE DEF here
    <3> QED
      BY <1>2, <1>4, <2>1, <3>1, RanMore
  <2>3. marker' = [manifest |-> marker.manifest, ran |-> marker.ran \cup here]
    BY <1>1, <1>2, <1>4
  <2>4. AllRan(marker.ran, marker.manifest)'
    BY <2>2, <2>3 DEF AllRan
  <2>5. step' = "modules" /\ marker'.manifest = source.found
        /\ P!Required(source) \subseteq source.found
    BY <1>1, <1>4, <2>3 DEF P!Discovered
  <2> QED
    BY <1>2, <2>3, <2>4, <2>5 DEF SuitesInv
<1> QED
  BY <1>3, <1>4

\* Every step of the job keeps SuitesInv.
LEMMA SuitesStep ==
    ASSUME SuitesInv, [P!Next]_(P!vars)
    PROVE  SuitesInv'
<1>1. CASE P!RunDomain
  BY <1>1, DomainStep
<1>2. CASE P!RunCommands
  BY <1>2, CommandsStep
<1>3. CASE P!RunModules \/ P!RunMigrations
  BY <1>3, GroupStep DEF P!RunModules, P!RunMigrations
<1>4. CASE P!Complete
  BY <1>4 DEF P!Complete, SuitesInv, AllRan
<1>5. CASE P!Disturb
  BY <1>5 DEF P!Disturb, SuitesInv, AllRan
<1>6. CASE UNCHANGED P!vars
  BY <1>6 DEF P!vars, SuitesInv, AllRan
<1> QED
  BY <1>1, <1>2, <1>3, <1>4, <1>5, <1>6 DEF P!Next

\* A migration job that is done has run every integration test of its
\* checkout, though its suites may have disturbed the checkout in between.
THEOREM DoneMeansAllRan ==
    /\ P!Spec => []P!BoardCompleteMeansAllRan
    /\ VerdictsSpec => []BoardCompleteMeansAllRan
<1>1. P!Init => SuitesInv
  BY DEF P!Init, SuitesInv
<1>2. SuitesInv /\ [P!Next]_(P!vars) => SuitesInv'
  BY SuitesStep
<1>3. SuitesInv => P!BoardCompleteMeansAllRan
  BY DEF SuitesInv, AllRan, P!BoardCompleteMeansAllRan
<1>4. VerdictsInit => (subject = "board" => SuitesInv)
  BY <1>1 DEF VerdictsInit
<1>5. (subject = "board" => SuitesInv) /\ [VerdictsNext]_allVars => (subject = "board" => SuitesInv)'
  BY <1>2, OneMoves
<1>6. (subject = "board" => SuitesInv) => BoardCompleteMeansAllRan
  BY <1>3 DEF BoardCompleteMeansAllRan
<1> QED
  BY <1>1, <1>2, <1>3, <1>4, <1>5, <1>6, PTL DEF P!Spec, VerdictsSpec

-----------------------------------------------------------------------------
(* The reuse of evidence.                                                  *)

\* The jobs that a record of run r shows as successful have succeeded, on the
\* image and the runner that it shows.
Truthful(r, record) ==
    \A j \in E!AllJobs : record.jobs[j].conclusion = "success" =>
        [run |-> r, job |-> j, image |-> record.jobs[j].image,
         hosted |-> record.jobs[j].hosted] \in everPassed

\* What was read of a run was true, and of the inputs it still has.
ProbeInv ==
    /\ dispatches \in [Dispatches -> E!RunRecords \cup {NoRun}]
    /\ hour \in Nat /\ image \in Nat
    /\ \A r \in Dispatches : dispatches[r] # NoRun => dispatches[r].created <= hour
    /\ \A r \in Dispatches : dispatches[r] # NoRun => Truthful(r, dispatches[r])
    /\ listed # NoRun =>
          \A r \in listed : r \in Dispatches /\ dispatches[r] # NoRun
    /\ \A r \in DOMAIN read :
          /\ r \in Dispatches /\ dispatches[r] # NoRun /\ read[r] \in E!RunRecords
          /\ read[r].inputs = dispatches[r].inputs /\ Truthful(r, read[r])
          /\ read[r].created <= hour
    /\ evidence # NoRun => listed # NoRun
    /\ evidence # NoRun /\ evidence.run # NoRun =>
          evidence.run \in Dispatches /\ dispatches[evidence.run] # NoRun
    /\ E!EvidenceWasEarned

\* What has succeeded stays so.
LEMMA TruthStays ==
    ASSUME NEW r, NEW record, Truthful(r, record), everPassed \subseteq everPassed'
    PROVE  \A j \in E!AllJobs : record.jobs[j].conclusion = "success" =>
              [run |-> r, job |-> j, image |-> record.jobs[j].image,
               hosted |-> record.jobs[j].hosted] \in everPassed'
  BY DEF Truthful

\* A step that keeps the inputs of every run, what the probe has read and what
\* has succeeded, keeps ProbeInv if it keeps the runs truthful.
LEMMA RunsChange ==
    ASSUME ProbeInv, UNCHANGED <<own, listed, read, evidence>>,
           hour' \in Nat, hour <= hour', image' \in Nat, everPassed \subseteq everPassed',
           dispatches' \in [Dispatches -> E!RunRecords \cup {NoRun}],
           \A r \in Dispatches : dispatches[r] # NoRun =>
              dispatches'[r] # NoRun /\ dispatches'[r].inputs = dispatches[r].inputs,
           \A r \in Dispatches : dispatches'[r] # NoRun =>
              Truthful(r, dispatches[r])' /\ dispatches'[r].created <= hour'
    PROVE  ProbeInv'
<1>1. \A r \in DOMAIN read :
         /\ r \in Dispatches /\ dispatches'[r] # NoRun /\ read'[r] \in E!RunRecords
         /\ read'[r].inputs = dispatches'[r].inputs /\ Truthful(r, read[r])'
         /\ read'[r].created <= hour'
  <2> TAKE r \in DOMAIN read
  <2>1. r \in Dispatches /\ read[r].inputs = dispatches[r].inputs
        /\ dispatches[r] # NoRun /\ Truthful(r, read[r])
        /\ read[r].created <= hour /\ read[r].created \in Nat /\ hour \in Nat
        /\ read[r] \in E!RunRecords
    BY DEF ProbeInv, E!RunRecords
  <2>2. Truthful(r, read[r])'
    BY <2>1, TruthStays DEF Truthful
  <2> QED
    BY <2>1, <2>2
<1>2. E!EvidenceWasEarned'
  BY DEF ProbeInv, E!EvidenceWasEarned
<1> QED
  BY <1>1, <1>2 DEF ProbeInv

\* Runs are dispatched, conclude and are re-run.
LEMMA RunSteps ==
    ASSUME E!NoRunAssumption, ProbeInv,
           \/ \E r \in Dispatches : E!Dispatch(r) \/ E!Rerun(r)
           \/ \E r \in Dispatches, j \in E!AllJobs : E!Conclude(r, j)
    PROVE  ProbeInv'
<1> USE DEF E!RunRecords, E!JobResults
<1>1. ASSUME NEW r \in Dispatches, E!Dispatch(r)
      PROVE  ProbeInv'
  <2>1. PICK i \in Inputs :
           dispatches' = [dispatches EXCEPT ![r] =
               [inputs |-> i, created |-> hour, jobs |-> [j \in E!AllJobs |-> E!Queued]]]
    BY <1>1 DEF E!Dispatch
  <2>2. dispatches[r] = NoRun
        /\ UNCHANGED <<hour, image, everPassed, own, listed, read, evidence>>
    BY <1>1 DEF E!Dispatch
  <2>3. [inputs |-> i, created |-> hour, jobs |-> [j \in E!AllJobs |-> E!Queued]]
           \in E!RunRecords
    BY DEF E!Queued, ProbeInv
  <2>4. \A s \in Dispatches : dispatches'[s] # NoRun => 
              Truthful(s, dispatches[s])' /\ dispatches'[s].created <= hour'
    <3>1. Truthful(r, dispatches[r])' /\ dispatches'[r].created <= hour'
      BY <2>1, <2>2 DEF Truthful, ProbeInv, E!Queued
    <3>2. ASSUME NEW s \in Dispatches, s # r, dispatches'[s] # NoRun
          PROVE  Truthful(s, dispatches[s])' /\ dispatches'[s].created <= hour'
      BY <2>1, <2>2, <3>2 DEF Truthful, ProbeInv
    <3> QED
      BY <3>1, <3>2
  <2> HIDE DEF E!RunRecords, E!JobResults
  <2> QED
    BY <2>1, <2>2, <2>3, <2>4, RunsChange DEF ProbeInv
<1>2. ASSUME NEW r \in Dispatches, E!Rerun(r)
      PROVE  ProbeInv'
  <2> DEFINE again == [j \in E!AllJobs |->
                          IF dispatches[r].jobs[j].conclusion = "failure" THEN E!Queued
                          ELSE dispatches[r].jobs[j]]
  <2>1. dispatches[r] # NoRun /\ dispatches[r] \in E!RunRecords
        /\ UNCHANGED <<hour, image, everPassed, own, listed, read, evidence>>
    BY <1>2 DEF E!Rerun, ProbeInv
  <2>2. dispatches' = [dispatches EXCEPT ![r] = [@ EXCEPT !.jobs = again]]
    BY <1>2 DEF E!Rerun
  <2>3. [dispatches[r] EXCEPT !.jobs = again] \in E!RunRecords
    BY <2>1 DEF E!Queued
  <2>4. \A s \in Dispatches : dispatches'[s] # NoRun => 
              Truthful(s, dispatches[s])' /\ dispatches'[s].created <= hour'
    BY <2>1, <2>2 DEF Truthful, ProbeInv, E!Queued
  <2> HIDE DEF E!RunRecords, E!JobResults
  <2> DEFINE record == [dispatches[r] EXCEPT !.jobs = again]
  <2>5. record.inputs = dispatches[r].inputs /\ record # NoRun
    BY <2>1, <2>3 DEF E!RunRecords, E!NoRunAssumption
  <2>6. dispatches' = [dispatches EXCEPT ![r] = record] /\ record \in E!RunRecords
    BY <2>2, <2>3
  <2> HIDE DEF again, record
  <2> QED
    BY <2>1, <2>4, <2>5, <2>6, RunsChange DEF ProbeInv
<1>3. ASSUME NEW r \in Dispatches, NEW j \in E!AllJobs, E!Conclude(r, j)
      PROVE  ProbeInv'
  <2>1. dispatches[r] # NoRun /\ dispatches[r] \in E!RunRecords
        /\ UNCHANGED <<hour, image, own, listed, read, evidence>>
    BY <1>3 DEF E!Conclude, ProbeInv
  <2>2. PICK c \in {"success", "failure"}, hosted \in BOOLEAN :
           /\ dispatches' = [dispatches EXCEPT ![r].jobs[j] =
                  [conclusion |-> c, image |-> image, hosted |-> hosted]]
           /\ everPassed' = IF c = "success"
                            THEN everPassed \cup {[run |-> r, job |-> j, image |-> image,
                                                   hosted |-> hosted]}
                            ELSE everPassed
    BY <1>3 DEF E!Conclude
  <2> DEFINE ended == [conclusion |-> c, image |-> image, hosted |-> hosted]
             after == [dispatches[r] EXCEPT !.jobs = [@ EXCEPT ![j] = ended]]
  <2>3. after \in E!RunRecords
    BY <2>1 DEF ProbeInv
  <2>4. dispatches' = [dispatches EXCEPT ![r] = after]
    BY <2>2
  <2>5. \A s \in Dispatches : dispatches'[s] # NoRun => 
              Truthful(s, dispatches[s])' /\ dispatches'[s].created <= hour'
    BY <2>1, <2>2, <2>4 DEF Truthful, ProbeInv
  <2> HIDE DEF E!RunRecords, E!JobResults
  <2>6. after.inputs = dispatches[r].inputs /\ after # NoRun
    BY <2>1, <2>3 DEF E!RunRecords, E!NoRunAssumption
  <2>7. everPassed \subseteq everPassed'
    BY <2>2
  <2> HIDE DEF ended, after
  <2> QED
    BY <2>1, <2>3, <2>4, <2>5, <2>6, <2>7, RunsChange DEF ProbeInv
<1> QED
  BY <1>1, <1>2, <1>3

\* A set of numbers that is not empty has a least one.
LEMMA LeastNumber ==
    ASSUME NEW T, T \subseteq Nat, T # {}
    PROVE  \E x \in T : \A y \in T : x <= y
<1>1. PICK x \in T : \A y \in T : ~ (<<y, x>> \in OpToRel(<, Nat))
  BY NatLessThanWellFounded, WFMin, Zenon
<1>2. \A y \in T : ~ (y < x)
  BY <1>1 DEF OpToRel
<1> QED
  BY <1>2

\* Of runs none of which was created in the future, one is the newest.
LEMMA NewestExists ==
    ASSUME NEW good, good # {}, NEW record, NEW now \in Nat,
           \A r \in good : record[r].created \in Nat /\ record[r].created <= now
    PROVE  \E r \in good : \A q \in good : record[q].created <= record[r].created
<1> DEFINE ages == {now - record[r].created : r \in good}
<1>1. ages \subseteq Nat /\ ages # {}
  OBVIOUS
<1>2. PICK x \in ages : \A y \in ages : x <= y
  BY <1>1, LeastNumber
<1>3. PICK r \in good : x = now - record[r].created
  OBVIOUS
<1>4. ASSUME NEW q \in good
      PROVE  record[q].created <= record[r].created
  <2>1. now - record[r].created <= now - record[q].created
    BY <1>2, <1>3
  <2> QED
    BY <2>1
<1> QED
  BY <1>4

\* The probe accepts a run only if all that it read of it is so.
LEMMA AcceptStep ==
    ASSUME E!NoRunAssumption, ProbeInv, E!Assess
    PROVE  ProbeInv'
<1> DEFINE good == {r \in listed : E!Reusable(read[r])}
           best == CHOOSE r \in good : \A q \in good : read[q].created <= read[r].created
<1>1. listed # NoRun /\ DOMAIN read = listed
      /\ UNCHANGED <<dispatches, hour, image, everPassed, own, listed, read>>
      /\ evidence' = [run |-> IF good = {} THEN NoRun ELSE best, at |-> hour]
  BY DEF E!Assess
<1>2. CASE good = {}
  <2>1. evidence'.run = NoRun
    BY <1>1, <1>2
  <2> QED
    BY <1>1, <2>1 DEF ProbeInv, E!EvidenceWasEarned, Truthful
<1>3. CASE good # {}
  <2>1. best \in good
    <3>1. \A r \in good : read[r].created \in Nat /\ read[r].created <= hour
      BY <1>1 DEF ProbeInv, E!RunRecords
    <3>2. hour \in Nat
      BY DEF ProbeInv
    <3> HIDE DEF good
    <3>3. \E r \in good : \A q \in good : read[q].created <= read[r].created
      BY <1>3, <3>1, <3>2, NewestExists
    <3> QED
      BY <3>3
  <2> HIDE DEF best
  <2>2. best \in Dispatches /\ dispatches[best] # NoRun /\ read[best] \in E!RunRecords
        /\ read[best].inputs = dispatches[best].inputs /\ Truthful(best, read[best])
        /\ E!Reusable(read[best])
    BY <1>1, <2>1 DEF ProbeInv
  <2>3. \A f \in E!Identities : read[best].inputs[f] = Current[f]
    BY <2>2 DEF E!Reusable
  <2>4. \A j \in Jobs : [run |-> best, job |-> j, image |-> own, hosted |-> TRUE] \in everPassed
    <3> TAKE j \in Jobs
    <3>1. j \in E!AllJobs /\ read[best].jobs \in [E!AllJobs -> E!JobResults]
      BY <2>2 DEF E!AllJobs, E!RunRecords
    <3>2. read[best].jobs[j].hosted = TRUE
      BY <2>2, <3>1 DEF E!Reusable, E!JobResults
    <3> QED
      BY <2>2, <3>1, <3>2 DEF E!Reusable, Truthful
  <2>5. evidence'.run = best
    BY <1>1, <1>3
  <2> HIDE DEF good
  <2>6. E!EvidenceWasEarned'
    BY <1>1, <2>2, <2>3, <2>4, <2>5 DEF E!EvidenceWasEarned
  <2> QED
    BY <1>1, <2>2, <2>5, <2>6 DEF ProbeInv, Truthful
<1> QED
  BY <1>2, <1>3

\* Every step of the probe and of the runs it looks at keeps ProbeInv.
LEMMA ProbeStep ==
    ASSUME E!NoRunAssumption, ProbeInv, [E!Next]_(E!vars)
    PROVE  ProbeInv'
<1>1. ASSUME NEW r \in Dispatches, E!Read(r)
      PROVE  ProbeInv'
  <2>1. listed # NoRun /\ r \in listed
        /\ UNCHANGED <<dispatches, hour, image, everPassed, own, listed, evidence>>
        /\ read' = [x \in DOMAIN read \cup {r} |-> IF x = r THEN dispatches[r] ELSE read[x]]
    BY <1>1 DEF E!Read
  <2>2. dispatches[r] # NoRun /\ dispatches[r] \in E!RunRecords
        /\ Truthful(r, dispatches[r]) /\ dispatches[r].created <= hour
    BY <2>1 DEF ProbeInv
  <2>3. ASSUME NEW q \in DOMAIN read'
        PROVE  /\ q \in Dispatches /\ dispatches'[q] # NoRun /\ read'[q] \in E!RunRecords
               /\ read'[q].inputs = dispatches'[q].inputs /\ Truthful(q, read[q])'
               /\ read'[q].created <= hour'
    <3>1. CASE q = r
      BY <2>1, <2>2, <3>1 DEF Truthful
    <3>2. CASE q # r
      BY <2>1, <3>2 DEF ProbeInv, Truthful
    <3> QED
      BY <3>1, <3>2
  <2> QED
    BY <2>1, <2>3 DEF ProbeInv, E!EvidenceWasEarned, Truthful
<1>2. CASE E!List
  <2>1. listed = NoRun /\ evidence = NoRun
    BY <1>2 DEF E!List, ProbeInv
  <2>2. \A r \in listed' : r \in Dispatches /\ dispatches[r] # NoRun
    BY <1>2 DEF E!List
  <2>3. UNCHANGED <<dispatches, hour, image, everPassed, read, evidence>>
    BY <1>2 DEF E!List
  <2> QED
    BY <2>1, <2>2, <2>3 DEF ProbeInv, E!EvidenceWasEarned, Truthful
<1>3. CASE E!Tick \/ E!RollOut \/ UNCHANGED E!vars
  <2>1. UNCHANGED <<dispatches, everPassed, own, listed, read, evidence>>
        /\ hour' \in Nat /\ hour <= hour' /\ image' \in Nat
    BY <1>3 DEF E!Tick, E!RollOut, E!vars, ProbeInv
  <2>2. \A r \in Dispatches : dispatches'[r] # NoRun =>
           Truthful(r, dispatches[r])' /\ dispatches'[r].created <= hour'
    BY <2>1 DEF ProbeInv, Truthful, E!RunRecords
  <2> QED
    BY <2>1, <2>2, RunsChange DEF ProbeInv
<1> QED
  BY <1>1, <1>2, <1>3, RunSteps, AcceptStep DEF E!Next

\* An earlier run is called reusable only if it has this run's identities and
\* every job of this plan passed in it on a hosted runner of this image.
THEOREM ReusedIsEarned ==
    ASSUME E!NoRunAssumption
    PROVE  /\ E!Spec => []E!EvidenceWasEarned
           /\ VerdictsSpec => []EvidenceWasEarned
<1>1. E!Init => ProbeInv
  BY DEF E!Init, ProbeInv, E!EvidenceWasEarned
<1>2. ProbeInv /\ [E!Next]_(E!vars) => ProbeInv'
  BY ProbeStep
<1>3. ProbeInv => E!EvidenceWasEarned
  BY DEF ProbeInv
<1>4. VerdictsInit => (subject = "evidence" => ProbeInv)
  BY <1>1 DEF VerdictsInit
<1>5. (subject = "evidence" => ProbeInv) /\ [VerdictsNext]_allVars => (subject = "evidence" => ProbeInv)'
  BY <1>2, OneMoves
<1>6. (subject = "evidence" => ProbeInv) => EvidenceWasEarned
  BY <1>3 DEF EvidenceWasEarned
<1> QED
  BY <1>1, <1>2, <1>3, <1>4, <1>5, <1>6, PTL DEF E!Spec, VerdictsSpec
==============================================================================
