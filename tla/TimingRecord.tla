----------------------------- MODULE TimingRecord -----------------------------
(***************************************************************************)
(* The passive recorder of a legacy YueOps pytest run                      *)
(* (scripts/lens_report.py) and the summary of what it wrote               *)
(* (scripts/pytest-timing.py).  The recorder appends to a file inside the  *)
(* process under test: a write may be lost or torn, the process may die, a *)
(* test may run a pytest of its own in the process, and the entry script   *)
(* may start another session.  `ran` is history: the phases that happened. *)
(***************************************************************************)
EXTENDS Naturals, Sequences, FiniteSets

CONSTANTS
    Cases,           \* the test cases, a sequence in collection order
    Nested,          \* a case of a pytest that a test runs itself
    Prepared, Other, \* invocation ids: of the metadata, of anything else
    MaxSessions,     \* bound: pytest processes started by the entry script
    MaxLost          \* bound: writes that fail

\* pytest gives every case a name of its own.
CasesAssumption ==
    /\ Cases \in Seq({Cases[i] : i \in DOMAIN Cases})
    /\ \A i, j \in DOMAIN Cases : Cases[i] = Cases[j] => i = j

VARIABLES proc, todo, phase, nested, lost, stream, torn, ran, receipt, sessions

vars == <<proc, todo, phase, nested, lost, stream, torn, ran, receipt, sessions>>

Event(kind, data) == [event |-> kind, data |-> data]
PhaseOf(case, when, outcome) == <<case, when, outcome>>

Init ==
    /\ proc = "none" /\ todo = <<>> /\ phase = "setup" /\ nested = 0
    /\ lost = 0 /\ stream = <<>> /\ torn = FALSE /\ ran = <<>>
    /\ receipt = "none" /\ sessions = 0

\* _write(): appended lines, one of which may fail; the failure is counted, and
\* may leave a part of the line behind.
Write(events, failed) ==
    \/ stream' = stream \o events /\ lost' = failed /\ UNCHANGED torn
    \/ /\ failed < MaxLost /\ lost' = failed + 1 /\ torn' \in {torn, TRUE}
       /\ \E i \in DOMAIN events :
             stream' = stream \o SubSeq(events, 1, i - 1) \o SubSeq(events, i + 1, Len(events))

\* Nothing is written while a nested session is counted.
Record(events) ==
    IF nested > 0 THEN UNCHANGED <<stream, lost, torn>> ELSE Write(events, lost)

\* pytest_configure(): the first one of a process starts a session.
Start ==
    /\ proc \in {"none", "over"} /\ sessions < MaxSessions /\ receipt = "none"
    /\ proc' = "started" /\ sessions' = sessions + 1
    /\ nested' = 0 /\ phase' = "setup"
    /\ \E id \in {Prepared, Other} :
          Write(<<Event("start", 0), Event("identity", id)>>, 0)
    /\ UNCHANGED <<todo, ran, receipt>>

\* pytest_collection(), pytest_collection_finish(): the selected cases.
Collect ==
    /\ proc = "started" /\ proc' = "running"
    /\ \/ /\ todo' = Cases
          /\ Record(<<Event("corpus", Cases), Event("collection", "finished")>>)
       \/ todo' = <<>> /\ Record(<<Event("collection", "failed")>>)
    /\ UNCHANGED <<phase, nested, ran, receipt, sessions>>

\* pytest_runtest_logreport(): one report per phase; no call after a setup
\* that did not pass, the other outcomes decide nothing here.
RunPhase ==
    /\ proc = "running" /\ todo # <<>>
    /\ \E outcome \in {"passed", "failed"} :
          /\ outcome = "failed" => phase = "setup"
          /\ LET this == PhaseOf(Head(todo), phase, outcome) IN
             ran' = Append(ran, this) /\ Record(<<Event("phase", this)>>)
          /\ phase' = IF phase = "setup" /\ outcome = "passed" THEN "call"
                      ELSE IF phase = "teardown" THEN "setup" ELSE "teardown"
    /\ todo' = IF phase = "teardown" THEN Tail(todo) ELSE todo
    /\ UNCHANGED <<proc, nested, receipt, sessions>>

\* A test runs pytest in its own process: configure, reports, unconfigure,
\* the last of which a crash inside the test can leave out.
NestedConfigure ==
    /\ proc = "running" /\ phase = "call" /\ nested = 0 /\ nested' = 1
    /\ UNCHANGED <<proc, todo, phase, lost, stream, torn, ran, receipt, sessions>>

NestedReport ==
    /\ proc = "running" /\ nested = 1
    /\ Record(<<Event("phase", PhaseOf(Nested, "setup", "passed"))>>)
    /\ UNCHANGED <<proc, todo, phase, nested, ran, receipt, sessions>>

NestedUnconfigure ==
    /\ proc = "running" /\ nested = 1 /\ nested' = 0
    /\ UNCHANGED <<proc, todo, phase, lost, stream, torn, ran, receipt, sessions>>

\* pytest_sessionfinish(): the count of lost writes, then the exit status.
Finish ==
    /\ proc = "running" /\ todo = <<>>
    /\ proc' = "over"
    /\ Record(<<Event("timing", lost), Event("finish", 0)>>)
    /\ UNCHANGED <<todo, phase, nested, ran, receipt, sessions>>

\* The process dies, perhaps in the middle of a line.
Die ==
    /\ proc \in {"started", "running"} /\ proc' = "over"
    /\ torn' \in {torn, TRUE}
    /\ UNCHANGED <<todo, phase, nested, lost, stream, ran, receipt, sessions>>

\* The shell writes the exit code after the last process; a cancelled job not.
ExitReceipt ==
    /\ proc = "over" /\ receipt = "none"
    /\ receipt' \in {"zero", "other"}
    /\ UNCHANGED <<proc, todo, phase, nested, lost, stream, torn, ran, sessions>>

Next ==
    \/ Start \/ Collect \/ RunPhase \/ Finish \/ Die \/ ExitReceipt
    \/ NestedConfigure \/ NestedReport \/ NestedUnconfigure

Spec == Init /\ [][Next]_vars

-----------------------------------------------------------------------------
\* inspect(): every reason for which the evidence is only partial.
\* The entries of s at these places, in their order.
Picked(s, places) ==
    LET f[n \in 0..Len(s)] == IF n = 0 THEN <<>>
                              ELSE IF n \in places THEN Append(f[n - 1], s[n])
                              ELSE f[n - 1]
    IN f[Len(s)]

Of(kind) == Picked(stream, {i \in DOMAIN stream : stream[i].event = kind})
Phases(case, when) ==
    LET phases == Of("phase") IN
    Picked(phases, {i \in DOMAIN phases : phases[i].data[1] = case /\ phases[i].data[2] = when})
Reported == {e.data[1] : e \in {Of("phase")[i] : i \in DOMAIN Of("phase")}}

\* Faulty variant for TimingCompleteMeansWhole: there is a first and a last
\* record, and none of the session is missing.
SomeSession ==
    /\ ~torn
    /\ \A kind \in {"start", "identity", "timing", "collection", "corpus", "finish"} :
          Of(kind) # <<>>
    /\ stream[1].event = "start" /\ stream[Len(stream)].event = "finish"

OneSession ==
    /\ ~torn
    /\ \A kind \in {"start", "identity", "timing", "collection", "corpus", "finish"} :
          Len(Of(kind)) = 1
    /\ stream[1].event = "start" /\ stream[Len(stream)].event = "finish"

WholeCase(case) ==
    LET setup == Phases(case, "setup") IN
    /\ Len(setup) = 1 /\ Len(Phases(case, "teardown")) = 1
    /\ Len(Phases(case, "call")) = IF setup[1].data[3] = "passed" THEN 1 ELSE 0

Complete ==
    /\ OneSession /\ receipt = "zero"
    /\ Of("identity")[1].data = Prepared
    /\ Of("timing")[1].data = 0
    /\ Of("collection")[1].data = "finished"
    /\ LET corpus == Of("corpus")[1].data IN
       /\ Reported = {corpus[i] : i \in DOMAIN corpus}
       /\ \A case \in Reported : WholeCase(case)

Status == IF stream = <<>> THEN "MISSING" ELSE IF Complete THEN "COMPLETE" ELSE "PARTIAL"

-----------------------------------------------------------------------------
\* Evidence called complete is the whole run and nothing else: every phase
\* that happened in the process is in it, once and in order, no case of a
\* nested or of another session is, and nothing was left to run (inspect(),
\* _write(), pytest_runtest_logreport()).
TimingCompleteMeansWhole ==
    Status = "COMPLETE" =>
        /\ [i \in DOMAIN Of("phase") |-> Of("phase")[i].data] = ran
        /\ todo = <<>> /\ sessions = 1
=============================================================================
