------------------------------ MODULE OpsCorpus ------------------------------
(***************************************************************************)
(* The validation of yueops in shards: pytest-shards.py plans which job    *)
(* runs which test modules, each job runs its modules in one pytest        *)
(* process under a passive recorder, a reference job only collects, a      *)
(* native job runs what the others must skip, and join() decides from what *)
(* they left behind whether the whole corpus was run.                      *)
(*                                                                         *)
(* One attempt of one run: evidence of other attempts is never looked at   *)
(* (BuildRun).  Jobs are independent; any of them may be interrupted, the  *)
(* recorder may lose records, and a collection may miss cases.             *)
(***************************************************************************)
EXTENDS Naturals, Sequences, FiniteSets

CONSTANTS
    Ordinary,        \* the tracked test modules in order, without Serial
    Serial,          \* modules the source declares serial
    Shards,          \* number of ordinary assignments
    Cases, CasesOf,  \* CasesOf[m]: the cases of module m
    Unstable,        \* cases a collection may miss without a word
    MaySkip,         \* modules a collection may skip with a reason
    ReviewedModules, \* modules whose collection skip is in the baseline
    Reviewed,        \* cases whose skip is in the baseline
    NativeOnly,      \* cases that may be skipped if the native job ran them
    Floor            \* least number of native calls

Modules == {Ordinary[k] : k \in DOMAIN Ordinary} \cup Serial

ASSUME CorpusAssumption ==
    /\ Ordinary \in Seq(Modules)
    /\ \A j, k \in DOMAIN Ordinary : Ordinary[j] = Ordinary[k] => j = k
    /\ \A k \in DOMAIN Ordinary : Ordinary[k] \notin Serial
    /\ Shards \in 1..Len(Ordinary)
    /\ CasesOf \in [Modules -> SUBSET Cases]
    /\ \A m, n \in Modules : m # n => CasesOf[m] \cap CasesOf[n] = {}
    /\ MaySkip \subseteq Modules
    /\ Floor \in Nat

\* The native job is not asked for more calls than there are.
FloorReachable == Floor <= Cardinality(NativeOnly)

\* plan(): ordinary[i::count].
StrideOf(i) ==
    {Ordinary[k] : k \in {k \in DOMAIN Ordinary : (k - 1) % Shards = i - 1}}

\* Assignment 0 is the serial one, which exists if there are serial modules.
Assignments == IF Serial = {} THEN 1..Shards ELSE 0..Shards
Assigned(a) == IF a = 0 THEN Serial ELSE StrideOf(a)

\* validate_plan(): the assignments are a partition of the modules.
PlanValid ==
    /\ \A a \in Assignments : Assigned(a) # {}
    /\ \A a, b \in Assignments : a # b => Assigned(a) \cap Assigned(b) = {}
    /\ UNION {Assigned(a) : a \in Assignments} = Modules

CasesIn(modules) == UNION {CasesOf[m] : m \in modules}

VARIABLES
    job,       \* of each assignment
    session,   \* what the recorder wrote for each assignment
    ran,       \* ran[a]: <<case, result>> as it really was
    reference, \* the reference job
    parts,     \* the collections of the reference job, by assignment
    nativeJob,
    native,    \* cases the native job ran and passed
    verdict,
    trouble    \* history: something was not as it should be

vars == <<job, session, ran, reference, parts, nativeJob, native, verdict, trouble>>

JobStates == {"queued", "running", "success", "failure"}
Results == {"passed", "skipped", "failed"}
NoExit == 99
Events == {"none", "start", "corpus", "finish"}

\* The last event, the corpus, modules skipped in collection, cases with all
\* their phases, skipped or xfailed cases, the loss count and the exit code.
Sessions == [event: Events, corpus: SUBSET Cases, skips: SUBSET Modules,
             reported: SUBSET Cases, skipped: SUBSET Cases, lost: BOOLEAN,
             exit: {0, 1, 5, NoExit}]

NoSession == [event |-> "none", corpus |-> {}, skips |-> {}, reported |-> {},
              skipped |-> {}, lost |-> FALSE, exit |-> NoExit]

Collections == [done: BOOLEAN, corpus: SUBSET Cases, skips: SUBSET Modules]
NoCollection == [done |-> FALSE, corpus |-> {}, skips |-> {}]

TypeOK ==
    /\ job \in [Assignments -> JobStates]
    /\ session \in [Assignments -> Sessions]
    /\ ran \in [Assignments -> SUBSET (Cases \X Results)]
    /\ reference \in JobStates /\ nativeJob \in JobStates
    /\ parts \in [Assignments -> Collections]
    /\ native \subseteq NativeOnly
    /\ verdict \in {"none", "accepted", "rejected"}
    /\ trouble \in BOOLEAN

Init ==
    /\ job = [a \in Assignments |-> "queued"]
    /\ session = [a \in Assignments |-> NoSession]
    /\ ran = [a \in Assignments |-> {}]
    /\ reference = "queued" /\ nativeJob = "queued"
    /\ parts = [a \in Assignments |-> NoCollection]
    /\ native = {}
    /\ verdict = "none"
    /\ trouble = FALSE

-----------------------------------------------------------------------------
(* A job of the corpus: execute() and the recorder, lens_report.py.        *)

\* A collection of modules: some of them skip, some cases are missed.
Collected(modules, skips, missed) ==
    CasesIn(modules \ skips) \ missed

Expected(skips, missed) == missed = {} /\ skips \subseteq ReviewedModules

Start(a) ==
    /\ job[a] = "queued"
    /\ job' = [job EXCEPT ![a] = "running"]
    /\ session' = [session EXCEPT ![a].event = "start"]
    /\ UNCHANGED <<ran, reference, parts, nativeJob, native, verdict, trouble>>

Collect(a) ==
    /\ job[a] = "running" /\ session[a].event = "start"
    /\ \E skips \in SUBSET (Assigned(a) \cap MaySkip) : \E missed \in SUBSET Unstable :
          /\ session' = [session EXCEPT ![a].event = "corpus",
                            ![a].corpus = Collected(Assigned(a), skips, missed),
                            ![a].skips = skips]
          /\ trouble' = (trouble \/ ~Expected(skips, missed)
                                 \/ (parts[a].done /\ parts[a].skips # skips))
    /\ UNCHANGED <<job, ran, reference, parts, nativeJob, native, verdict>>

\* A case ends.  Its phases and its outcome are two kinds of records, and a
\* record that could not be written is only counted.
RunCase(a, c, result) ==
    /\ job[a] = "running" /\ session[a].event = "corpus"
    /\ c \in session[a].corpus /\ \A r \in Results : <<c, r>> \notin ran[a]
    /\ ran' = [ran EXCEPT ![a] = @ \cup {<<c, result>>}]
    /\ \E phases, outcome \in BOOLEAN :
          /\ session' = [session EXCEPT
                ![a].reported = IF phases THEN @ \cup {c} ELSE @,
                ![a].skipped = IF outcome /\ result = "skipped" THEN @ \cup {c} ELSE @,
                ![a].lost = @ \/ ~phases \/ ~outcome]
          /\ trouble' = (trouble \/ ~phases \/ ~outcome \/ result = "failed"
                             \/ (result = "skipped" /\ c \notin Reviewed \cup NativeOnly))
    /\ UNCHANGED <<job, reference, parts, nativeJob, native, verdict>>

Over(a) == \A c \in session[a].corpus : \E r \in Results : <<c, r>> \in ran[a]

\* pytest's exit code.
ExitOf(a) ==
    CASE session[a].corpus = {} -> 5
      [] session[a].corpus # {} /\ (\E c \in Cases : <<c, "failed">> \in ran[a]) -> 1
      [] OTHER -> 0

\* Exit code 5, no tests, is a success of the job: join() has the last word.
Finish(a) ==
    /\ job[a] = "running" /\ session[a].event = "corpus"
    /\ Over(a)
    /\ session' = [session EXCEPT ![a].event = "finish", ![a].exit = ExitOf(a)]
    /\ job' = [job EXCEPT ![a] = IF ExitOf(a) = 1 THEN "failure" ELSE "success"]
    /\ UNCHANGED <<ran, reference, parts, nativeJob, native, verdict, trouble>>

\* The admission is refused, pytest dies, collection errs, the job is
\* cancelled or times out: what has been recorded is uploaded all the same.
Interrupt(a) ==
    /\ job[a] \in {"queued", "running"}
    /\ job' = [job EXCEPT ![a] = "failure"]
    /\ trouble' = TRUE
    /\ UNCHANGED <<session, ran, reference, parts, nativeJob, native, verdict>>

-----------------------------------------------------------------------------
(* The reference job collects all modules, one process per assignment.     *)

StartReference ==
    /\ reference = "queued"
    /\ reference' = "running"
    /\ UNCHANGED <<job, session, ran, parts, nativeJob, native, verdict, trouble>>

CollectPart(a) ==
    /\ reference = "running" /\ ~parts[a].done
    /\ \E skips \in SUBSET (Assigned(a) \cap MaySkip) : \E missed \in SUBSET Unstable :
          /\ parts' = [parts EXCEPT ![a] =
                [done |-> TRUE, corpus |-> Collected(Assigned(a), skips, missed),
                 skips |-> skips]]
          /\ trouble' = (trouble \/ ~Expected(skips, missed)
                 \/ (session[a].event \in {"corpus", "finish"} /\ session[a].skips # skips))
    /\ UNCHANGED <<job, session, ran, reference, nativeJob, native, verdict>>

\* join_reference_collections(): no case twice.
EndReference ==
    /\ reference = "running"
    /\ \A a \in Assignments : parts[a].done
    /\ reference' = IF \A a, b \in Assignments :
                           a # b => parts[a].corpus \cap parts[b].corpus = {}
                    THEN "success" ELSE "failure"
    /\ UNCHANGED <<job, session, ran, parts, nativeJob, native, verdict, trouble>>

InterruptReference ==
    /\ reference \in {"queued", "running"}
    /\ reference' = "failure"
    /\ trouble' = TRUE
    /\ UNCHANGED <<job, session, ran, parts, nativeJob, native, verdict>>

\* The native job passes all it requires of itself, and no fewer than Floor.
EndNative ==
    /\ nativeJob = "queued"
    /\ \E passed \in SUBSET NativeOnly :
          /\ native' = passed
          /\ nativeJob' = IF Cardinality(passed) >= Floor THEN "success" ELSE "failure"
          /\ trouble' = (trouble \/ passed # NativeOnly)
    /\ UNCHANGED <<job, session, ran, reference, parts, verdict>>

-----------------------------------------------------------------------------
(* validation-evidence: join(), with aggregate() and admit_skips().        *)

ReferenceCorpus == UNION {parts[a].corpus : a \in Assignments}

\* Faulty variant for RejectsOnlyTrouble: no assignment may be empty.
NeverEmpty(a) == FALSE

\* No collected case belongs to the modules of a.
ExpectedEmpty(a) == ReferenceCorpus \cap CasesIn(Assigned(a)) = {}

\* Faulty variant for AcceptedMeansAllRun: losses of the recorder are ignored.
SessionReported(a) ==
    /\ session[a].event = "finish"
    /\ session[a].corpus \subseteq CasesIn(Assigned(a))
    /\ session[a].exit = IF ExpectedEmpty(a) /\ session[a].corpus = {} THEN 5 ELSE 0
    /\ session[a].reported = session[a].corpus

\* inspect_session(): the whole process was recorded and succeeded.
SessionComplete(a) ==
    /\ session[a].event = "finish"
    /\ session[a].corpus \subseteq CasesIn(Assigned(a))
    /\ session[a].exit = IF ExpectedEmpty(a) /\ session[a].corpus = {} THEN 5 ELSE 0
    /\ session[a].reported = session[a].corpus
    /\ ~session[a].lost

\* aggregate(): the shards together ran what the reference collected.
CorpusComplete ==
    /\ \A a \in Assignments : SessionComplete(a)
    /\ \A a, b \in Assignments : a # b => session[a].corpus \cap session[b].corpus = {}
    /\ UNION {session[a].corpus : a \in Assignments} = ReferenceCorpus

\* admit_skips(): all that was skipped is known, and what the native job is to
\* run instead it ran in this very run.
SkipsAdmitted ==
    /\ \A a \in Assignments : \A c \in session[a].skipped :
          c \in Reviewed \/ (c \in NativeOnly /\ c \in native)
    /\ \A a \in Assignments : /\ session[a].skips \subseteq ReviewedModules
                              /\ session[a].skips = parts[a].skips

JobsOver ==
    /\ \A a \in Assignments : job[a] \in {"success", "failure"}
    /\ reference \in {"success", "failure"} /\ nativeJob \in {"success", "failure"}

JobsSucceeded ==
    /\ \A a \in Assignments : job[a] = "success"
    /\ reference = "success" /\ nativeJob = "success"

Join ==
    /\ verdict = "none"
    /\ JobsOver
    /\ verdict' = IF PlanValid /\ JobsSucceeded /\ CorpusComplete /\ SkipsAdmitted
                  THEN "accepted" ELSE "rejected"
    /\ UNCHANGED <<job, session, ran, reference, parts, nativeJob, native, trouble>>

Next ==
    \/ \E a \in Assignments : \/ Start(a) \/ Collect(a) \/ Finish(a) \/ Interrupt(a)
                              \/ CollectPart(a)
                              \/ \E c \in Cases, r \in Results : RunCase(a, c, r)
    \/ StartReference \/ EndReference \/ InterruptReference \/ EndNative
    \/ Join

Spec == Init /\ [][Next]_vars

-----------------------------------------------------------------------------
(* Properties.                                                             *)

RunOf(c) == {p \in Assignments \X Results : <<c, p[2]>> \in ran[p[1]]}

\* An accepted run did run every case that a collection does not miss, in one
\* shard and once, and it passed, or its skip or that of its module had been
\* reviewed, or the native job passed it: whatever was interrupted or lost.
AcceptedMeansAllRun ==
    verdict = "accepted" =>
        \A m \in Modules : \A c \in CasesOf[m] \ Unstable :
            \/ /\ m \in ReviewedModules
               /\ RunOf(c) = {}
            \/ \E a \in Assignments, r \in Results :
                  /\ RunOf(c) = {<<a, r>>}
                  /\ \/ r = "passed"
                     \/ (r = "skipped" /\ c \in Reviewed \cup native)

\* A run that nothing happened to is not turned down, not even if a shard had
\* no case to run.
RejectsOnlyTrouble == verdict = "rejected" => trouble
=============================================================================
