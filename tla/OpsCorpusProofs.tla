--------------------------- MODULE OpsCorpusProofs ---------------------------
(***************************************************************************)
(* For any modules, shards and cases: the assignments are a partition of   *)
(* the modules, an accepted run did run the corpus, and a run that nothing *)
(* happened to is accepted.  The argument for the second goes from what    *)
(* the recorder wrote back to what happened: without losses, and with the  *)
(* final event, the record of a session is complete.  For the third, each  *)
(* shard collects just what the reference collects for it.                 *)
(*                                                                         *)
(* The admission of the shared inputs is proved apart, over the reviews as *)
(* they are and for any number of commits.  Every review gives its paths a *)
(* higher blob; so a review peeled off whole leaves inputs that the ones   *)
(* before it account for, and the review of highest rank that a path still *)
(* carries must be in the history of the source.                           *)
(*                                                                         *)
(* The record of a legacy run is complete only if it is of one session: a  *)
(* second one shows its own beginning, or has counted the line it lost of  *)
(* it.  In one session each phase happens once, so a phase that was not    *)
(* recorded is missing for good, and the summary counts the phases of      *)
(* each case.                                                              *)
(***************************************************************************)
EXTENDS CorpusEvidence, Integers, FiniteSetTheorems, WellFoundedInduction, TLAPS

-----------------------------------------------------------------------------
(* Of the four only the chosen one moves.                                  *)

LEMMA OneMoves ==
    ASSUME [EvidenceNext]_allVars
    PROVE  /\ subject' = subject
           /\ subject = "recorder" => [Legacy!Next]_(Legacy!vars)
           /\ subject = "inputs" => [R!Next]_(R!vars)
           /\ subject = "skips" => [K!Next]_(K!vars)
BY DEF EvidenceNext, allVars, CorpusStep, RecorderStep, InputStep, SkipStep,
       recorderVars, inputVars, skipVars, Legacy!vars, R!vars, K!vars

-----------------------------------------------------------------------------
(* The corpus in shards.                                                   *)

\* Every module is assigned, to one assignment, and none is without modules:
\* what plan() makes is what validate_plan() demands.
THEOREM PlanPartitions == PlanValid
<1> USE CorpusAssumption
<1>1. Shards \in Nat \ {0} /\ Len(Ordinary) \in Nat /\ Shards <= Len(Ordinary)
      /\ DOMAIN Ordinary = 1..Len(Ordinary)
  OBVIOUS
<1>2. \A k \in DOMAIN Ordinary : (k - 1) % Shards \in 0..(Shards - 1)
  BY <1>1
<1>3. \A i \in 1..Shards : Ordinary[i] \in StrideOf(i)
  <2> TAKE i \in 1..Shards
  <2>1. i \in DOMAIN Ordinary /\ (i - 1) % Shards = i - 1
    BY <1>1
  <2> QED
    BY <2>1 DEF StrideOf
<1>4. \A a \in Assignments : Assigned(a) # {}
  BY <1>1, <1>3 DEF Assignments, Assigned
<1>5. \A i, j \in 1..Shards : i # j => StrideOf(i) \cap StrideOf(j) = {}
  <2> SUFFICES ASSUME NEW i \in 1..Shards, NEW j \in 1..Shards,
                      NEW m \in StrideOf(i) \cap StrideOf(j)
               PROVE  i = j
    OBVIOUS
  <2>1. PICK k \in DOMAIN Ordinary : m = Ordinary[k] /\ (k - 1) % Shards = i - 1
    BY DEF StrideOf
  <2>2. PICK l \in DOMAIN Ordinary : m = Ordinary[l] /\ (l - 1) % Shards = j - 1
    BY DEF StrideOf
  <2>3. k = l
    BY <2>1, <2>2
  <2> QED
    BY <1>1, <2>1, <2>2, <2>3
<1>6. \A i \in 1..Shards : StrideOf(i) \cap Serial = {}
  BY DEF StrideOf
<1>7. \A a, b \in Assignments : a # b => Assigned(a) \cap Assigned(b) = {}
  BY <1>1, <1>5, <1>6 DEF Assignments, Assigned
<1>8. \A k \in DOMAIN Ordinary : \E i \in 1..Shards : Ordinary[k] \in StrideOf(i)
  <2> TAKE k \in DOMAIN Ordinary
  <2>1. ((k - 1) % Shards) + 1 \in 1..Shards
    BY <1>1, <1>2
  <2>2. (k - 1) % Shards = (((k - 1) % Shards) + 1) - 1
    BY <1>1, <1>2
  <2>3. Ordinary[k] \in StrideOf(((k - 1) % Shards) + 1)
    BY <2>2 DEF StrideOf
  <2> QED
    BY <2>1, <2>3
<1>9. \A m \in Modules : \E a \in Assignments : m \in Assigned(a)
  BY <1>1, <1>8 DEF Modules, Assignments, Assigned
<1>10. \A a \in Assignments : Assigned(a) \subseteq Modules
  BY DEF Modules, Assignments, Assigned, StrideOf
<1> QED
  BY <1>4, <1>7, <1>9, <1>10 DEF PlanValid

-----------------------------------------------------------------------------
\* What was collected is of the assigned modules, and misses nothing but
\* skipped modules and unstable cases.
CollectInv(a) ==
    /\ job[a] = "queued" => session[a].event = "none"
    /\ session[a].event \in {"none", "start"} => session[a].corpus = {}
    /\ session[a].corpus \subseteq CasesIn(Assigned(a) \ session[a].skips)
    /\ session[a].event \in {"corpus", "finish"} =>
          CasesIn(Assigned(a) \ session[a].skips) \ Unstable \subseteq session[a].corpus

\* What ran was collected and ran once; unless records were lost all skips
\* are on record, and the exit code tells of failures.
RanInv(a) ==
    /\ \A p \in ran[a] : p[1] \in session[a].corpus
    /\ \A p, q \in ran[a] : p[1] = q[1] => p = q
    /\ ~session[a].lost => \A c \in Cases :
          <<c, "skipped">> \in ran[a] => c \in session[a].skipped
    /\ session[a].event = "finish" =>
          /\ Over(a)
          /\ session[a].exit # 1 => \A c \in Cases : <<c, "failed">> \notin ran[a]

\* What was decided is decided over jobs that are over.
OverInv == verdict # "none" => JobsOver

IInv ==
    /\ TypeOK
    /\ \A a \in Assignments : CollectInv(a) /\ RanInv(a)
    /\ OverInv
    /\ AcceptedMeansAllRun

-----------------------------------------------------------------------------
\* Initially nothing ran.
LEMMA InitInv == Init => IInv
<1> SUFFICES ASSUME Init PROVE IInv
  OBVIOUS
<1>1. TypeOK
  BY DEF Init, TypeOK, JobStates, Sessions, NoSession, Events, NoExit, Collections,
         NoCollection
<1>2. \A a \in Assignments : CollectInv(a) /\ RanInv(a)
  BY DEF Init, CollectInv, RanInv, NoSession, Over
<1>3. OverInv /\ AcceptedMeansAllRun
  BY DEF Init, OverInv, AcceptedMeansAllRun
<1> QED
  BY <1>1, <1>2, <1>3 DEF IInv

\* A collection is one of cases.
LEMMA CollectedType ==
    ASSUME NEW modules \in SUBSET Modules, NEW skips, NEW missed
    PROVE  Collected(modules, skips, missed) \in SUBSET Cases
  BY CorpusAssumption DEF Collected, CasesIn

\* Assignments are of modules.
LEMMA AssignedType == \A a \in Assignments : Assigned(a) \subseteq Modules
  BY PlanPartitions DEF PlanValid

\* Types are kept.
LEMMA TypeStep == TypeOK /\ [Next]_vars => TypeOK'
<1> SUFFICES ASSUME TypeOK, [Next]_vars PROVE TypeOK'
  OBVIOUS
<1> USE DEF TypeOK, JobStates
<1>1. ASSUME NEW a \in Assignments, Start(a) PROVE TypeOK'
  BY <1>1 DEF Start, Sessions, Events
<1>2. ASSUME NEW a \in Assignments, Collect(a) PROVE TypeOK'
  <2>1. PICK skips \in SUBSET (Assigned(a) \cap MaySkip), missed \in SUBSET Unstable :
           session' = [session EXCEPT ![a].event = "corpus",
                         ![a].corpus = Collected(Assigned(a), skips, missed),
                         ![a].skips = skips]
    BY <1>2 DEF Collect
  <2>2. Collected(Assigned(a), skips, missed) \in SUBSET Cases /\ skips \in SUBSET Modules
    BY CollectedType, AssignedType
  <2>3. session' \in [Assignments -> Sessions]
    <3> DEFINE new == [session[a] EXCEPT !.event = "corpus",
                         !.corpus = Collected(Assigned(a), skips, missed), !.skips = skips]
    <3>1. new \in Sessions
      BY <2>2 DEF Sessions, Events
    <3>2. session' = [session EXCEPT ![a] = new]
      BY <2>1
    <3> QED
      BY <3>1, <3>2
  <2>4. trouble' \in BOOLEAN
    BY <1>2 DEF Collect
  <2> QED
    BY <1>2, <2>3, <2>4 DEF Collect
<1>3. ASSUME NEW a \in Assignments, NEW c \in Cases, NEW r \in Results, RunCase(a, c, r)
      PROVE  TypeOK'
  <2>1. PICK phases \in BOOLEAN, outcome \in BOOLEAN :
           session' = [session EXCEPT
                ![a].reported = IF phases THEN @ \cup {c} ELSE @,
                ![a].skipped = IF outcome /\ r = "skipped" THEN @ \cup {c} ELSE @,
                ![a].lost = @ \/ ~phases \/ ~outcome]
    BY <1>3 DEF RunCase
  <2>2. session' \in [Assignments -> Sessions]
    <3> DEFINE reported == IF phases THEN session[a].reported \cup {c} ELSE session[a].reported
               skipped == IF outcome /\ r = "skipped" THEN session[a].skipped \cup {c}
                          ELSE session[a].skipped
               lost == session[a].lost \/ ~phases \/ ~outcome
    <3>1. session[a] \in Sessions
      OBVIOUS
    <3>2. reported \in SUBSET Cases /\ skipped \in SUBSET Cases
      BY <3>1 DEF Sessions
    <3>3. lost \in BOOLEAN
      OBVIOUS
    <3>4. session' = [session EXCEPT ![a] = [session[a] EXCEPT
                          !.reported = reported, !.skipped = skipped, !.lost = lost]]
      BY <2>1
    <3> HIDE DEF reported, skipped, lost
    <3>5. [session[a] EXCEPT !.reported = reported, !.skipped = skipped, !.lost = lost]
             \in Sessions
      BY <3>1, <3>2, <3>3 DEF Sessions
    <3> QED
      BY <3>4, <3>5
  <2>3. trouble' \in BOOLEAN
    BY <1>3 DEF RunCase
  <2>4. ran' \in [Assignments -> SUBSET (Cases \X Results)]
    BY <1>3 DEF RunCase
  <2> QED
    BY <1>3, <2>2, <2>3, <2>4 DEF RunCase
<1>4. ASSUME NEW a \in Assignments, Finish(a) PROVE TypeOK'
  <2>1. ExitOf(a) \in {0, 1, 5, NoExit}
    BY DEF ExitOf
  <2>2. [session[a] EXCEPT !.event = "finish", !.exit = ExitOf(a)] \in Sessions
    BY <2>1 DEF Sessions, Events
  <2>3. session' = [session EXCEPT ![a] =
                       [session[a] EXCEPT !.event = "finish", !.exit = ExitOf(a)]]
    BY <1>4 DEF Finish
  <2>4. session' \in [Assignments -> Sessions]
    BY <2>2, <2>3
  <2> QED
    BY <1>4, <2>4 DEF Finish
<1>5. ASSUME NEW a \in Assignments, Interrupt(a) PROVE TypeOK'
  BY <1>5 DEF Interrupt
<1>6. ASSUME NEW a \in Assignments, CollectPart(a) PROVE TypeOK'
  <2>1. PICK skips \in SUBSET (Assigned(a) \cap MaySkip), missed \in SUBSET Unstable :
           parts' = [parts EXCEPT ![a] =
                [done |-> TRUE, corpus |-> Collected(Assigned(a), skips, missed),
                 skips |-> skips]]
    BY <1>6 DEF CollectPart
  <2>2. Collected(Assigned(a), skips, missed) \in SUBSET Cases /\ skips \in SUBSET Modules
    BY CollectedType, AssignedType
  <2>3. parts' \in [Assignments -> Collections]
    BY <2>1, <2>2 DEF Collections
  <2>4. trouble' \in BOOLEAN
    BY <1>6 DEF CollectPart
  <2> QED
    BY <1>6, <2>3, <2>4 DEF CollectPart
<1>7. CASE StartReference \/ EndReference \/ InterruptReference
  BY <1>7 DEF StartReference, EndReference, InterruptReference
<1>8. CASE EndNative
  BY <1>8 DEF EndNative
<1>9. CASE Join
  BY <1>9 DEF Join
<1>10. CASE UNCHANGED vars
  BY <1>10 DEF vars
<1> QED
  BY <1>1, <1>2, <1>3, <1>4, <1>5, <1>6, <1>7, <1>8, <1>9, <1>10 DEF Next

\* A record of a session stays true of what ran.
LEMMA RecordStep ==
    ASSUME IInv, [Next]_vars, NEW b \in Assignments
    PROVE  CollectInv(b)' /\ RanInv(b)'
<1> USE DEF IInv, CollectInv, RanInv, Over
<1>1. ASSUME NEW a \in Assignments, Start(a) PROVE CollectInv(b)' /\ RanInv(b)'
  <2> USE DEF TypeOK, Sessions
  <2>1. /\ UNCHANGED ran /\ session' = [session EXCEPT ![a].event = "start"]
        /\ job' = [job EXCEPT ![a] = "running"] /\ session[a].event = "none"
    BY <1>1 DEF Start
  <2>2. CASE a = b
    <3>1. session'[b] = [session[b] EXCEPT !.event = "start"]
      BY <2>1, <2>2
    <3>2. session'[b].corpus = session[b].corpus /\ session'[b].skips = session[b].skips
        /\ session'[b].lost = session[b].lost /\ session'[b].skipped = session[b].skipped
        /\ session'[b].event = "start" /\ job'[b] = "running"
      BY <2>1, <2>2, <3>1
    <3> QED
      BY <2>1, <2>2, <3>2
  <2>3. CASE a # b
    BY <2>1, <2>3
  <2> QED
    BY <2>2, <2>3
<1>2. ASSUME NEW a \in Assignments, Collect(a) PROVE CollectInv(b)' /\ RanInv(b)'
  <2> USE DEF TypeOK, Sessions
  <2>1. PICK skips \in SUBSET (Assigned(a) \cap MaySkip), missed \in SUBSET Unstable :
           session' = [session EXCEPT ![a].event = "corpus",
                         ![a].corpus = Collected(Assigned(a), skips, missed),
                         ![a].skips = skips]
    BY <1>2 DEF Collect
  <2>2. UNCHANGED <<ran, job>> /\ job[a] = "running" /\ session[a].event = "start"
    BY <1>2 DEF Collect
  <2>3. CASE a = b
    <3>1. session'[b] = [session[b] EXCEPT !.event = "corpus",
             !.corpus = Collected(Assigned(b), skips, missed), !.skips = skips]
      BY <2>1, <2>3
    <3>2. /\ session'[b].corpus = Collected(Assigned(b), skips, missed)
          /\ session'[b].skips = skips /\ session'[b].event = "corpus"
      BY <2>1, <2>3, <3>1
    <3>3. CollectInv(b)'
      BY <2>2, <2>3, <3>2 DEF Collected
    <3>4. session[b].corpus = {} /\ ran'[b] = {}
      BY <2>2, <2>3
    <3>5. RanInv(b)'
      BY <3>2, <3>4
    <3> QED
      BY <3>3, <3>5
  <2>4. CASE a # b
    BY <2>1, <2>2, <2>4
  <2> QED
    BY <2>3, <2>4
<1>3. ASSUME NEW a \in Assignments, NEW c \in Cases, NEW r \in Results, RunCase(a, c, r)
      PROVE  CollectInv(b)' /\ RanInv(b)'
  <2> USE DEF TypeOK, Sessions
  <2>1. PICK phases \in BOOLEAN, outcome \in BOOLEAN :
           session' = [session EXCEPT
                ![a].reported = IF phases THEN @ \cup {c} ELSE @,
                ![a].skipped = IF outcome /\ r = "skipped" THEN @ \cup {c} ELSE @,
                ![a].lost = @ \/ ~phases \/ ~outcome]
    BY <1>3 DEF RunCase
  <2>2. /\ UNCHANGED job /\ ran' = [ran EXCEPT ![a] = @ \cup {<<c, r>>}]
        /\ session[a].event = "corpus" /\ c \in session[a].corpus
        /\ \A q \in Results : <<c, q>> \notin ran[a]
    BY <1>3 DEF RunCase
  <2>3. CASE a = b
    <3>1. session'[b].corpus = session[b].corpus /\ session'[b].skips = session[b].skips
          /\ session'[b].event = "corpus"
      BY <2>1, <2>2, <2>3
    <3>2. CollectInv(b)'
      BY <2>2, <2>3, <3>1
    <3>3. ran'[b] = ran[b] \cup {<<c, r>>}
      BY <2>2, <2>3
    <3>4. \A p \in ran'[b] : p[1] \in session'[b].corpus
      <4>1. \A p \in ran[b] : p[1] \in session'[b].corpus
        BY <3>1
      <4>2. <<c, r>>[1] \in session'[b].corpus
        BY <2>2, <2>3, <3>1
      <4> QED
        BY <3>3, <4>1, <4>2
    <3>5. \A p \in ran[b] : p = <<p[1], p[2]>> /\ p[2] \in Results
      BY ran[b] \subseteq Cases \X Results
    <3>6. \A p, q \in ran'[b] : p[1] = q[1] => p = q
      <4>1. \A p \in ran[b] : p[1] # c
        BY <2>2, <2>3, <3>5
      <4>2. \A p, q \in ran[b] : p[1] = q[1] => p = q
        OBVIOUS
      <4>3. <<c, r>>[1] = c
        OBVIOUS
      <4> QED
        BY <3>3, <4>1, <4>2, <4>3
    <3>7. ~session'[b].lost => ~session[b].lost
      BY <2>1, <2>3
    <3>8. ~session'[b].lost => session'[b].skipped =
             IF r = "skipped" THEN session[b].skipped \cup {c} ELSE session[b].skipped
      BY <2>1, <2>3
    <3>9. ~session'[b].lost => \A d \in Cases :
             <<d, "skipped">> \in ran'[b] => d \in session'[b].skipped
      BY <3>3, <3>7, <3>8
    <3> QED
      BY <3>1, <3>2, <3>4, <3>6, <3>9
  <2>4. CASE a # b
    BY <2>1, <2>2, <2>4
  <2> QED
    BY <2>3, <2>4
<1>4. ASSUME NEW a \in Assignments, Finish(a) PROVE CollectInv(b)' /\ RanInv(b)'
  <2> USE DEF TypeOK, Sessions
  <2>1. /\ session' = [session EXCEPT ![a].event = "finish", ![a].exit = ExitOf(a)]
        /\ session[a].event = "corpus" /\ Over(a) /\ UNCHANGED ran
        /\ job[a] = "running" /\ job'[a] # "queued"
        /\ job' = [job EXCEPT ![a] = IF ExitOf(a) = 1 THEN "failure" ELSE "success"]
    BY <1>4 DEF Finish
  <2>2. CASE a = b
    <3>1. session'[b].corpus = session[b].corpus /\ session'[b].skips = session[b].skips
          /\ session'[b].lost = session[b].lost /\ session'[b].skipped = session[b].skipped
          /\ session'[b].event = "finish" /\ session'[b].exit = ExitOf(b)
      BY <2>1, <2>2
    <3>2. ExitOf(b) # 1 => \A c \in Cases : <<c, "failed">> \notin ran[b]
      <4>1. session[b].corpus = {} => ran[b] = {}
        OBVIOUS
      <4> QED
        BY <4>1 DEF ExitOf
    <3> QED
      BY <2>1, <2>2, <3>1, <3>2
  <2>3. CASE a # b
    BY <2>1, <2>3
  <2> QED
    BY <2>2, <2>3
<1>5. ASSUME NEW a \in Assignments, Interrupt(a) PROVE CollectInv(b)' /\ RanInv(b)'
  BY <1>5 DEF Interrupt, TypeOK
<1>6. ASSUME NEW a \in Assignments, CollectPart(a) PROVE CollectInv(b)' /\ RanInv(b)'
  BY <1>6 DEF CollectPart
<1>7. CASE StartReference \/ EndReference \/ InterruptReference \/ EndNative \/ Join
  BY <1>7 DEF StartReference, EndReference, InterruptReference, EndNative, Join
<1>8. CASE UNCHANGED vars
  BY <1>8 DEF vars
<1> QED
  BY <1>1, <1>2, <1>3, <1>4, <1>5, <1>6, <1>7, <1>8 DEF Next

\* What join() checks is enough.
LEMMA ChecksSuffice ==
    ASSUME IInv, CorpusComplete, SkipsAdmitted, NEW m \in Modules,
           NEW c \in CasesOf[m] \ Unstable
    PROVE  \/ /\ m \in ReviewedModules
              /\ RunOf(c) = {}
           \/ \E a \in Assignments, r \in Results :
                 /\ RunOf(c) = {<<a, r>>}
                 /\ \/ r = "passed"
                    \/ (r = "skipped" /\ c \in Reviewed \cup native)
<1>1. c \in Cases
  BY CorpusAssumption
<1>2. PICK a \in Assignments : m \in Assigned(a)
  BY PlanPartitions DEF PlanValid
<1>3. \A b \in Assignments : c \in session[b].corpus => b = a /\ m \notin session[b].skips
  <2> SUFFICES ASSUME NEW b \in Assignments, c \in session[b].corpus
               PROVE  b = a /\ m \notin session[b].skips
    OBVIOUS
  <2>1. PICK n \in Assigned(b) \ session[b].skips : c \in CasesOf[n]
    BY DEF IInv, CollectInv, CasesIn
  <2>2. n = m
    BY <2>1, AssignedType, CorpusAssumption
  <2> QED
    BY <1>2, <2>1, <2>2, PlanPartitions DEF PlanValid
<1>4. \A b \in Assignments : \A r \in Results : <<c, r>> \in ran[b] => b = a
  BY <1>3 DEF IInv, RanInv
<1>5. session[a].event = "finish" /\ session[a].exit \in {0, 5} /\ ~session[a].lost
  BY DEF CorpusComplete, SessionComplete
<1>6. CASE m \in session[a].skips
  <2>1. m \in ReviewedModules
    BY <1>6 DEF SkipsAdmitted
  <2>2. RunOf(c) = {}
    BY <1>3, <1>4, <1>6 DEF RunOf, IInv, RanInv
  <2> QED
    BY <2>1, <2>2
<1>7. CASE m \notin session[a].skips
  <2>1. c \in session[a].corpus
    BY <1>2, <1>5, <1>7 DEF IInv, CollectInv, CasesIn
  <2>2. PICK r \in Results : <<c, r>> \in ran[a]
    BY <1>5, <2>1 DEF IInv, RanInv, Over
  <2>3. \A q \in Results : <<c, q>> \in ran[a] => q = r
    BY <2>2 DEF IInv, RanInv
  <2>4. RunOf(c) = {<<a, r>>}
    BY <1>4, <2>2, <2>3 DEF RunOf
  <2>5. r # "failed"
    BY <1>1, <1>5, <2>2 DEF IInv, RanInv
  <2>6. r = "skipped" => c \in Reviewed \cup native
    BY <1>1, <1>5, <2>2 DEF IInv, RanInv, SkipsAdmitted
  <2> QED
    BY <2>4, <2>5, <2>6 DEF Results
<1> QED
  BY <1>6, <1>7

\* Only join() accepts, and nothing happens after it.
LEMMA VerdictStep == IInv /\ [Next]_vars => OverInv' /\ AcceptedMeansAllRun'
<1> SUFFICES ASSUME IInv, [Next]_vars PROVE OverInv' /\ AcceptedMeansAllRun'
  OBVIOUS
<1>1. CASE Join
  <2>1. UNCHANGED <<job, session, ran, reference, nativeJob, native>> /\ JobsOver
    BY <1>1 DEF Join
  <2>2. OverInv'
    BY <2>1 DEF OverInv, JobsOver
  <2>3. CASE verdict' = "accepted"
    <3>1. CorpusComplete /\ SkipsAdmitted
      BY <1>1, <2>3 DEF Join
    <3> QED
      BY <2>1, <2>2, <3>1, ChecksSuffice DEF AcceptedMeansAllRun, RunOf
  <2>4. CASE verdict' # "accepted"
    BY <2>2, <2>4 DEF AcceptedMeansAllRun
  <2> QED
    BY <2>3, <2>4
<1>2. CASE verdict # "none" /\ ~Join
  <2>1. JobsOver
    BY <1>2 DEF IInv, OverInv
  <2>2. \A a \in Assignments : ~(Start(a) \/ Collect(a) \/ Finish(a) \/ Interrupt(a))
    BY <2>1 DEF JobsOver, Start, Collect, Finish, Interrupt
  <2>3. \A a \in Assignments : ~CollectPart(a)
    BY <2>1 DEF JobsOver, CollectPart
  <2>4. \A a \in Assignments, c \in Cases, r \in Results : ~RunCase(a, c, r)
    BY <2>1 DEF JobsOver, RunCase
  <2>5. ~(StartReference \/ EndReference \/ InterruptReference \/ EndNative)
    BY <2>1 DEF JobsOver, StartReference, EndReference, InterruptReference, EndNative
  <2>6. UNCHANGED vars
    BY <1>2, <2>2, <2>3, <2>4, <2>5 DEF Next
  <2> QED
    BY <1>2, <2>1, <2>6 DEF IInv, vars, OverInv, JobsOver, AcceptedMeansAllRun, RunOf
<1>3. CASE verdict = "none" /\ ~Join
  <2>1. verdict' = "none"
    <3>1. \A a \in Assignments : Start(a) \/ Collect(a) \/ Finish(a) \/ Interrupt(a)
             \/ CollectPart(a) => UNCHANGED verdict
      BY DEF Start, Collect, Finish, Interrupt, CollectPart
    <3>2. \A a \in Assignments, c \in Cases, r \in Results :
             RunCase(a, c, r) => UNCHANGED verdict
      BY DEF RunCase
    <3>3. StartReference \/ EndReference \/ InterruptReference \/ EndNative
             => UNCHANGED verdict
      BY DEF StartReference, EndReference, InterruptReference, EndNative
    <3> QED
      BY <1>3, <3>1, <3>2, <3>3 DEF Next, vars
  <2> QED
    BY <2>1 DEF OverInv, AcceptedMeansAllRun
<1> QED
  BY <1>1, <1>2, <1>3

LEMMA InvStep == IInv /\ [Next]_vars => IInv'
  BY TypeStep, RecordStep, VerdictStep DEF IInv

\* The variables keep to their types.
THEOREM TypeCorrect == Spec => []TypeOK
<1>1. IInv => TypeOK
  BY DEF IInv
<1> QED
  BY InitInv, InvStep, <1>1, PTL DEF Spec

\* validation-evidence accepts only runs that did run every stable case once,
\* whatever was interrupted, lost or skipped.
THEOREM CorpusWasRun == Spec => []AcceptedMeansAllRun
<1>1. IInv => AcceptedMeansAllRun
  BY DEF IInv
<1> QED
  BY InitInv, InvStep, <1>1, PTL DEF Spec

-----------------------------------------------------------------------------
(* What is turned down.                                                    *)

\* A shard of a run that nothing happened to: it collected all its cases but
\* those of reviewed modules, like the reference did, and recorded all it ran.
CalmSession(a) ==
    /\ session[a].event \in {"corpus", "finish"} =>
          /\ session[a].corpus = CasesIn(Assigned(a) \ session[a].skips)
          /\ session[a].skips \subseteq ReviewedModules
          /\ parts[a].done => parts[a].skips = session[a].skips
    /\ parts[a].done => parts[a].corpus = CasesIn(Assigned(a) \ parts[a].skips)
    /\ ~session[a].lost
    /\ session[a].reported = {c \in Cases : \E r \in Results : <<c, r>> \in ran[a]}
    /\ session[a].skipped \subseteq Reviewed \cup NativeOnly
    /\ \A c \in Cases : <<c, "failed">> \notin ran[a]

CalmJobs ==
    /\ \A a \in Assignments :
          /\ job[a] # "failure"
          /\ job[a] = "success" => session[a].event = "finish"
          /\ session[a].event = "finish" =>
                session[a].exit = IF session[a].corpus = {} THEN 5 ELSE 0
    /\ reference # "failure"
    /\ reference = "success" => \A a \in Assignments : parts[a].done
    /\ nativeJob # "failure"
    /\ nativeJob = "success" => native = NativeOnly

CalmInv ==
    /\ ~trouble => CalmJobs /\ \A a \in Assignments : CalmSession(a)
    /\ RejectsOnlyTrouble

\* A step of a job that nothing happens to, and of the reference, keeps the
\* sessions so.
LEMMA CalmSessionStep ==
    ASSUME IInv, \A a \in Assignments : CalmSession(a), Next, ~trouble',
           NEW b \in Assignments
    PROVE  CalmSession(b)'
<1> USE DEF CalmSession
<1>1. ASSUME NEW a \in Assignments, Start(a) PROVE CalmSession(b)'
  <2>1. /\ UNCHANGED <<ran, parts>> /\ session' = [session EXCEPT ![a].event = "start"]
    BY <1>1 DEF Start
  <2>2. CASE a = b
    <3>1. session'[b] = [session[b] EXCEPT !.event = "start"]
      BY <2>1, <2>2 DEF IInv, TypeOK
    <3>2. session'[b].event = "start" /\ session'[b].lost = session[b].lost
          /\ session'[b].reported = session[b].reported
          /\ session'[b].skipped = session[b].skipped
      BY <3>1 DEF IInv, TypeOK, Sessions
    <3> QED
      BY <2>1, <3>2
  <2>3. CASE a # b
    BY <2>1, <2>3 DEF IInv, TypeOK
  <2> QED
    BY <2>2, <2>3
<1>2. ASSUME NEW a \in Assignments, Collect(a) PROVE CalmSession(b)'
  <2>1. PICK skips \in SUBSET (Assigned(a) \cap MaySkip), missed \in SUBSET Unstable :
           /\ session' = [session EXCEPT ![a].event = "corpus",
                            ![a].corpus = Collected(Assigned(a), skips, missed),
                            ![a].skips = skips]
           /\ trouble' = (trouble \/ ~Expected(skips, missed)
                                  \/ (parts[a].done /\ parts[a].skips # skips))
    BY <1>2 DEF Collect
  <2>2. UNCHANGED <<ran, parts>>
    BY <1>2 DEF Collect
  <2>3. Expected(skips, missed) /\ (parts[a].done => parts[a].skips = skips)
    BY <2>1
  <2>4. CASE a = b
    <3>1. session'[b] = [session[b] EXCEPT !.event = "corpus",
             !.corpus = Collected(Assigned(b), skips, missed), !.skips = skips]
      BY <2>1, <2>4 DEF IInv, TypeOK
    <3>2. session'[b].event = "corpus" /\ session'[b].skips = skips
          /\ session'[b].corpus = Collected(Assigned(b), skips, missed)
          /\ session'[b].lost = session[b].lost
          /\ session'[b].reported = session[b].reported
          /\ session'[b].skipped = session[b].skipped
      BY <3>1 DEF IInv, TypeOK, Sessions
    <3>3. Collected(Assigned(b), skips, missed) = CasesIn(Assigned(b) \ skips)
      BY <2>3 DEF Collected, Expected
    <3> QED
      BY <2>2, <2>3, <2>4, <3>2, <3>3 DEF Expected
  <2>5. CASE a # b
    BY <2>1, <2>2, <2>5 DEF IInv, TypeOK
  <2> QED
    BY <2>4, <2>5
<1>3. ASSUME NEW a \in Assignments, NEW c \in Cases, NEW r \in Results, RunCase(a, c, r)
      PROVE  CalmSession(b)'
  <2>1. PICK phases \in BOOLEAN, outcome \in BOOLEAN :
           /\ session' = [session EXCEPT
                ![a].reported = IF phases THEN @ \cup {c} ELSE @,
                ![a].skipped = IF outcome /\ r = "skipped" THEN @ \cup {c} ELSE @,
                ![a].lost = @ \/ ~phases \/ ~outcome]
           /\ trouble' = (trouble \/ ~phases \/ ~outcome \/ r = "failed"
                              \/ (r = "skipped" /\ c \notin Reviewed \cup NativeOnly))
    BY <1>3 DEF RunCase
  <2>2. UNCHANGED parts /\ ran' = [ran EXCEPT ![a] = @ \cup {<<c, r>>}]
    BY <1>3 DEF RunCase
  <2>3. phases /\ outcome /\ r # "failed" /\ (r = "skipped" => c \in Reviewed \cup NativeOnly)
    BY <2>1
  <2>4. CASE a = b
    <3>1. session'[b].event = session[b].event /\ session'[b].corpus = session[b].corpus
          /\ session'[b].skips = session[b].skips
          /\ session'[b].reported = session[b].reported \cup {c}
          /\ session'[b].skipped = IF r = "skipped" THEN session[b].skipped \cup {c}
                                   ELSE session[b].skipped
      BY <2>1, <2>3, <2>4 DEF IInv, TypeOK, Sessions
    <3>2. ~session'[b].lost
      <4>1. session'[b].lost = (session[b].lost \/ ~phases \/ ~outcome)
        BY <2>1, <2>4 DEF IInv, TypeOK, Sessions
      <4> QED
        BY <2>3, <4>1
    <3>3. ran'[b] = ran[b] \cup {<<c, r>>}
      BY <2>2, <2>4 DEF IInv, TypeOK
    <3>4. {d \in Cases : \E q \in Results : <<d, q>> \in ran'[b]}
             = {d \in Cases : \E q \in Results : <<d, q>> \in ran[b]} \cup {c}
      BY <3>3
    <3> QED
      BY <2>2, <2>3, <3>1, <3>2, <3>3, <3>4
  <2>5. CASE a # b
    BY <2>1, <2>2, <2>5 DEF IInv, TypeOK
  <2> QED
    BY <2>4, <2>5
<1>4. ASSUME NEW a \in Assignments, Finish(a) PROVE CalmSession(b)'
  <2>1. /\ session' = [session EXCEPT ![a].event = "finish", ![a].exit = ExitOf(a)]
        /\ session[a].event = "corpus" /\ UNCHANGED <<ran, parts>>
    BY <1>4 DEF Finish
  <2>2. CASE a = b
    <3>1. session'[b] = [session[b] EXCEPT !.event = "finish", !.exit = ExitOf(b)]
      BY <2>1, <2>2 DEF IInv, TypeOK
    <3>2. session'[b].event = "finish" /\ session'[b].skips = session[b].skips
          /\ session'[b].corpus = session[b].corpus /\ session'[b].lost = session[b].lost
          /\ session'[b].reported = session[b].reported
          /\ session'[b].skipped = session[b].skipped
      BY <3>1 DEF IInv, TypeOK, Sessions
    <3> QED
      BY <2>1, <2>2, <3>2
  <2>3. CASE a # b
    BY <2>1, <2>3 DEF IInv, TypeOK
  <2> QED
    BY <2>2, <2>3
<1>5. ASSUME NEW a \in Assignments, CollectPart(a) PROVE CalmSession(b)'
  <2>1. PICK skips \in SUBSET (Assigned(a) \cap MaySkip), missed \in SUBSET Unstable :
           /\ parts' = [parts EXCEPT ![a] =
                [done |-> TRUE, corpus |-> Collected(Assigned(a), skips, missed),
                 skips |-> skips]]
           /\ trouble' = (trouble \/ ~Expected(skips, missed)
                 \/ (session[a].event \in {"corpus", "finish"} /\ session[a].skips # skips))
    BY <1>5 DEF CollectPart
  <2>2. UNCHANGED <<ran, session>>
    BY <1>5 DEF CollectPart
  <2>3. Collected(Assigned(a), skips, missed) = CasesIn(Assigned(a) \ skips)
    BY <2>1 DEF Collected, Expected
  <2> QED
    BY <2>1, <2>2, <2>3 DEF IInv, TypeOK
<1>6. ASSUME UNCHANGED <<session, ran, parts>> PROVE CalmSession(b)'
  BY <1>6
<1> QED
  BY <1>1, <1>2, <1>3, <1>4, <1>5, <1>6 DEF Next, Interrupt, StartReference, EndReference,
     InterruptReference, EndNative, Join

\* The corpora of two parts that missed nothing have no case in common.
LEMMA CorporaDisjoint ==
    ASSUME NEW a \in Assignments, NEW b \in Assignments, a # b, NEW some, NEW others
    PROVE  CasesIn(Assigned(a) \ some) \cap CasesIn(Assigned(b) \ others) = {}
<1> SUFFICES ASSUME NEW m \in Assigned(a), NEW n \in Assigned(b),
                    NEW c \in CasesOf[m] \cap CasesOf[n]
             PROVE  FALSE
  BY DEF CasesIn
<1>1. m \in Modules /\ n \in Modules /\ m # n
  BY AssignedType, PlanPartitions DEF PlanValid
<1> QED
  BY <1>1, CorpusAssumption

\* No job of such a run fails.
LEMMA CalmJobsStep ==
    ASSUME FloorReachable, IInv, CalmJobs, \A a \in Assignments : CalmSession(a),
           Next, ~trouble'
    PROVE  CalmJobs'
<1> USE DEF CalmJobs
<1>1. ASSUME NEW a \in Assignments, Start(a) \/ Collect(a) PROVE CalmJobs'
  <2>1. job \in [Assignments -> JobStates] /\ session \in [Assignments -> Sessions]
    BY DEF IInv, TypeOK
  <2>2. UNCHANGED <<reference, parts, nativeJob, native>>
    BY <1>1 DEF Start, Collect
  <2>3. \A b \in Assignments \ {a} : job'[b] = job[b] /\ session'[b] = session[b]
    BY <1>1, <2>1 DEF Start, Collect
  <2>4. job'[a] = "running"
    BY <1>1, <2>1 DEF Start, Collect
  <2>5. session'[a].event \in {"start", "corpus"}
    <3>1. CASE Start(a)
      BY <2>1, <3>1 DEF Start, Sessions
    <3>2. CASE Collect(a)
      BY <2>1, <3>2 DEF Collect, Sessions
    <3> QED
      BY <1>1, <3>1, <3>2
  <2> QED
    BY <2>2, <2>3, <2>4, <2>5
<1>2. ASSUME NEW a \in Assignments, NEW c \in Cases, NEW r \in Results, RunCase(a, c, r)
      PROVE  CalmJobs'
  <2>1. /\ UNCHANGED <<job, reference, parts, nativeJob, native>>
        /\ session[a].event = "corpus" /\ session'[a].event = session[a].event
        /\ \A b \in Assignments \ {a} : session'[b] = session[b]
    BY <1>2 DEF RunCase, IInv, TypeOK, Sessions
  <2> QED
    BY <2>1
<1>3. ASSUME NEW a \in Assignments, Finish(a) PROVE CalmJobs'
  <2>1. ExitOf(a) = IF session[a].corpus = {} THEN 5 ELSE 0
    BY DEF CalmSession, ExitOf
  <2>2. /\ UNCHANGED <<reference, parts, nativeJob, native>>
        /\ job' = [job EXCEPT ![a] = IF ExitOf(a) = 1 THEN "failure" ELSE "success"]
        /\ session' = [session EXCEPT ![a] =
                          [session[a] EXCEPT !.event = "finish", !.exit = ExitOf(a)]]
    BY <1>3 DEF Finish
  <2>3. session'[a].event = "finish" /\ session'[a].exit = ExitOf(a)
        /\ session'[a].corpus = session[a].corpus
    BY <2>2 DEF IInv, TypeOK, Sessions
  <2>4. \A b \in Assignments \ {a} : job'[b] = job[b] /\ session'[b] = session[b]
    BY <2>2 DEF IInv, TypeOK
  <2>5. job'[a] = "success"
    BY <2>1, <2>2 DEF IInv, TypeOK
  <2> QED
    BY <2>1, <2>2, <2>3, <2>4, <2>5
<1>4. ASSUME NEW a \in Assignments, CollectPart(a) PROVE CalmJobs'
  BY <1>4 DEF CollectPart, IInv, TypeOK, Collections
<1>5. CASE EndReference
  <2>1. \A a, b \in Assignments : a # b => parts[a].corpus \cap parts[b].corpus = {}
    <3> SUFFICES ASSUME NEW a \in Assignments, NEW b \in Assignments, a # b
                 PROVE  parts[a].corpus \cap parts[b].corpus = {}
      OBVIOUS
    <3>1. parts[a].corpus = CasesIn(Assigned(a) \ parts[a].skips)
          /\ parts[b].corpus = CasesIn(Assigned(b) \ parts[b].skips)
      BY <1>5 DEF EndReference, CalmSession
    <3>2. CasesIn(Assigned(a) \ parts[a].skips) \cap CasesIn(Assigned(b) \ parts[b].skips) = {}
      BY CorporaDisjoint, Zenon
    <3> QED
      BY <3>1, <3>2
  <2> QED
    BY <1>5, <2>1 DEF EndReference
<1>6. CASE EndNative
  <2>1. PICK passed \in SUBSET NativeOnly :
           /\ native' = passed
           /\ nativeJob' = IF Cardinality(passed) >= Floor THEN "success" ELSE "failure"
           /\ trouble' = (trouble \/ passed # NativeOnly)
    BY <1>6 DEF EndNative
  <2>2. passed = NativeOnly /\ Cardinality(passed) >= Floor
    BY <2>1 DEF FloorReachable
  <2> QED
    BY <1>6, <2>1, <2>2 DEF EndNative
<1>7. CASE StartReference \/ Join
  BY <1>7 DEF StartReference, Join
<1>8. ASSUME \/ \E a \in Assignments : Interrupt(a)
             \/ InterruptReference
      PROVE  FALSE
  BY <1>8 DEF Interrupt, InterruptReference
<1> QED
  BY <1>1, <1>2, <1>3, <1>4, <1>5, <1>6, <1>7, <1>8 DEF Next

\* join() finds nothing to object to in it.
LEMMA CalmAccepts ==
    ASSUME IInv, CalmJobs, \A a \in Assignments : CalmSession(a), JobsOver
    PROVE  PlanValid /\ JobsSucceeded /\ CorpusComplete /\ SkipsAdmitted
<1>1. JobsSucceeded
  BY DEF JobsOver, JobsSucceeded, CalmJobs
<1>2. \A a \in Assignments : parts[a].done /\ session[a].event = "finish"
  BY <1>1 DEF JobsSucceeded, CalmJobs
<1>3. \A a \in Assignments :
         /\ session[a].corpus = CasesIn(Assigned(a) \ session[a].skips)
         /\ parts[a].corpus = session[a].corpus /\ parts[a].skips = session[a].skips
         /\ session[a].skips \subseteq ReviewedModules
  BY <1>2 DEF CalmSession
<1>4. UNION {session[a].corpus : a \in Assignments} = ReferenceCorpus
  BY <1>3 DEF ReferenceCorpus
<1>5. \A a, b \in Assignments : a # b => session[a].corpus \cap session[b].corpus = {}
  <2> SUFFICES ASSUME NEW a \in Assignments, NEW b \in Assignments, a # b
               PROVE  session[a].corpus \cap session[b].corpus = {}
    OBVIOUS
  <2>1. CasesIn(Assigned(a) \ session[a].skips) \cap CasesIn(Assigned(b) \ session[b].skips)
           = {}
    BY CorporaDisjoint, Zenon
  <2> QED
    BY <1>3, <2>1
<1>6. ASSUME NEW a \in Assignments
      PROVE  SessionComplete(a)
  <2>1. session[a].corpus \subseteq CasesIn(Assigned(a))
    BY <1>3 DEF CasesIn
  <2>2. ExpectedEmpty(a) <=> session[a].corpus = {}
    <3>1. session[a].corpus \subseteq ReferenceCorpus
      BY <1>4
    <3>2. \A b \in Assignments : b # a =>
             session[b].corpus \cap CasesIn(Assigned(a)) = {}
      <4> SUFFICES ASSUME NEW b \in Assignments, b # a
                   PROVE  session[b].corpus \cap CasesIn(Assigned(a)) = {}
        OBVIOUS
      <4>1. CasesIn(Assigned(a) \ {}) = CasesIn(Assigned(a))
        BY DEF CasesIn
      <4>2. CasesIn(Assigned(b) \ session[b].skips) \cap CasesIn(Assigned(a) \ {}) = {}
        BY CorporaDisjoint, Zenon
      <4> QED
        BY <1>3, <4>1, <4>2
    <3>3. ReferenceCorpus \cap CasesIn(Assigned(a)) = session[a].corpus
      BY <1>4, <2>1, <3>1, <3>2
    <3> QED
      BY <3>3 DEF ExpectedEmpty
  <2>3. session[a].exit = IF ExpectedEmpty(a) /\ session[a].corpus = {} THEN 5 ELSE 0
    BY <1>2, <2>2 DEF CalmJobs
  <2>4. session[a].reported = session[a].corpus
    <3>1. \A c \in session[a].corpus : \E r \in Results : <<c, r>> \in ran[a]
      BY <1>2 DEF IInv, RanInv, Over
    <3>2. \A c \in Cases, r \in Results : <<c, r>> \in ran[a] => c \in session[a].corpus
      BY DEF IInv, RanInv
    <3>3. session[a].corpus \subseteq Cases
      BY DEF IInv, TypeOK, Sessions
    <3> QED
      BY <3>1, <3>2, <3>3 DEF CalmSession
  <2> QED
    BY <1>2, <2>1, <2>3, <2>4 DEF SessionComplete, CalmSession
<1>7. SkipsAdmitted
  <2>1. native = NativeOnly
    BY <1>1 DEF JobsSucceeded, CalmJobs
  <2> QED
    BY <1>3, <2>1 DEF SkipsAdmitted, CalmSession
<1> QED
  BY <1>1, <1>4, <1>5, <1>6, <1>7, PlanPartitions DEF CorpusComplete

\* Trouble is not forgotten, and only join() turns a run down.
LEMMA CalmStep ==
    ASSUME FloorReachable, IInv, CalmInv, [Next]_vars
    PROVE  CalmInv'
<1>1. ASSUME NEW a \in Assignments,
             \/ Start(a) \/ Collect(a) \/ Finish(a) \/ Interrupt(a) \/ CollectPart(a)
             \/ \E c \in Cases, r \in Results : RunCase(a, c, r)
      PROVE  (trouble => trouble') /\ UNCHANGED verdict
  <2>1. CASE Start(a) \/ Finish(a) \/ Interrupt(a)
    BY <2>1 DEF Start, Finish, Interrupt
  <2>2. CASE Collect(a)
    BY <2>2 DEF Collect
  <2>3. CASE CollectPart(a)
    BY <2>3 DEF CollectPart
  <2>4. CASE \E c \in Cases, r \in Results : RunCase(a, c, r)
    BY <2>4 DEF RunCase
  <2> QED
    BY <1>1, <2>1, <2>2, <2>3, <2>4
<1>2. CASE StartReference \/ EndReference \/ InterruptReference \/ EndNative
  <2>1. (trouble => trouble') /\ UNCHANGED verdict
    <3>1. CASE StartReference \/ EndReference \/ InterruptReference
      BY <3>1 DEF StartReference, EndReference, InterruptReference
    <3>2. CASE EndNative
      BY <3>2 DEF EndNative
    <3> QED
      BY <1>2, <3>1, <3>2
  <2> QED
    BY <1>2, <2>1, CalmJobsStep, CalmSessionStep DEF Next, CalmInv, RejectsOnlyTrouble
<1>3. CASE Join
  <2>1. UNCHANGED trouble /\ JobsOver /\ verdict' \in {"accepted", "rejected"}
        /\ (PlanValid /\ JobsSucceeded /\ CorpusComplete /\ SkipsAdmitted
               => verdict' = "accepted")
    BY <1>3 DEF Join
  <2>2. ~trouble => CalmJobs' /\ \A a \in Assignments : CalmSession(a)'
    BY <1>3, <2>1, CalmJobsStep, CalmSessionStep DEF Next, CalmInv
  <2>3. RejectsOnlyTrouble'
    BY <2>1, CalmAccepts DEF CalmInv, RejectsOnlyTrouble
  <2> QED
    BY <2>1, <2>2, <2>3 DEF CalmInv
<1>4. ASSUME NEW a \in Assignments,
             \/ Start(a) \/ Collect(a) \/ Finish(a) \/ Interrupt(a) \/ CollectPart(a)
             \/ \E c \in Cases, r \in Results : RunCase(a, c, r)
      PROVE  CalmInv'
  <2>1. Next
    BY <1>4 DEF Next
  <2> QED
    BY <1>1, <1>4, <2>1, CalmJobsStep, CalmSessionStep DEF CalmInv, RejectsOnlyTrouble
<1>5. CASE UNCHANGED vars
  BY <1>5 DEF vars, CalmInv, CalmJobs, CalmSession, RejectsOnlyTrouble
<1> QED
  BY <1>2, <1>3, <1>4, <1>5 DEF Next

\* A run is not turned down unless something was interrupted, lost, missed,
\* failed or skipped without review: the evidence of a good run is always good.
THEOREM GoodRunsPass ==
    ASSUME FloorReachable
    PROVE  Spec => []RejectsOnlyTrouble
<1>1. Init => CalmInv
  BY DEF Init, CalmInv, CalmJobs, CalmSession, NoSession, NoCollection, RejectsOnlyTrouble
<1>2. IInv /\ CalmInv /\ [Next]_vars => CalmInv'
  BY CalmStep
<1>3. CalmInv => RejectsOnlyTrouble
  BY DEF CalmInv
<1> QED
  BY InitInv, InvStep, <1>1, <1>2, <1>3, PTL DEF Spec
-----------------------------------------------------------------------------
LEMMA LeastNumber ==
    ASSUME NEW T, T \subseteq Nat, T # {}
    PROVE  \E x \in T : \A y \in T : x <= y
<1>1. PICK x \in T : \A y \in T : ~ (<<y, x>> \in OpToRel(<, Nat))
  BY NatLessThanWellFounded, WFMin, Zenon
<1>2. \A y \in T : ~ (y < x)
  BY <1>1 DEF OpToRel
<1> QED
  BY <1>2

-----------------------------------------------------------------------------
(* The reviews of shared inputs.                                           *)

Rule(i) == R!Reviews[i].rule
Of(i) == R!Reviews[i].paths

\* The historical reviews come first, then the one of the estate, which alone
\* has the helper; native reviews have inputs of their own.
ReviewsShape ==
    /\ Len(R!Reviews) \in Nat /\ R!All = 1..Len(R!Reviews)
    /\ {R!Estate - 1, R!Estate, R!Retirement} \subseteq R!All /\ R!Estate < R!Retirement
    /\ \A i \in R!All :
          /\ Rule(i) \in {"historical", "estate", "successor", "guard", "hook", "lasting",
                          "membership", "first", "offline", "helper", "merged", "sidecar",
                          "native", "retired"}
          /\ Of(i) = {} <=> Rule(i) = "retired"
          /\ Rule(i) = "historical" <=> i < R!Estate
          /\ Rule(i) = "estate" <=> i = R!Estate
          /\ R!Template \in Of(i) <=> i = R!Estate
    /\ \A i, j \in R!All :
          Rule(i) = "native" /\ Of(i) \cap Of(j) # {} => Rule(j) = "native"

LEMMA ReviewsHaveShape == ReviewsShape
<1>1. Len(R!Reviews) = 32 /\ R!All = 1..32
  BY DEF R!Reviews, R!All
<1>2. 1..32 = {1, 2, 3, 4, 5, 6, 7, 8, 9, 10, 11, 12, 13, 14, 15, 16, 17, 18, 19, 20, 21,
               22, 23, 24, 25, 26, 27, 28, 29, 30, 31, 32}
  OBVIOUS
<1>3.
    /\ R!Reviews[1] = R!FrontendLock /\ R!Reviews[2] = R!PythonInputs
    /\ R!Reviews[3] = R!FrontendSecurity /\ R!Reviews[4] = R!MiniappSecurity
    /\ R!Reviews[5] = R!W85Inputs /\ R!Reviews[6] = R!W85Observability
    /\ R!Reviews[7] = R!AuditDependency /\ R!Reviews[8] = R!ZodLock
    /\ R!Reviews[9] = R!ScannerInput /\ R!Reviews[10] = R!EstateInputs
    /\ R!Reviews[11] = R!AuditLock /\ R!Reviews[12] = R!RuntimeDependency
    /\ R!Reviews[13] = R!Tornado66 /\ R!Reviews[14] = R!OpsPackaging
    /\ R!Reviews[15] = R!BotPackaging /\ R!Reviews[16] = R!SiteLock
    /\ R!Reviews[17] = R!HangGuard /\ R!Reviews[18] = R!RequiredNative
    /\ R!Reviews[19] = R!NativeSuccessor /\ R!Reviews[20] = R!CollectionShuffle
    /\ R!Reviews[21] = R!NpmSecurity /\ R!Reviews[22] = R!MiniappMembership
    /\ R!Reviews[23] = R!FirstNativeHelper /\ R!Reviews[24] = R!P015Helper
    /\ R!Reviews[25] = R!NativeProtocol /\ R!Reviews[26] = R!Pr122
    /\ R!Reviews[27] = R!Pr256 /\ R!Reviews[28] = R!PrDatabase
    /\ R!Reviews[29] = R!PrSite /\ R!Reviews[30] = R!PrDeploy
    /\ R!Reviews[31] = R!PrProject /\ R!Reviews[32] = R!TemplateRetirement
  BY DEF R!Reviews
<1>4.
    /\ R!Reviews[1].rule = "historical" /\ R!Reviews[2].rule = "historical"
    /\ R!Reviews[3].rule = "historical" /\ R!Reviews[4].rule = "historical"
    /\ R!Reviews[5].rule = "historical" /\ R!Reviews[6].rule = "historical"
    /\ R!Reviews[7].rule = "historical" /\ R!Reviews[8].rule = "historical"
    /\ R!Reviews[9].rule = "historical" /\ R!Reviews[10].rule = "estate"
    /\ R!Reviews[11].rule = "successor" /\ R!Reviews[12].rule = "successor"
    /\ R!Reviews[13].rule = "successor" /\ R!Reviews[14].rule = "successor"
    /\ R!Reviews[15].rule = "successor" /\ R!Reviews[16].rule = "successor"
    /\ R!Reviews[17].rule = "guard" /\ R!Reviews[18].rule = "native"
    /\ R!Reviews[19].rule = "native" /\ R!Reviews[20].rule = "hook"
    /\ R!Reviews[21].rule = "lasting" /\ R!Reviews[22].rule = "membership"
    /\ R!Reviews[23].rule = "first" /\ R!Reviews[24].rule = "offline"
    /\ R!Reviews[25].rule = "helper" /\ R!Reviews[26].rule = "merged"
    /\ R!Reviews[27].rule = "merged" /\ R!Reviews[28].rule = "sidecar"
    /\ R!Reviews[29].rule = "sidecar" /\ R!Reviews[30].rule = "sidecar"
    /\ R!Reviews[31].rule = "sidecar" /\ R!Reviews[32].rule = "retired"
  BY <1>3 DEF
       R!FrontendLock, R!PythonInputs, R!FrontendSecurity, R!MiniappSecurity,
       R!W85Inputs, R!W85Observability, R!AuditDependency, R!ZodLock,
       R!ScannerInput, R!EstateInputs, R!SiteLock, R!BotPackaging, R!AuditLock,
       R!RuntimeDependency, R!HangGuard, R!Tornado66, R!RequiredNative,
       R!OpsPackaging, R!CollectionShuffle, R!NpmSecurity, R!NativeSuccessor,
       R!MiniappMembership, R!FirstNativeHelper, R!P015Helper, R!NativeProtocol,
       R!Pr122, R!Pr256, R!PrDatabase, R!PrSite, R!PrDeploy, R!PrProject,
       R!TemplateRetirement, R!Seal
<1>5. \A i \in 1..32 : R!Template \in Of(i) <=> i = 10
  BY <1>2, <1>3 DEF Of, R!Template,
       R!FrontendLock, R!PythonInputs, R!FrontendSecurity, R!MiniappSecurity,
       R!W85Inputs, R!W85Observability, R!AuditDependency, R!ZodLock,
       R!ScannerInput, R!EstateInputs, R!SiteLock, R!BotPackaging, R!AuditLock,
       R!RuntimeDependency, R!HangGuard, R!Tornado66, R!RequiredNative,
       R!OpsPackaging, R!CollectionShuffle, R!NpmSecurity, R!NativeSuccessor,
       R!MiniappMembership, R!FirstNativeHelper, R!P015Helper, R!NativeProtocol,
       R!Pr122, R!Pr256, R!PrDatabase, R!PrSite, R!PrDeploy, R!PrProject,
       R!TemplateRetirement, R!Seal
<1>6. \A i \in 1..32 : "tests/native_loadshed_installer.py" \in Of(i) <=> i \in {18, 19}
  BY <1>2, <1>3 DEF Of, R!Template,
       R!FrontendLock, R!PythonInputs, R!FrontendSecurity, R!MiniappSecurity,
       R!W85Inputs, R!W85Observability, R!AuditDependency, R!ZodLock,
       R!ScannerInput, R!EstateInputs, R!SiteLock, R!BotPackaging, R!AuditLock,
       R!RuntimeDependency, R!HangGuard, R!Tornado66, R!RequiredNative,
       R!OpsPackaging, R!CollectionShuffle, R!NpmSecurity, R!NativeSuccessor,
       R!MiniappMembership, R!FirstNativeHelper, R!P015Helper, R!NativeProtocol,
       R!Pr122, R!Pr256, R!PrDatabase, R!PrSite, R!PrDeploy, R!PrProject,
       R!TemplateRetirement, R!Seal
<1>7. /\ Of(18) = {"tests/native_loadshed_installer.py"}
      /\ Of(19) = {"tests/native_loadshed_installer.py"}
  BY <1>3 DEF Of, R!RequiredNative, R!NativeSuccessor, R!Seal
<1>8. \A i \in 1..32 : Of(i) = {} <=> i = 32
  BY <1>2, <1>3 DEF Of,
       R!FrontendLock, R!PythonInputs, R!FrontendSecurity, R!MiniappSecurity,
       R!W85Inputs, R!W85Observability, R!AuditDependency, R!ZodLock,
       R!ScannerInput, R!EstateInputs, R!SiteLock, R!BotPackaging, R!AuditLock,
       R!RuntimeDependency, R!HangGuard, R!Tornado66, R!RequiredNative,
       R!OpsPackaging, R!CollectionShuffle, R!NpmSecurity, R!NativeSuccessor,
       R!MiniappMembership, R!FirstNativeHelper, R!P015Helper, R!NativeProtocol,
       R!Pr122, R!Pr256, R!PrDatabase, R!PrSite, R!PrDeploy, R!PrProject,
       R!TemplateRetirement, R!Seal
<1> HIDE <1>3
<1>9. R!Estate = 10 /\ R!Retirement = 32
  <2>1. \A i \in 1..32 : R!Reviews[i].rule = "estate" <=> i = 10
    BY <1>2, <1>4
  <2>2. \A i \in 1..32 : R!Reviews[i].rule = "retired" <=> i = 32
    BY <1>2, <1>4
  <2> QED
    BY <1>1, <2>1, <2>2 DEF R!Estate, R!Retirement
<1>10. \A i \in 1..32 :
          /\ Rule(i) \in {"historical", "estate", "successor", "guard", "hook", "lasting",
                          "membership", "first", "offline", "helper", "merged", "sidecar",
                          "native", "retired"}
          /\ Rule(i) = "retired" <=> i = 32
          /\ Rule(i) = "historical" <=> i < 10
          /\ Rule(i) = "estate" <=> i = 10
          /\ Rule(i) = "native" <=> i \in {18, 19}
  BY <1>2, <1>4 DEF Rule
<1>11. \A i, j \in 1..32 : Rule(i) = "native" /\ Of(i) \cap Of(j) # {} => Rule(j) = "native"
  BY <1>6, <1>7, <1>10
<1> QED
  BY <1>1, <1>5, <1>8, <1>9, <1>10, <1>11 DEF ReviewsShape

-----------------------------------------------------------------------------
(* The blobs a path has had.                                               *)

Touched(p, n) == {j \in 1..n : p \in Of(j)}

LEMMA SameCardinality == \A S : R!Cardinality(S) = Cardinality(S)
BY Zenon DEF R!Cardinality, Cardinality

\* A path has more blobs after the review that touches it.
LEMMA BlobsGrow ==
    ASSUME ReviewsShape, NEW m \in 0..Len(R!Reviews), NEW n \in 0..m, NEW p \in R!Paths
    PROVE  /\ R!Blobs[n][p] \in Nat /\ R!Blobs[m][p] \in Nat
           /\ R!Blobs[n][p] <= R!Blobs[m][p]
           /\ n # m /\ p \in Of(m) => R!Blobs[n][p] < R!Blobs[m][p]
<1>1. Len(R!Reviews) \in Nat /\ m \in Nat /\ n \in Nat /\ n \in 0..Len(R!Reviews)
  BY DEF ReviewsShape
<1>2. /\ R!Blobs[n][p] = Cardinality(Touched(p, n))
      /\ R!Blobs[m][p] = Cardinality(Touched(p, m))
  <2>1. R!Blobs = [k \in 0..Len(R!Reviews) |-> [q \in R!Paths |-> Cardinality(Touched(q, k))]]
    BY SameCardinality DEF R!Blobs, Touched, Of
  <2> QED
    BY <1>1, <2>1
<1>3. IsFiniteSet(1..m)
  BY <1>1, FS_Interval
<1>4. IsFiniteSet(Touched(p, m))
  BY <1>3, FS_Subset DEF Touched
<1>5. Touched(p, n) \subseteq Touched(p, m)
  BY <1>1 DEF Touched
<1>6. n # m /\ p \in Of(m) => m \in Touched(p, m) /\ m \notin Touched(p, n)
  BY <1>1 DEF Touched
<1>7. /\ IsFiniteSet(Touched(p, n))
      /\ Cardinality(Touched(p, n)) <= Cardinality(Touched(p, m))
      /\ Cardinality(Touched(p, n)) = Cardinality(Touched(p, m)) => Touched(p, n) = Touched(p, m)
  BY <1>4, <1>5, FS_Subset
<1>8. Cardinality(Touched(p, n)) \in Nat /\ Cardinality(Touched(p, m)) \in Nat
  BY <1>4, <1>7, FS_CardinalityType
<1> QED
  BY <1>2, <1>6, <1>7, <1>8

LEMMA PathsOf == ASSUME NEW i \in R!All, NEW p \in Of(i) PROVE p \in R!Paths
BY DEF R!Paths, Of

-----------------------------------------------------------------------------
(* Undoing the reviews.                                                    *)

\* What is left of some inputs when review i is undone.
Peel(outer, i) ==
    IF i = R!Estate /\ outer[R!Template] = 0 THEN outer
    ELSE IF R!Carries(outer, i) THEN R!Undo(outer, i) ELSE outer

\* The layers from review n on.
IsPeeling(f, inputs, n) ==
    f = [i \in n..Len(R!Reviews) |->
           IF i = Len(R!Reviews) THEN inputs ELSE Peel(f[i + 1], i + 1)]

LEMMA PeelingExists ==
    ASSUME ReviewsShape, NEW inputs
    PROVE  \E f : IsPeeling(f, inputs, 1)
<1> DEFINE len == Len(R!Reviews)
           without == {k \in 0..(len - 1) : ~\E f : IsPeeling(f, inputs, len - k)}
<1>1. len \in Nat /\ len >= 1
  BY DEF ReviewsShape
<1>2. SUFFICES ASSUME without # {} PROVE FALSE
  <2>1. len - 1 \in 0..(len - 1) /\ len - (len - 1) = 1
    BY <1>1
  <2> HIDE DEF len
  <2> QED
    BY <2>1
<1>3. PICK k \in without : \A j \in without : k <= j
  <2>1. without \subseteq Nat
    BY <1>1
  <2> HIDE DEF without
  <2> QED
    BY <1>2, <2>1, LeastNumber
<1>4. k # 0
  <2>1. IsPeeling([i \in len..len |-> inputs], inputs, len)
    BY <1>1 DEF IsPeeling
  <2>2. len - 0 = len
    BY <1>1
  <2> QED
    BY <2>1, <2>2
<1>5. k - 1 \in 0..(len - 1) /\ k - 1 \notin without /\ len - (k - 1) = len - k + 1
  <2>1. k \in 0..(len - 1)
    OBVIOUS
  <2>2. k \in Nat /\ k - 1 \in 0..(len - 1) /\ len - (k - 1) = len - k + 1 /\ ~(k <= k - 1)
    BY <1>1, <1>4, <2>1
  <2> HIDE DEF without
  <2> QED
    BY <1>3, <2>2
<1>6. PICK f : IsPeeling(f, inputs, len - k + 1)
  BY <1>5
<1> DEFINE n == len - k
           g == [i \in n..len |-> IF i = n THEN Peel(f[i + 1], i + 1) ELSE f[i]]
<1>7. n \in 1..(len - 1)
  BY <1>1, <1>4
<1>8. \A i \in (n + 1)..len : f[i] = IF i = len THEN inputs ELSE Peel(f[i + 1], i + 1)
  BY <1>6, <1>7 DEF IsPeeling
<1>9. ASSUME NEW i \in n..len
      PROVE  g[i] = IF i = len THEN inputs ELSE Peel(g[i + 1], i + 1)
  <2>1. CASE i = n
    BY <1>1, <1>7, <2>1
  <2>2. CASE i # n
    <3>1. i \in (n + 1)..len /\ g[i] = f[i]
      BY <1>7, <2>2
    <3>2. i # len => g[i + 1] = f[i + 1]
      BY <1>7, <3>1
    <3> HIDE DEF g, n, len
    <3> QED
      BY <1>8, <3>1, <3>2
  <2> QED
    BY <2>1, <2>2
<1>10. IsPeeling(g, inputs, n)
  <2>1. g = [i \in n..len |-> g[i]]
    OBVIOUS
  <2> HIDE DEF g, n
  <2> QED
    BY <1>9, <2>1 DEF IsPeeling
<1> QED
  <2> HIDE DEF g
  <2> QED
    BY <1>3, <1>10

\* admit_shared_inputs(): each review sees the inputs with all outer ones undone.
LEMMA PeeledLayers ==
    ASSUME ReviewsShape, NEW inputs
    PROVE  /\ R!Peeled(inputs)[Len(R!Reviews)] = inputs
           /\ \A i \in R!All : i # Len(R!Reviews) =>
                 R!Peeled(inputs)[i] = Peel(R!Peeled(inputs)[i + 1], i + 1)
<1> DEFINE P(f) == f = [i \in R!All |->
               IF i = Len(R!Reviews) THEN inputs
               ELSE LET outer == f[i + 1] IN
                    IF i + 1 = R!Estate /\ outer[R!Template] = 0 THEN outer
                    ELSE IF R!Carries(outer, i + 1) THEN R!Undo(outer, i + 1) ELSE outer]
           seen == CHOOSE f : P(f)
<1>1. \E f : P(f)
  <2>1. PICK f : IsPeeling(f, inputs, 1)
    BY PeelingExists
  <2>2. P(f)
    BY <2>1 DEF IsPeeling, Peel, ReviewsShape
  <2> QED
    BY <2>2
<1>2. P(seen)
  <2> HIDE DEF P
  <2> QED
    BY <1>1, Zenon
<1>3. R!Peeled(inputs) = seen
  BY Zenon DEF R!Peeled
<1> HIDE DEF seen
<1>4. Len(R!Reviews) \in R!All
  BY DEF ReviewsShape
<1> QED
  BY <1>2, <1>3, <1>4 DEF Peel

-----------------------------------------------------------------------------
(* What the reviews leave.                                                 *)

Begins(f, j) == \E p \in Of(j) : f[p] >= R!Blobs[j][p]
Completes(f, j) == \A p \in Of(j) : f[p] >= R!Blobs[j][p]

\* Inputs that the reviews up to i account for.
Accounted(f, i) ==
    /\ \A p \in R!Paths : f[p] \in 0..R!Blobs[i][p]
    /\ \A j \in 1..i : Begins(f, j) => Completes(f, j)

\* The historical inputs are accounted for, and in order.
LEMMA HistoricalAccounted ==
    ASSUME ReviewsShape, NEW f, R!AdmitExisting(f)
    PROVE  /\ Accounted(f, R!Estate - 1)
           /\ \A i \in 1..(R!Estate - 1) : Begins(f, i) => \A j \in 1..i : Begins(f, j)
<1> DEFINE last == R!Estate - 1
<1>1. PICK n \in 0..last : f = R!Blobs[n]
  BY DEF R!AdmitExisting, R!Historical, ReviewsShape, Rule
<1>2. last \in 0..Len(R!Reviews) /\ last + 1 \in R!All
  BY DEF ReviewsShape
<1> HIDE DEF last
<1>3. \A p \in R!Paths : f[p] \in 0..R!Blobs[last][p]
  BY <1>1, <1>2, BlobsGrow
<1>4. ASSUME NEW j \in 1..last, Begins(f, j) PROVE j <= n
  <2>1. PICK p \in Of(j) : f[p] >= R!Blobs[j][p]
    BY <1>4 DEF Begins
  <2>2. j \in R!All /\ j \in 0..Len(R!Reviews) /\ p \in R!Paths
    BY <1>2, PathsOf DEF ReviewsShape
  <2>3. SUFFICES ASSUME n < j PROVE FALSE
    BY <1>1, <1>2
  <2>4. n \in 0..j /\ n # j
    BY <1>1, <2>2, <2>3
  <2>5. R!Blobs[n][p] < R!Blobs[j][p] /\ R!Blobs[n][p] \in Nat /\ R!Blobs[j][p] \in Nat
    BY <2>2, <2>4, BlobsGrow
  <2> QED
    BY <1>1, <2>1, <2>5
<1>5. ASSUME NEW j \in 1..last, j <= n PROVE Completes(f, j) /\ Begins(f, j)
  <2>1. j \in R!All /\ n \in 0..Len(R!Reviews) /\ j \in 0..n
    BY <1>1, <1>2, <1>5 DEF ReviewsShape
  <2>2. \A p \in Of(j) : R!Blobs[n][p] >= R!Blobs[j][p]
    BY <2>1, BlobsGrow, PathsOf
  <2>3. Of(j) # {}
    <3>1. j < R!Estate
      BY <1>2, <1>5 DEF last, ReviewsShape
    <3> QED
      BY <2>1, <3>1 DEF ReviewsShape
  <2> QED
    BY <1>1, <2>2, <2>3 DEF Begins, Completes
<1>6. Accounted(f, last)
  BY <1>3, <1>4, <1>5 DEF Accounted
<1>7. \A i \in 1..last : Begins(f, i) => \A j \in 1..i : Begins(f, j)
  <2> TAKE i \in 1..last
  <2> HAVE Begins(f, i)
  <2> TAKE j \in 1..i
  <2>1. j \in 1..last /\ j <= n
    BY <1>1, <1>2, <1>4
  <2> QED
    BY <1>5, <2>1
<1> QED
  BY <1>6, <1>7 DEF last

\* What may be undone of inputs, when what is left is accounted for.
LEMMA PeelOne ==
    ASSUME ReviewsShape, NEW i \in R!All, NEW g, NEW f, f = Peel(g, i), i - 1 \in R!All,
           Accounted(f, i - 1),
           (i = R!Estate /\ g[R!Template] = 0) \/ (R!Carries(g, i) => R!Whole(g, i))
    PROVE  /\ Accounted(g, i)
           /\ \A p \in R!Paths : f[p] <= g[p]
           /\ \A j \in 1..(i - 1) : Begins(g, j) => Begins(f, j)
           /\ Begins(g, i) => R!Carries(g, i)
<1>1. i \in Nat /\ i \in 0..Len(R!Reviews) /\ i - 1 \in 0..i /\ i - 1 # i /\ i - 1 \in Nat
  BY DEF ReviewsShape
<1>2. \A p \in R!Paths : /\ R!Blobs[i - 1][p] \in Nat /\ R!Blobs[i][p] \in Nat
                         /\ R!Blobs[i - 1][p] <= R!Blobs[i][p]
                         /\ p \in Of(i) => R!Blobs[i - 1][p] < R!Blobs[i][p]
  BY <1>1, BlobsGrow
<1>3. Of(i) \subseteq R!Paths
  BY PathsOf
<1>4. \A p \in R!Paths : f[p] \in 0..R!Blobs[i - 1][p]
  BY DEF Accounted
<1>5. CASE f = g
  <2>1. \A p \in R!Paths : g[p] \in 0..R!Blobs[i][p]
    BY <1>2, <1>4, <1>5
  <2>2. ~Begins(g, i)
    BY <1>2, <1>3, <1>4, <1>5 DEF Begins
  <2>3. \A j \in 1..i : j \in 1..(i - 1) \/ j = i
    BY <1>1
  <2>4. \A p \in R!Paths : f[p] <= g[p]
    BY <1>2, <1>4, <1>5
  <2> QED
    BY <1>5, <2>1, <2>2, <2>3, <2>4 DEF Accounted
<1>6. CASE f # g
  <2>1. f = R!Undo(g, i) /\ R!Carries(g, i) /\ R!Whole(g, i)
    BY <1>6 DEF Peel
  <2>2. /\ \A p \in Of(i) : g[p] = R!Blobs[i][p] /\ f[p] = R!Blobs[i - 1][p]
        /\ \A p \in R!Paths \ Of(i) : f[p] = g[p]
    BY <1>3, <2>1 DEF R!Undo, R!Whole, Of
  <2>3. \A p \in R!Paths : g[p] \in 0..R!Blobs[i][p] /\ f[p] <= g[p]
    BY <1>2, <1>4, <2>2
  <2>4. ASSUME NEW j \in 1..(i - 1), Begins(g, j) PROVE Begins(f, j) /\ Completes(g, j)
    <3>1. j \in R!All /\ j \in 0..(i - 1) /\ i - 1 \in 0..Len(R!Reviews)
      BY <1>1 DEF ReviewsShape
    <3>2. \A p \in Of(j) : /\ p \in R!Paths /\ R!Blobs[j][p] \in Nat
                           /\ R!Blobs[j][p] <= R!Blobs[i - 1][p]
      BY <3>1, PathsOf, BlobsGrow
    <3>3. PICK p \in Of(j) : g[p] >= R!Blobs[j][p]
      BY <2>4 DEF Begins
    <3>4. f[p] >= R!Blobs[j][p]
      BY <1>2, <2>2, <3>2, <3>3
    <3>5. Begins(f, j)
      BY <3>4 DEF Begins
    <3>6. Completes(f, j)
      BY <3>5 DEF Accounted
    <3>7. \A q \in Of(j) : g[q] >= R!Blobs[j][q]
      <4> TAKE q \in Of(j)
      <4>1. f[q] >= R!Blobs[j][q] /\ f[q] <= g[q] /\ f[q] \in Nat /\ g[q] \in Nat
        BY <1>2, <1>4, <2>3, <3>2, <3>6 DEF Completes
      <4> QED
        BY <3>2, <4>1
    <3> QED
      BY <3>5, <3>7 DEF Completes
  <2>5. Completes(g, i)
    BY <1>2, <1>3, <2>2 DEF Completes
  <2>6. \A j \in 1..i : j \in 1..(i - 1) \/ j = i
    BY <1>1
  <2> QED
    BY <2>1, <2>3, <2>4, <2>5, <2>6 DEF Accounted
<1> QED
  BY <1>5, <1>6

-----------------------------------------------------------------------------
(* What is admitted.                                                       *)

\* A review has a say about inputs that carry it, and then all of it is there.
LEMMA CarriedIsWhole ==
    ASSUME ReviewsShape, NEW i \in R!All, i >= R!Estate, NEW g, R!Carries(g, i),
           R!Applies(g, i) => R!Terms(g, i)
    PROVE  \/ i = R!Estate /\ g[R!Template] = 0
           \/ R!Applies(g, i) /\ R!Terms(g, i) /\ R!Whole(g, i)
<1>1. PICK p \in Of(i) : g[p] = R!Blobs[i][p]
  BY DEF R!Carries, Of
<1>2. i \in 0..Len(R!Reviews) /\ i - 1 \in 0..i /\ i - 1 # i /\ p \in R!Paths
  BY PathsOf DEF ReviewsShape
<1>3. R!Blobs[i - 1][p] \in Nat /\ R!Blobs[i][p] \in Nat /\ R!Blobs[i - 1][p] < R!Blobs[i][p]
  BY <1>2, BlobsGrow
<1>4. R!Present(g, i)
  BY <1>1, <1>3 DEF R!Present, Of
<1>5. ~(i < R!Estate)
  BY DEF ReviewsShape
<1>6. /\ Rule(i) \in {"estate", "successor", "guard", "hook", "lasting", "membership", "first",
                     "offline", "helper", "merged", "sidecar", "native"}
      /\ Rule(i) = "estate" => i = R!Estate
  BY <1>1, <1>5 DEF ReviewsShape
<1>7. R!Applies(g, i) \/ (i = R!Estate /\ g[R!Template] = 0)
  BY <1>4, <1>6 DEF R!Applies, Rule
<1> QED
  BY <1>7 DEF R!Terms

\* The layers of admitted inputs, from the estate review on.
Layers(s) ==
    /\ \A i \in R!Estate..Len(R!Reviews) : s[i - 1] = Peel(s[i], i)
    /\ \A i \in R!Estate..Len(R!Reviews) : R!Applies(s[i], i) => R!Terms(s[i], i)
    /\ R!AdmitExisting(s[R!Estate - 1])

\* A layer is accounted for, by the reviews the inner layers carry.
Sound(s, i) ==
    /\ Accounted(s[i], i)
    /\ \A k \in (R!Estate - 1)..i : \A p \in R!Paths : s[k][p] <= s[i][p]
    /\ \A j \in 1..i : Begins(s[i], j) =>
          IF j < R!Estate THEN Begins(s[R!Estate - 1], j) ELSE R!Carries(s[j], j)

LEMMA LayersAreSound ==
    ASSUME ReviewsShape, NEW s, Layers(s)
    PROVE  \A i \in (R!Estate - 1)..Len(R!Reviews) : Sound(s, i)
<1> DEFINE first == R!Estate - 1
           len == Len(R!Reviews)
           unsound == {i \in first..len : ~Sound(s, i)}
<1>1. first \in Nat \ {0} /\ len \in Nat /\ R!All = 1..len /\ R!Estate = first + 1
  BY DEF ReviewsShape
<1>2. SUFFICES ASSUME unsound # {} PROVE FALSE
  OBVIOUS
<1>3. PICK i \in unsound : \A k \in unsound : i <= k
  <2>1. unsound \subseteq Nat
    BY <1>1
  <2> HIDE DEF unsound
  <2> QED
    BY <1>2, <2>1, LeastNumber
<1>4. CASE i = first
  <2>1. Accounted(s[first], first)
    BY HistoricalAccounted DEF Layers
  <2>2. \A p \in R!Paths : s[first][p] <= s[first][p]
    BY <2>1, <1>1 DEF Accounted
  <2>3. \A j \in 1..first : j < R!Estate
    BY <1>1
  <2>4. \A k \in first..first : k = first
    BY <1>1
  <2>5. Sound(s, first)
    BY <2>1, <2>2, <2>3, <2>4 DEF Sound
  <2> QED
    BY <1>4, <2>5
<1>5. CASE i # first
  <2> DEFINE h == i - 1
  <2>1. i \in (first + 1)..len /\ i \in R!All /\ h \in R!All /\ h \in first..len /\ ~(i <= h)
    BY <1>1, <1>5
  <2>2. Sound(s, h)
    BY <1>3, <2>1
  <2> HIDE DEF unsound
  <2>3. s[h] = Peel(s[i], i) /\ (R!Applies(s[i], i) => R!Terms(s[i], i))
    BY <1>1, <2>1 DEF Layers
  <2>4. (i = R!Estate /\ s[i][R!Template] = 0) \/ (R!Carries(s[i], i) => R!Whole(s[i], i))
    BY <1>1, <2>1, <2>3, CarriedIsWhole
  <2>5. /\ Accounted(s[i], i)
        /\ \A p \in R!Paths : s[h][p] <= s[i][p]
        /\ \A j \in 1..h : Begins(s[i], j) => Begins(s[h], j)
        /\ Begins(s[i], i) => R!Carries(s[i], i)
    BY <2>1, <2>2, <2>3, <2>4, PeelOne DEF Sound
  <2>6. \A p \in R!Paths : s[h][p] \in Int /\ s[i][p] \in Int
    BY <2>2, <2>5 DEF Sound, Accounted
  <2>7. \A k \in first..i : \A p \in R!Paths : s[k][p] <= s[i][p]
    <3> TAKE k \in first..i
    <3>1. CASE k = i
      BY <2>6, <3>1
    <3>2. CASE k # i
      <4>1. k \in first..h
        BY <1>1, <2>1, <3>2
      <4>2. \A p \in R!Paths : s[k][p] <= s[h][p]
        BY <2>2, <4>1 DEF Sound
      <4>3. \A j \in first..len : ~(j \in unsound) => Accounted(s[j], j)
        BY DEF unsound, Sound
      <4>4. k \notin unsound /\ k \in first..len
        BY <1>1, <1>3, <2>1, <4>1
      <4>5. \A p \in R!Paths : s[k][p] \in Int
        BY <4>3, <4>4 DEF Accounted
      <4> QED
        BY <2>5, <2>6, <4>2, <4>5
    <3> QED
      BY <3>1, <3>2
  <2>8. \A j \in 1..i : Begins(s[i], j) =>
            IF j < R!Estate THEN Begins(s[first], j) ELSE R!Carries(s[j], j)
    <3> TAKE j \in 1..i
    <3>1. CASE j = i
      BY <1>1, <2>1, <2>5, <3>1
    <3>2. CASE j # i
      <4>1. j \in 1..h
        BY <1>1, <2>1, <3>2
      <4> QED
        BY <2>2, <2>5, <4>1 DEF Sound
    <3> QED
      BY <3>1, <3>2
  <2>9. Sound(s, i)
    BY <2>5, <2>7, <2>8 DEF Sound
  <2> QED
    BY <2>9 DEF unsound
<1> QED
  BY <1>4, <1>5

\* What differs from the outermost layer was undone with an outer review.
LEMMA OuterCarried ==
    ASSUME ReviewsShape, NEW s, Layers(s), NEW i \in R!Estate..Len(R!Reviews),
           NEW p \in R!Paths, s[i][p] # s[Len(R!Reviews)][p]
    PROVE  \E j \in R!All : i < j /\ p \in Of(j) /\ R!Carries(s[j], j)
<1> DEFINE len == Len(R!Reviews)
           same == {k \in 0..(len - i) : s[len - k][p] # s[len][p]}
<1>1. /\ len \in Nat /\ R!Estate \in Nat /\ i \in Nat /\ R!All = 1..len
      /\ len - i \in 0..(len - i) /\ len - (len - i) = i
  BY DEF ReviewsShape
<1>2. same # {} /\ same \subseteq Nat
  BY <1>1
<1>3. PICK k \in same : \A m \in same : k <= m
  <2> HIDE DEF same
  <2> QED
    BY <1>2, LeastNumber
<1>4. k # 0
  BY <1>1
<1> DEFINE j == len - k + 1
<1>5. /\ k - 1 \in 0..(len - i) /\ ~(k <= k - 1) /\ len - (k - 1) = j
      /\ j \in R!Estate..len /\ j \in R!All /\ i < j /\ j - 1 = len - k
  BY <1>1, <1>4
<1>6. s[j][p] = s[len][p]
  <2>1. k - 1 \notin same
    <3> HIDE DEF same
    <3> QED
      BY <1>3, <1>5
  <2> QED
    BY <1>5, <2>1
<1>7. s[j - 1][p] # s[j][p]
  BY <1>5, <1>6
<1>8. s[j - 1] = Peel(s[j], j)
  BY <1>5 DEF Layers
<1> HIDE DEF j, same, len
<1>9. R!Carries(s[j], j) /\ p \in Of(j)
  BY <1>7, <1>8 DEF Peel, R!Undo, Of
<1> QED
  BY <1>5, <1>9

SourceInv ==
    /\ base \in 0..Len(R!Reviews)
    /\ files = [p \in R!Paths |-> files[p]]

\* Admission is by layers, from the raw inputs inwards.
LEMMA AdmittedLayers ==
    ASSUME ReviewsShape, R!Admit
    PROVE  LET s == R!Peeled(R!Current) IN
           Layers(s) /\ s[Len(R!Reviews)] = R!Current /\ R!Proof(s)
<1> DEFINE s == R!Peeled(R!Current)
<1>1. /\ R!Proof(s) /\ R!AdmitExisting(s[R!Estate - 1])
      /\ \A i \in R!All \ R!Historical : R!Applies(s[i], i) => R!Terms(s[i], i)
  BY DEF R!Admit, R!Current
<1>2. /\ s[Len(R!Reviews)] = R!Current
      /\ \A i \in R!All : i # Len(R!Reviews) => s[i] = Peel(s[i + 1], i + 1)
  BY PeeledLayers
<1> HIDE DEF s
<1>3. ASSUME NEW i \in R!Estate..Len(R!Reviews)
      PROVE  /\ s[i - 1] = Peel(s[i], i)
             /\ R!Applies(s[i], i) => R!Terms(s[i], i)
  <2>1. /\ i - 1 \in R!All /\ i - 1 # Len(R!Reviews) /\ (i - 1) + 1 = i
        /\ i \in R!All /\ i \notin R!Historical
    BY DEF ReviewsShape, R!Historical, Rule
  <2> QED
    BY <1>1, <1>2, <2>1
<1> QED
  BY <1>1, <1>2, <1>3 DEF Layers, s

\* Inputs are the raw ones, but for the retired helper.
LEMMA RawInputs ==
    ASSUME ReviewsShape, SourceInv
    PROVE  \A p \in R!Paths : p # R!Template => R!Current[p] = files[p]
BY DEF SourceInv, R!Current, R!AdmitRetiredTemplateWriter

LEMMA EstateLanded ==
    ASSUME ReviewsShape, SourceInv, NEW s, R!Proof(s) PROVE R!Landed(R!Estate)
BY DEF R!Proof, R!Successor, R!Revision, R!Landed, ReviewsShape, SourceInv

\* A review that is carried has landed in the history, or its source is pinned.
LEMMA CarriedIsLanded ==
    ASSUME ReviewsShape, SourceInv, NEW s, Layers(s), s[Len(R!Reviews)] = R!Current,
           R!Proof(s)
    PROVE  \A i \in R!Estate..Len(R!Reviews) :
              R!Carries(s[i], i) => R!Landed(i) \/ pinned \/ Rule(i) = "native"
<1> DEFINE len == Len(R!Reviews)
           Claim(i) == R!Carries(s[i], i) => R!Landed(i) \/ pinned \/ Rule(i) = "native"
           bad == {k \in 0..(len - R!Estate) : ~Claim(len - k)}
<1>1. len \in Nat /\ R!All = 1..len /\ R!Estate \in Nat \ {0}
  BY DEF ReviewsShape
<1>2. SUFFICES ASSUME bad # {} PROVE FALSE
  <2> SUFFICES ASSUME NEW i \in R!Estate..len PROVE Claim(i)
    OBVIOUS
  <2>1. len - i \in 0..(len - R!Estate) /\ len - (len - i) = i
    BY <1>1
  <2>2. ASSUME bad = {} PROVE Claim(i)
    <3> HIDE DEF Claim
    <3> QED
      BY <2>1, <2>2
  <2> QED
    BY <2>2
<1>3. PICK k \in bad : \A m \in bad : k <= m
  <2>1. bad \subseteq Nat
    BY <1>1
  <2> HIDE DEF bad
  <2> QED
    BY <1>2, <2>1, LeastNumber
<1> DEFINE i == len - k
<1>4. i \in R!Estate..len /\ i \in R!All /\ ~Claim(i)
  BY <1>1
<1>5. ASSUME NEW j \in R!All, i < j PROVE Claim(j)
  <2>1. len - j \in 0..(len - R!Estate) /\ len - (len - j) = j /\ ~(k <= len - j)
    BY <1>1, <1>4, <1>5
  <2>2. len - j \notin bad
    <3> HIDE DEF bad
    <3> QED
      BY <1>3, <2>1
  <2> HIDE DEF Claim
  <2> QED
    BY <2>1, <2>2
<1>6. R!Carries(s[i], i) /\ ~R!Landed(i) /\ ~pinned /\ Rule(i) # "native"
  BY <1>4
<1> HIDE DEF i, bad
<1>7. i # R!Estate
  BY <1>6, EstateLanded
<1>8. R!Applies(s[i], i) /\ R!Terms(s[i], i) /\ R!Whole(s[i], i)
  BY <1>1, <1>4, <1>6, <1>7, CarriedIsWhole DEF Layers
<1>9. PICK p \in Of(i) : s[i][p] = R!Blobs[i][p]
  BY <1>6 DEF R!Carries, Of
<1>10. p \in R!Paths /\ p # R!Template
  BY <1>4, <1>7, PathsOf DEF ReviewsShape
<1>11. s[i][p] = R!Current[p]
  <2>1. SUFFICES ASSUME NEW j \in R!All, i < j, p \in Of(j), R!Carries(s[j], j) PROVE FALSE
    BY <1>4, <1>10, OuterCarried
  <2>2. R!Landed(j) \/ Rule(j) = "native"
    BY <1>5, <1>6, <2>1
  <2>3. R!Landed(j) => R!Landed(i)
    BY <1>1, <1>4, <2>1 DEF R!Landed, SourceInv
  <2>4. Rule(j) = "native" => Rule(i) = "native"
    BY <1>4, <1>9, <2>1 DEF ReviewsShape
  <2> QED
    BY <1>6, <2>2, <2>3, <2>4
<1>12. files[p] = R!Blobs[i][p]
  BY <1>9, <1>10, <1>11, RawInputs
<1>13. R!Carries(files, i)
  BY <1>9, <1>12 DEF R!Carries, Of
<1>14. R!Present(files, i)
  <2>1. i \in 0..len /\ i - 1 \in 0..i /\ i - 1 # i
    BY <1>1, <1>4
  <2>2. R!Blobs[i][p] # 0
    BY <1>10, <2>1, BlobsGrow
  <2> QED
    BY <1>9, <1>12, <2>2 DEF R!Present, Of
<1>15. /\ Rule(i) \in {"successor", "guard", "hook", "lasting", "membership", "first",
                      "offline", "helper", "merged", "sidecar"}
  BY <1>1, <1>4, <1>6, <1>7, <1>9 DEF ReviewsShape
<1>16. Rule(i) \in {"successor", "guard", "hook", "lasting"}
  BY <1>6, <1>8, <1>15 DEF R!Terms, Rule
<1>17. Rule(i) \in {"successor", "guard", "hook"} => R!Successor
  BY <1>8 DEF R!Terms, Rule
<1> QED
  BY <1>4, <1>6, <1>13, <1>14, <1>16, <1>17 DEF R!Proof, Rule

\* What InputsReviewed says of admitted inputs.
AllReviewed ==
    /\ \A p \in R!Paths : files[p] >= 0
    /\ \A i \in R!All : R!Begun(i) =>
          /\ R!Complete(i)
          /\ R!Landed(i) \/ pinned \/ R!Reviews[i].rule = "native"
          /\ i \in R!Historical => \A j \in 1..i : R!Begun(j)

LEMMA AdmittedIsReviewed == ASSUME ReviewsShape, SourceInv, R!Admit PROVE AllReviewed
<1> DEFINE s == R!Peeled(R!Current)
           len == Len(R!Reviews)
           first == R!Estate - 1
<1>1. Layers(s) /\ s[len] = R!Current /\ R!Proof(s)
  BY AdmittedLayers
<1> HIDE DEF s
<1>2. len \in Nat /\ R!All = 1..len /\ R!Estate \in 2..len /\ first \in 1..len /\ len \in first..len
  BY DEF ReviewsShape
<1>3. Sound(s, len)
  BY <1>1, <1>2, LayersAreSound
<1>4. /\ \A i \in R!All : R!Begun(i) <=> Begins(s[len], i)
      /\ \A i \in R!All : R!Complete(i) <=> Completes(s[len], i)
  BY <1>1 DEF R!Begun, R!Complete, Begins, Completes, Of
<1>5. ASSUME NEW p \in R!Paths PROVE files[p] >= 0
  <2>1. R!Current[p] \in 0..R!Blobs[len][p]
    BY <1>1, <1>3 DEF Sound, Accounted
  <2>2. p # R!Template => R!Current[p] = files[p]
    BY RawInputs
  <2>3. p = R!Template => files[p] = 0 \/ R!Current[p] = files[p]
    BY <1>1 DEF R!Proof, R!RetirementProof, R!Current, R!AdmitRetiredTemplateWriter
  <2> QED
    BY <2>1, <2>2, <2>3
<1>6. ASSUME NEW i \in R!All, R!Begun(i) PROVE R!Complete(i)
  BY <1>2, <1>3, <1>4, <1>6 DEF Sound, Accounted
<1>7. ASSUME NEW i \in R!All, R!Begun(i)
      PROVE  R!Landed(i) \/ pinned \/ Rule(i) = "native"
  <2>1. CASE i < R!Estate
    BY <1>1, <1>2, <2>1, EstateLanded DEF R!Landed, SourceInv
  <2>2. CASE i >= R!Estate
    <3>1. R!Carries(s[i], i)
      BY <1>2, <1>3, <1>4, <1>7, <2>2 DEF Sound
    <3> QED
      BY <1>1, <1>2, <2>2, <3>1, CarriedIsLanded
  <2> QED
    BY <1>2, <2>1, <2>2
<1>8. ASSUME NEW i \in R!Historical, R!Begun(i), NEW j \in 1..i PROVE R!Begun(j)
  <2>1. i \in R!All /\ i < R!Estate
    BY DEF R!Historical, ReviewsShape, Rule
  <2>2. i \in 1..first /\ j \in 1..first /\ j \in R!All
    BY <1>2, <2>1
  <2>3. Begins(s[first], i)
    BY <1>2, <1>3, <1>4, <1>8, <2>1 DEF Sound
  <2>4. Begins(s[first], j)
    BY <1>1, <2>2, <2>3, HistoricalAccounted DEF Layers
  <2>5. PICK p \in Of(j) : s[first][p] >= R!Blobs[j][p]
    BY <2>4 DEF Begins
  <2>6. p \in R!Paths
    BY <2>2, PathsOf
  <2>7. s[first][p] <= s[len][p]
    BY <1>2, <1>3, <2>6 DEF Sound
  <2>8. s[first][p] \in Nat /\ s[len][p] \in Nat /\ R!Blobs[j][p] \in Nat
    <3>1. Accounted(s[first], first) /\ Accounted(s[len], len)
      BY <1>1, <1>3, HistoricalAccounted DEF Layers, Sound
    <3>2. first \in 0..len /\ j \in 0..first
      BY <1>2, <2>2
    <3>3. /\ R!Blobs[j][p] \in Nat
          /\ R!Blobs[first][p] \in Nat
      BY <2>6, <3>2, BlobsGrow
    <3>4. R!Blobs[len][p] \in Nat
      BY <1>2, <2>6, <3>2, BlobsGrow
    <3> QED
      BY <2>6, <3>1, <3>3, <3>4 DEF Accounted
  <2>9. s[len][p] >= R!Blobs[j][p]
    BY <2>5, <2>7, <2>8
  <2> QED
    BY <1>4, <2>2, <2>9 DEF Begins
<1> QED
  BY <1>5, <1>6, <1>7, <1>8 DEF AllReviewed, Rule

\* What LastingReviewsStay says of admitted inputs.
AllLasting ==
    /\ \A i \in R!All :
          R!Reviews[i].rule \in {"hook", "lasting", "merged"} /\ R!Landed(i) => R!Complete(i)
    /\ R!Retired => files[R!Template] = 0

LEMMA AdmittedIsLasting == ASSUME ReviewsShape, SourceInv, R!Admit PROVE AllLasting
<1> DEFINE s == R!Peeled(R!Current)
           len == Len(R!Reviews)
<1>1. Layers(s) /\ s[len] = R!Current /\ R!Proof(s)
  BY AdmittedLayers
<1> HIDE DEF s
<1>2. len \in Nat /\ R!All = 1..len /\ R!Estate \in 2..len
  BY DEF ReviewsShape
<1>3. ASSUME NEW i \in R!All, Rule(i) \in {"hook", "lasting", "merged"}, R!Landed(i)
      PROVE  R!Complete(i)
  <2>1. /\ i > R!Estate /\ i \in 0..len
        /\ i \in (R!Estate - 1)..len /\ len \in (R!Estate - 1)..len
    BY <1>2, <1>3 DEF ReviewsShape
  <2>2. \A p \in Of(i) : p \in R!Paths /\ p # R!Template /\ R!Blobs[i][p] \in Nat
    BY <2>1, PathsOf, BlobsGrow DEF ReviewsShape
  <2>3. CASE Rule(i) \in {"hook", "lasting"}
    <3>1. R!Whole(files, i)
      BY <1>1, <1>3, <2>3 DEF R!Proof, Rule
    <3>2. \A p \in Of(i) : R!Current[p] = R!Blobs[i][p]
      BY <2>2, <3>1, RawInputs DEF R!Whole, Of
    <3> QED
      BY <2>2, <3>2 DEF R!Complete, Of
  <2>4. CASE Rule(i) = "merged"
    <3>1. R!Whole(s[i], i)
      BY <1>1, <1>3, <2>4 DEF R!Proof, R!PrSharedProof, Rule
    <3>2. Sound(s, len)
      BY <1>1, <2>1, LayersAreSound
    <3>3. \A p \in Of(i) : s[i][p] = R!Blobs[i][p] /\ s[i][p] <= R!Current[p]
                           /\ R!Current[p] \in Nat
      BY <1>1, <2>1, <2>2, <3>1, <3>2 DEF R!Whole, Of, Sound, Accounted
    <3>4. \A p \in Of(i) : R!Current[p] >= R!Blobs[i][p]
      BY <2>2, <3>3
    <3> QED
      BY <3>4 DEF R!Complete, Of
  <2> QED
    BY <1>3, <2>3, <2>4
<1>4. R!Retired => files[R!Template] = 0
  BY <1>1 DEF R!Proof, R!RetirementProof
<1> QED
  BY <1>3, <1>4 DEF AllLasting, Rule

-----------------------------------------------------------------------------
AdmissionInv == SourceInv /\ R!InputsReviewed /\ R!LastingReviewsStay

LEMMA AdmissionInit == R!Init => AdmissionInv
<1> SUFFICES ASSUME R!Init PROVE AdmissionInv
  OBVIOUS
<1> USE ReviewsHaveShape
<1>1. base \in 0..Len(R!Reviews)
  BY DEF R!Init, ReviewsShape
<1>2. R!Blobs[base] = [p \in R!Paths |-> R!Blobs[base][p]]
  BY <1>1 DEF R!Blobs
<1>3. files = [p \in R!Paths |-> files[p]]
  BY <1>1, <1>2 DEF R!Init, R!Sources
<1> QED
  BY <1>1, <1>3 DEF R!Init, AdmissionInv, SourceInv, R!InputsReviewed, R!LastingReviewsStay

\* A changed source is not admitted yet.
LEMMA ChangeStep ==
    ASSUME AdmissionInv, NEW new, R!Change(new), new = [p \in R!Paths |-> new[p]]
    PROVE  AdmissionInv'
BY DEF AdmissionInv, SourceInv, R!Change, R!InputsReviewed, R!LastingReviewsStay

LEMMA AdmissionStep == AdmissionInv /\ [R!Next]_(R!vars) => AdmissionInv'
<1> SUFFICES ASSUME AdmissionInv, [R!Next]_(R!vars) PROVE AdmissionInv'
  OBVIOUS
<1>1. ASSUME NEW q \in R!Paths, R!Commit(q) PROVE AdmissionInv'
  <2>1. PICK blob : R!Change([files EXCEPT ![q] = blob])
    BY <1>1 DEF R!Commit
  <2>2. [files EXCEPT ![q] = blob] = [p \in R!Paths |-> [files EXCEPT ![q] = blob][p]]
    BY DEF AdmissionInv, SourceInv
  <2> QED
    BY <2>1, <2>2, ChangeStep
<1>2. ASSUME NEW i \in R!All, R!CherryPick(i) \/ R!Revert(i) PROVE AdmissionInv'
  <2>1. CASE R!CherryPick(i)
    <3> DEFINE new == [p \in R!Paths |-> IF p \in R!Reviews[i].paths THEN R!Blobs[i][p]
                                         ELSE files[p]]
    <3>1. R!Change(new) /\ new = [p \in R!Paths |-> new[p]]
      BY <2>1 DEF R!CherryPick
    <3> HIDE DEF new
    <3> QED
      BY <3>1, ChangeStep
  <2>2. CASE R!Revert(i)
    <3>1. R!Undo(files, i) = [p \in R!Paths |-> R!Undo(files, i)[p]]
      BY DEF R!Undo
    <3> QED
      BY <2>2, <3>1, ChangeStep DEF R!Revert
  <2> QED
    BY <1>2, <2>1, <2>2
<1>3. CASE R!Pin
  BY <1>3 DEF R!Pin, AdmissionInv, SourceInv, R!InputsReviewed, R!LastingReviewsStay
<1>4. CASE R!Plan
  <2>1. UNCHANGED <<base, commits, files, pinned>>
    BY <1>4 DEF R!Plan
  <2>2. SourceInv'
    BY <2>1 DEF AdmissionInv, SourceInv
  <2>3. admission' = "admitted" => AllReviewed /\ AllLasting
    BY <1>4, ReviewsHaveShape, AdmittedIsReviewed, AdmittedIsLasting DEF R!Plan, AdmissionInv
  <2>4. R!InputsReviewed' <=> (admission' = "admitted" => AllReviewed')
    BY DEF R!InputsReviewed, AllReviewed
  <2>5. R!LastingReviewsStay' <=> (admission' = "admitted" => AllLasting')
    BY DEF R!LastingReviewsStay, AllLasting
  <2>6. /\ R!Current' = R!Current /\ \A i : R!Landed(i)' = R!Landed(i)
        /\ R!Retired' = R!Retired
    BY <2>1 DEF R!Current, R!AdmitRetiredTemplateWriter, R!Landed, R!Retired
  <2>7. AllReviewed => AllReviewed'
    BY <2>1, <2>6 DEF AllReviewed, R!Begun, R!Complete
  <2>8. AllLasting => AllLasting'
    BY <2>1, <2>6 DEF AllLasting, R!Complete
  <2> QED
    BY <2>2, <2>3, <2>4, <2>5, <2>7, <2>8 DEF AdmissionInv
<1>5. CASE UNCHANGED R!vars
  <2>1. UNCHANGED <<base, commits, files, pinned, admission>>
    BY <1>5 DEF R!vars
  <2>2. /\ R!Current' = R!Current /\ \A i : R!Landed(i)' = R!Landed(i)
        /\ R!Retired' = R!Retired
    BY <2>1 DEF R!Current, R!AdmitRetiredTemplateWriter, R!Landed, R!Retired
  <2> QED
    BY <2>1, <2>2 DEF AdmissionInv, SourceInv, R!InputsReviewed, R!LastingReviewsStay,
                      R!Begun, R!Complete
<1> QED
  BY <1>1, <1>2, <1>3, <1>4, <1>5 DEF R!Next

\* The plan admits no source whose reviews it did not account for: what
\* admit_shared_inputs and the proofs about history of pytest-shards.py keep.
THEOREM AdmissionInvariant ==
    /\ R!Spec => []AdmissionInv
    /\ EvidenceSpec => [](subject = "inputs" => AdmissionInv)
<1>1. EvidenceInit => (subject = "inputs" => AdmissionInv)
  BY AdmissionInit DEF EvidenceInit
<1>2. (subject = "inputs" => AdmissionInv) /\ [EvidenceNext]_allVars
         => (subject = "inputs" => AdmissionInv)'
  BY AdmissionStep, OneMoves
<1> QED
  BY <1>1, <1>2, AdmissionInit, AdmissionStep, PTL DEF R!Spec, EvidenceSpec

\* A source that was admitted has each reviewed change whole or not at all, and
\* one that is not in its history only when it is the pinned source or the
\* change is of the native policy (estate_successor_proof and
\* admit_shared_inputs): for any number of commits.
THEOREM AdmittedAreReviewed ==
    /\ R!Spec => []R!InputsReviewed
    /\ EvidenceSpec => []InputsReviewed
<1>1. AdmissionInv => R!InputsReviewed
  BY DEF AdmissionInv
<1>2. (subject = "inputs" => AdmissionInv) => InputsReviewed
  BY <1>1 DEF InputsReviewed
<1> QED
  BY <1>1, <1>2, AdmissionInvariant, PTL

\* The hook, the npm security bundle and the merged PRs are still there in a
\* source that was admitted after them, and the retired template is not
\* (estate_successor_proof): for any number of commits.
THEOREM LastingStay ==
    /\ R!Spec => []R!LastingReviewsStay
    /\ EvidenceSpec => []LastingReviewsStay
<1>1. AdmissionInv => R!LastingReviewsStay
  BY DEF AdmissionInv
<1>2. (subject = "inputs" => AdmissionInv) => LastingReviewsStay
  BY <1>1 DEF LastingReviewsStay
<1> QED
  BY <1>1, <1>2, AdmissionInvariant, PTL

-----------------------------------------------------------------------------
(* The skips that a run may have.                                           *)

LEMMA SkipReviewsShape ==
    /\ Len(K!Reviews) = 11 /\ K!All = 1..11
    /\ \A i \in K!All : K!Named(i) \subseteq {"r1", "r2", "l1", "l3", "s1"}
<1>1. Len(K!Reviews) = 11 /\ K!All = 1..11
  BY DEF K!Reviews, K!All
<1>2. \A i \in 1..11 : K!Named(i) \subseteq {"r1", "r2", "l1", "l3", "s1"}
  <2>1. 1..11 = {1, 2, 3, 4, 5, 6, 7, 8, 9, 10, 11}
    OBVIOUS
  <2> QED
    BY <2>1 DEF K!Named, K!Reviews, K!Review, K!SshSkips, K!CurrentSkips, K!RelaySkip,
       K!RelayMetrics, K!RelayMeter, K!RelayPreservation, K!CaseFile, K!SkipBlobs,
       K!ReleaseSkipBlobs, K!I10SkipBlobs, K!OrdinaryEvidence
<1> QED
  BY <1>1, <1>2

LEMMA CardinalityThere == \A S : K!Cardinality(S) = Cardinality(S)
BY Zenon DEF K!Cardinality, Cardinality

\* A review that names a case gives its module a blob of its own.
LEMMA NamedMoves ==
    ASSUME NEW i \in K!All, NEW n \in K!Named(i), NEW m, m = K!ModuleOf[n], m \in K!Modules
    PROVE  K!After[i][m] # K!After[i - 1][m]
<1> DEFINE Seen(j) == {l \in 1..j : \E k \in K!Named(l) : K!ModuleOf[k] = m}
<1>1. i \in 1..11 /\ i \in 0..Len(K!Reviews) /\ i - 1 \in 0..Len(K!Reviews)
  BY SkipReviewsShape
<1>2. /\ K!After[i][m] = Cardinality(Seen(i))
      /\ K!After[i - 1][m] = Cardinality(Seen(i - 1))
  BY <1>1, CardinalityThere DEF K!After
<1>3. Seen(i) = Seen(i - 1) \cup {i} /\ i \notin Seen(i - 1)
  BY <1>1
<1>4. IsFiniteSet(Seen(i - 1))
  <2>1. IsFiniteSet(1..(i - 1))
    BY <1>1, FS_Interval
  <2> QED
    BY <2>1, FS_Subset
<1>5. Cardinality(Seen(i)) = Cardinality(Seen(i - 1)) + 1
  BY <1>3, <1>4, FS_AddElement
<1> QED
  BY <1>2, <1>4, <1>5, FS_CardinalityType

\* A case without a row is one of a module that the shards report as skipped.
RowInv ==
    /\ caseOutcome \in [K!SkipNames -> K!Ways \cup {"passed", "absent"}]
    /\ collected \in [{"reference", "shards"} -> SUBSET (K!Modules \X K!Ways)]
    /\ \A n \in K!SkipNames : caseOutcome[n] = "absent" =>
          \E how \in K!Ways : <<K!ModuleOf[n], how>> \in collected["shards"]

SkipInv == RowInv /\ (skipVerdict = "NO_NEW_SKIPS" => K!AdmitSkips)

\* What SkipsStayReviewed says of the skips of one case.
Excused(n) ==
    LET m == K!ModuleOf[n]
        here == {i \in K!All : K!After[i][m] = moduleBlob[m] /\ K!After[i - 1][m] # moduleBlob[m]} IN
    \/ caseOutcome[n] = "passed"
    \/ n \in nativePassed
    \/ /\ n \notin K!NativeCases \cup {"x2", "z1"}
       /\ caseOutcome[n] = "skipped"
       /\ \/ \E i \in here : n \in K!Named(i)
          \/ moduleBlob[m] = 0 /\ n \in K!HistoricalCases \cup K!OwnerCanceled
          \/ m \in {"canceled", "host"} /\ moduleBlob[m] = 1
    \/ /\ caseOutcome[n] = "absent"
       /\ m = "pin" /\ moduleBlob[m] = 0
       /\ <<m, "skipped">> \in collected.reference

LEMMA AbsentIsExcused ==
    ASSUME RowInv, K!AdmitSkips, NEW n \in K!SkipNames, caseOutcome[n] = "absent"
    PROVE  Excused(n)
<1> DEFINE m == K!ModuleOf[n]
<1>1. PICK how \in K!Ways : <<m, how>> \in collected.shards
  BY DEF RowInv
<1>2. <<m, how>> \in K!CollectionSkips /\ <<m, how>> \in collected.reference
  BY <1>1 DEF K!AdmitSkips
<1>3. m = "pin" /\ how = "skipped" /\ moduleBlob["pin"] = 0
  BY <1>2 DEF K!CollectionSkips
<1> QED
  BY <1>2, <1>3 DEF Excused

LEMMA AdmittedIsExcused ==
    ASSUME RowInv, K!AdmitSkips, NEW n \in K!SkipNames PROVE Excused(n)
<1> SUFFICES ASSUME caseOutcome[n] \in K!Ways, n \notin nativePassed PROVE Excused(n)
  BY AbsentIsExcused DEF Excused, RowInv
<1> DEFINE m == K!ModuleOf[n]
<1>1. /\ caseOutcome[n] = "skipped"
      /\ K!SpecificSkip(n) \/ K!PlainSkip(n) \/ K!CanceledBackupSkip(n) \/ K!RetiredHostSkip(n)
  BY DEF K!AdmitSkips, K!Ways
<1>2. CASE K!SpecificSkip(n)
  <2>1. n = "h2"
    BY <1>2 DEF K!SpecificSkip, K!OwnerCanceled
  <2>2. moduleBlob["hosted"] = 0 /\ K!ModuleOf["h2"] = "hosted"
    BY <1>2, <2>1 DEF K!SpecificSkip, K!Hosted, K!Board139Cases, K!Board139At, K!FirstNative,
                      K!ModuleOf
  <2> QED
    BY <1>1, <2>1, <2>2 DEF Excused, K!NativeCases, K!OwnerCanceled
<1>3. CASE K!PlainSkip(n)
  <2>1. CASE \E i \in K!All : n \in K!Named(i) /\ moduleBlob[m] = K!After[i][m]
    <3>1. PICK i \in K!All : n \in K!Named(i) /\ moduleBlob[m] = K!After[i][m]
      BY <2>1
    <3>2. m \in K!Modules
      BY DEF K!Modules
    <3>3. K!After[i - 1][m] # moduleBlob[m]
      BY <3>1, <3>2, NamedMoves
    <3>4. n \notin K!NativeCases \cup {"x2", "z1"}
      BY <3>1, SkipReviewsShape DEF K!NativeCases
    <3> QED
      BY <1>1, <3>1, <3>3, <3>4 DEF Excused
  <2>2. CASE n \in K!HistoricalCases /\ moduleBlob[m] = 0
    BY <1>1, <2>2 DEF Excused, K!HistoricalCases, K!NativeCases
  <2>3. moduleBlob[m] \in (UNION {K!Successors(i, n) : i \in K!All})
                      \cup (IF n \in K!HistoricalCases THEN {0} ELSE {})
    BY <1>3 DEF K!PlainSkip, K!AdmittedAt
  <2> QED
    BY <2>1, <2>2, <2>3 DEF K!Successors
<1>4. CASE K!CanceledBackupSkip(n)
  BY <1>1, <1>4 DEF K!CanceledBackupSkip, Excused, K!NativeCases, K!ModuleOf
<1>5. CASE K!RetiredHostSkip(n)
  BY <1>1, <1>5 DEF K!RetiredHostSkip, Excused, K!NativeCases, K!ModuleOf
<1> QED
  BY <1>1, <1>2, <1>3, <1>4, <1>5

LEMMA SkipModuleKeepsRows ==
    ASSUME RowInv, NEW where \in {"reference", "shards"}, NEW m \in K!Modules,
           K!SkipModule(where, m)
    PROVE  RowInv'
<1> DEFINE own == {n \in K!SkipNames : K!ModuleOf[n] = m}
<1>1. PICK how \in K!Ways : collected' = [collected EXCEPT ![where] = @ \cup {<<m, how>>}]
  BY DEF K!SkipModule
<1>2. /\ collected' \in [{"reference", "shards"} -> SUBSET (K!Modules \X K!Ways)]
      /\ collected["shards"] \subseteq collected'["shards"]
      /\ where = "shards" => <<m, how>> \in collected'["shards"]
  BY <1>1 DEF RowInv
<1>3. CASE where = "shards"
  <2>1. caseOutcome' = [n \in K!SkipNames |-> IF n \in own THEN "absent" ELSE caseOutcome[n]]
    BY <1>3 DEF K!SkipModule
  <2> QED
    BY <1>2, <1>3, <2>1 DEF RowInv
<1>4. CASE where = "reference"
  <2>1. caseOutcome' = caseOutcome
    BY <1>4 DEF K!SkipModule
  <2> QED
    BY <1>2, <2>1 DEF RowInv
<1> QED
  BY <1>3, <1>4

LEMMA RowsKept == RowInv /\ [K!Next]_(K!vars) => RowInv'
<1> SUFFICES ASSUME RowInv, [K!Next]_(K!vars) PROVE RowInv'
  OBVIOUS
<1>1. CASE K!Join \/ K!OtherRunner \/ (\E n \in K!NativeCases : K!NativeMisses(n))
           \/ UNCHANGED K!vars
  BY <1>1 DEF K!Join, K!OtherRunner, K!NativeMisses, K!vars, RowInv
<1>2. ASSUME NEW n \in K!SkipNames, K!NotPassing(n) PROVE RowInv'
  BY <1>2 DEF K!NotPassing, RowInv, K!Ways
<1>3. ASSUME NEW where \in {"reference", "shards"}, NEW m \in K!Modules, K!SkipModule(where, m)
      PROVE RowInv'
  BY <1>3, SkipModuleKeepsRows
<1> QED
  BY <1>1, <1>2, <1>3 DEF K!Next

LEMMA AdmitKeeps == SkipInv /\ [K!Next]_(K!vars) => SkipInv'
<1> SUFFICES ASSUME SkipInv, [K!Next]_(K!vars) PROVE SkipInv'
  OBVIOUS
<1>0. RowInv'
  BY RowsKept DEF SkipInv
<1>1. CASE K!Join \/ UNCHANGED K!vars
  <2>1. UNCHANGED <<moduleBlob, policy, context, caseOutcome, nativePassed, collected>>
    BY <1>1 DEF K!Join, K!vars
  <2>2. K!AdmitSkips' = K!AdmitSkips
    BY <2>1 DEF K!AdmitSkips, K!ReviewsSucceed, K!Board139Agrees, K!FirstNativeAgrees,
                K!SpecificSkip, K!PlainSkip, K!CanceledBackupSkip, K!RetiredHostSkip,
                K!Hosted, K!Board139Cases, K!FirstNative, K!CollectionSkips
  <2>3. skipVerdict' = "NO_NEW_SKIPS" => K!AdmitSkips
    BY <1>1 DEF K!Join, K!vars, SkipInv
  <2> QED
    BY <1>0, <2>2, <2>3 DEF SkipInv
<1>2. CASE K!OtherRunner \/ (\E n \in K!SkipNames : K!NotPassing(n))
           \/ (\E n \in K!NativeCases : K!NativeMisses(n))
           \/ \E where \in {"reference", "shards"}, m \in K!Modules : K!SkipModule(where, m)
  <2>1. skipVerdict = "none" /\ skipVerdict' = skipVerdict
    BY <1>2 DEF K!OtherRunner, K!NotPassing, K!NativeMisses, K!SkipModule, K!Running
  <2> QED
    BY <1>0, <2>1 DEF SkipInv
<1> QED
  BY <1>1, <1>2 DEF K!Next

\* However much goes wrong in a run: one without new skips has executed every
\* case but those a review named at the blob of their module, and those of the
\* module that the historical run skipped whole at its blob (admit_skips).
THEOREM SkipsStayNamed ==
    /\ K!Spec => []K!SkipsStayReviewed
    /\ EvidenceSpec => []SkipsStayReviewed
<1>1. K!Init => SkipInv
  BY DEF K!Init, SkipInv, RowInv
<1>2. SkipInv => K!SkipsStayReviewed
  BY AdmittedIsExcused DEF SkipInv, K!SkipsStayReviewed, Excused
<1>3. EvidenceInit => (subject = "skips" => SkipInv)
  BY <1>1 DEF EvidenceInit
<1>4. (subject = "skips" => SkipInv) /\ [EvidenceNext]_allVars
         => (subject = "skips" => SkipInv)'
  BY AdmitKeeps, OneMoves
<1>5. (subject = "skips" => SkipInv) => SkipsStayReviewed
  BY <1>2 DEF SkipsStayReviewed
<1> QED
  BY <1>1, <1>2, <1>3, <1>4, <1>5, AdmitKeeps, PTL DEF K!Spec, EvidenceSpec

-----------------------------------------------------------------------------
(* The record of a legacy run.                                             *)

\* Induction, for a set.
LEMMA EveryNumber ==
    ASSUME NEW Q, 0 \in Q, \A n \in Nat : n \in Q => n + 1 \in Q
    PROVE  \A n \in Nat : n \in Q
<1> SUFFICES ASSUME Nat \ Q # {} PROVE FALSE
  OBVIOUS
<1>1. PICK n \in Nat \ Q : \A m \in Nat \ Q : n <= m
  BY LeastNumber
<1>2. n - 1 \in Nat /\ ~(n <= n - 1) /\ (n - 1) + 1 = n
  BY <1>1
<1> QED
  BY <1>1, <1>2

-----------------------------------------------------------------------------
(* Entries picked out of a sequence.                                       *)

\* What is picked of the first n entries.
IsPicking(f, s, places, n) ==
    f = [m \in 0..n |-> IF m = 0 THEN <<>>
                        ELSE IF m \in places THEN Append(f[m - 1], s[m])
                        ELSE f[m - 1]]

LEMMA PickingExists ==
    ASSUME NEW s, NEW places
    PROVE  \A n \in Nat : \E f : IsPicking(f, s, places, n)
<1> DEFINE Q == {n \in Nat : \E f : IsPicking(f, s, places, n)}
<1>1. 0 \in Q
  <2>1. IsPicking([m \in 0..0 |-> <<>>], s, places, 0)
    BY DEF IsPicking
  <2> QED
    BY <2>1
<1>2. ASSUME NEW n \in Nat, n \in Q PROVE n + 1 \in Q
  <2>1. PICK f : IsPicking(f, s, places, n)
    BY <1>2
  <2> DEFINE last == IF n + 1 \in places THEN Append(f[n], s[n + 1]) ELSE f[n]
             g == [m \in 0..(n + 1) |-> IF m = n + 1 THEN last ELSE f[m]]
  <2>2. \A m \in 0..n : f[m] = IF m = 0 THEN <<>>
                               ELSE IF m \in places THEN Append(f[m - 1], s[m]) ELSE f[m - 1]
    BY <2>1 DEF IsPicking
  <2>3. ASSUME NEW m \in 0..(n + 1)
        PROVE  g[m] = IF m = 0 THEN <<>>
                      ELSE IF m \in places THEN Append(g[m - 1], s[m]) ELSE g[m - 1]
    <3>1. CASE m = n + 1
      <4>1. g[m] = last /\ m - 1 = n /\ g[m - 1] = f[n]
        BY <3>1
      <4> QED
        BY <3>1, <4>1
    <3>2. CASE m # n + 1
      <4>1. m \in 0..n /\ g[m] = f[m] /\ (m # 0 => m - 1 \in 0..n /\ g[m - 1] = f[m - 1])
        BY <3>2
      <4> HIDE DEF g
      <4> QED
        BY <2>2, <4>1
    <3> QED
      BY <3>1, <3>2
  <2>4. IsPicking(g, s, places, n + 1)
    <3>1. g = [m \in 0..(n + 1) |-> g[m]]
      OBVIOUS
    <3> HIDE DEF g
    <3> QED
      BY <2>3, <3>1 DEF IsPicking
  <2> HIDE DEF g
  <2> QED
    BY <2>4
<1> HIDE DEF Q
<1>3. \A n \in Nat : n \in Q
  BY <1>1, <1>2, EveryNumber
<1> QED
  BY <1>3 DEF Q

LEMMA PickingUnique ==
    ASSUME NEW s, NEW t, NEW here, NEW there, NEW n \in Nat, NEW m \in Nat, n <= m,
           \A i \in 1..n : s[i] = t[i] /\ (i \in here <=> i \in there),
           NEW f, IsPicking(f, s, here, n), NEW g, IsPicking(g, t, there, m)
    PROVE  f[n] = g[n]
<1> DEFINE Q == {k \in Nat : k <= n => f[k] = g[k]}
<1>1. \A k \in 0..n : f[k] = IF k = 0 THEN <<>>
                             ELSE IF k \in here THEN Append(f[k - 1], s[k]) ELSE f[k - 1]
  BY DEF IsPicking
<1>2. \A k \in 0..m : g[k] = IF k = 0 THEN <<>>
                             ELSE IF k \in there THEN Append(g[k - 1], t[k]) ELSE g[k - 1]
  BY DEF IsPicking
<1>3. 0 \in Q
  BY <1>1, <1>2
<1>4. ASSUME NEW k \in Nat, k \in Q PROVE k + 1 \in Q
  <2>1. SUFFICES ASSUME k + 1 <= n PROVE f[k + 1] = g[k + 1]
    OBVIOUS
  <2>2. /\ k + 1 \in 0..n /\ k + 1 \in 0..m /\ k + 1 \in 1..n /\ k + 1 # 0 /\ (k + 1) - 1 = k
        /\ f[k] = g[k]
    BY <1>4, <2>1
  <2> QED
    BY <1>1, <1>2, <2>2
<1> HIDE DEF Q
<1>5. n \in Q
  BY <1>3, <1>4, EveryNumber
<1> QED
  BY <1>5 DEF Q

LEMMA PickedIs ==
    ASSUME NEW s, NEW places, Len(s) \in Nat
    PROVE  \E f : /\ IsPicking(f, s, places, Len(s))
                  /\ Legacy!Picked(s, places) = f[Len(s)]
<1> DEFINE g == CHOOSE f : IsPicking(f, s, places, Len(s))
<1>1. IsPicking(g, s, places, Len(s))
  BY PickingExists
<1>2. Legacy!Picked(s, places) = g[Len(s)]
  BY DEF Legacy!Picked, IsPicking
<1> QED
  BY <1>1, <1>2

\* One more entry.
LEMMA PickedAppend ==
    ASSUME NEW S, NEW s \in Seq(S), NEW e \in S, NEW here, NEW there,
           \A i \in 1..Len(s) : i \in here <=> i \in there
    PROVE  Legacy!Picked(Append(s, e), there) =
              IF Len(s) + 1 \in there THEN Append(Legacy!Picked(s, here), e) ELSE Legacy!Picked(s, here)
<1> DEFINE n == Len(s)
           t == Append(s, e)
<1>1. n \in Nat /\ Len(t) = n + 1 /\ t[n + 1] = e /\ \A i \in 1..n : s[i] = t[i]
  OBVIOUS
<1> HIDE DEF t
<1>2. PICK f : IsPicking(f, s, here, n) /\ Legacy!Picked(s, here) = f[n]
  BY <1>1, PickedIs
<1>3. PICK g : IsPicking(g, t, there, n + 1) /\ Legacy!Picked(t, there) = g[n + 1]
  <2>1. Len(t) \in Nat
    BY <1>1
  <2> QED
    BY <1>1, <2>1, PickedIs
<1> HIDE DEF n
<1>4. f[n] = g[n]
  BY <1>1, <1>2, <1>3, PickingUnique DEF n
<1>5. g[n + 1] = IF n + 1 \in there THEN Append(g[n], e) ELSE g[n]
  <2>1. n + 1 \in 0..(n + 1) /\ n + 1 # 0 /\ (n + 1) - 1 = n
    BY <1>1
  <2> QED
    BY <1>1, <1>3, <2>1 DEF IsPicking
<1> QED
  BY <1>2, <1>3, <1>4, <1>5 DEF n, t

PicksThose(picks, s, places, k, S) ==
    /\ picks \in Seq(S)
    /\ \A x : (\E j \in DOMAIN picks : picks[j] = x)
              <=> \E i \in 1..k : i \in places /\ s[i] = x

\* What is picked are the entries at these places.
LEMMA PickedMembers ==
    ASSUME NEW S, NEW s \in Seq(S), NEW places
    PROVE  PicksThose(Legacy!Picked(s, places), s, places, Len(s), S)
<1> DEFINE n == Len(s)
<1>1. n \in Nat /\ DOMAIN s = 1..n /\ \A i \in 1..n : s[i] \in S
  OBVIOUS
<1>2. PICK f : IsPicking(f, s, places, n) /\ Legacy!Picked(s, places) = f[n]
  BY <1>1, PickedIs
<1>3. \A k \in 0..n : f[k] = IF k = 0 THEN <<>>
                             ELSE IF k \in places THEN Append(f[k - 1], s[k]) ELSE f[k - 1]
  BY <1>2 DEF IsPicking
<1> HIDE DEF n
<1> DEFINE Q == {k \in Nat : k <= n => PicksThose(f[k], s, places, k, S)}
<1>4. 0 \in Q
  <2>1. f[0] = <<>>
    BY <1>1, <1>3
  <2>2. PicksThose(f[0], s, places, 0, S)
    BY <2>1 DEF PicksThose
  <2> QED
    BY <2>2
<1>5. ASSUME NEW k \in Nat, k \in Q PROVE k + 1 \in Q
  <2>1. SUFFICES ASSUME k + 1 <= n PROVE PicksThose(f[k + 1], s, places, k + 1, S)
    OBVIOUS
  <2>2. k + 1 \in 0..n /\ k + 1 \in 1..n /\ k + 1 # 0 /\ (k + 1) - 1 = k /\ k <= n
    BY <1>1, <2>1
  <2>7. PicksThose(f[k], s, places, k, S)
    BY <1>5, <2>2
  <2>3. 1..(k + 1) = 1..k \cup {k + 1}
    OBVIOUS
  <2>4. s[k + 1] \in S
    BY <1>1, <2>2
  <2>5. CASE k + 1 \in places
    <3>1. f[k + 1] = Append(f[k], s[k + 1])
      BY <1>3, <2>2, <2>5
    <3>2. f[k] \in Seq(S)
      BY <2>7 DEF PicksThose
    <3>3. /\ f[k + 1] \in Seq(S)
          /\ \A x : (\E j \in DOMAIN f[k + 1] : f[k + 1][j] = x)
                    <=> x = s[k + 1] \/ \E j \in DOMAIN f[k] : f[k][j] = x
      <4> DEFINE h == f[k]
                 e == s[k + 1]
      <4>1. h \in Seq(S) /\ e \in S
        BY <2>4, <3>2
      <4> HIDE DEF h, e
      <4>2. Append(h, e) \in Seq(S)
        BY <4>1
      <4>3. \A x : (\E j \in DOMAIN Append(h, e) : Append(h, e)[j] = x)
                    <=> x = e \/ \E j \in DOMAIN h : h[j] = x
        <5>1. /\ DOMAIN Append(h, e) = 1..(Len(h) + 1) /\ DOMAIN h = 1..Len(h) /\ Len(h) \in Nat
              /\ Append(h, e)[Len(h) + 1] = e
              /\ \A j \in 1..Len(h) : Append(h, e)[j] = h[j]
          BY <4>1
        <5>2. 1..(Len(h) + 1) = 1..Len(h) \cup {Len(h) + 1}
          BY <5>1
        <5> QED
          BY <5>1, <5>2
      <4> QED
        BY <3>1, <4>2, <4>3 DEF h, e
    <3> QED
      BY <2>3, <2>5, <2>7, <3>3 DEF PicksThose
  <2>6. CASE k + 1 \notin places
    <3>1. f[k + 1] = f[k]
      BY <1>3, <2>2, <2>6
    <3> QED
      BY <2>3, <2>6, <2>7, <3>1 DEF PicksThose
  <2> QED
    BY <2>5, <2>6
<1> HIDE DEF Q
<1>6. n \in Q
  BY <1>1, <1>4, <1>5, EveryNumber
<1>7. PicksThose(f[n], s, places, n, S)
  BY <1>1, <1>6 DEF Q
<1> QED
  BY <1>2, <1>7 DEF n

-----------------------------------------------------------------------------
(* The recorded stream.                                                    *)

NamesOf == {RunCases[i] : i \in DOMAIN RunCases}
Whens == {"setup", "call", "teardown"}
PhaseSet == (NamesOf \cup {Nested}) \X Whens \X {"passed", "failed"}
DataSet == Nat \cup {Prepared, Other, RunCases, "finished", "failed"} \cup PhaseSet
Kinds == {"start", "identity", "corpus", "collection", "phase", "timing", "finish"}
EventSet == [event : Kinds, data : DataSet]

LEMMA EventIs ==
    ASSUME NEW kind \in Kinds, NEW data \in DataSet
    PROVE  /\ Legacy!Event(kind, data) \in EventSet
           /\ Legacy!Event(kind, data).event = kind /\ Legacy!Event(kind, data).data = data
BY DEF Legacy!Event, EventSet

OfIn(s, kind) == Legacy!Picked(s, {i \in DOMAIN s : s[i].event = kind})
EntriesOf(s) == {s[i] : i \in DOMAIN s}
Starts(s) == Len(OfIn(s, "start")) + Len(OfIn(s, "identity"))
DataOf(s) == [i \in DOMAIN OfIn(s, "phase") |-> OfIn(s, "phase")[i].data]

LEMMA OfMembers ==
    ASSUME NEW s \in Seq(EventSet), NEW kind
    PROVE  /\ OfIn(s, kind) \in Seq(EventSet)
           /\ \A x : (\E j \in DOMAIN OfIn(s, kind) : OfIn(s, kind)[j] = x)
                     <=> x \in EntriesOf(s) /\ x.event = kind
<1> DEFINE places == {i \in DOMAIN s : s[i].event = kind}
<1> HIDE DEF places
<1>1. PicksThose(Legacy!Picked(s, places), s, places, Len(s), EventSet)
  BY PickedMembers
<1>2. \A x : (\E i \in 1..Len(s) : i \in places /\ s[i] = x) <=> x \in EntriesOf(s) /\ x.event = kind
  BY DEF EntriesOf, places
<1>3. OfIn(s, kind) = Legacy!Picked(s, places)
  BY DEF OfIn, places
<1> QED
  BY <1>1, <1>2, <1>3 DEF PicksThose

LEMMA OfAppend ==
    ASSUME NEW s \in Seq(EventSet), NEW e \in EventSet, NEW kind
    PROVE  OfIn(Append(s, e), kind) = IF e.event = kind THEN Append(OfIn(s, kind), e)
                                      ELSE OfIn(s, kind)
<1> DEFINE t == Append(s, e)
           here == {i \in DOMAIN s : s[i].event = kind}
           there == {i \in DOMAIN t : t[i].event = kind}
<1>1. /\ DOMAIN s = 1..Len(s) /\ DOMAIN t = 1..(Len(s) + 1) /\ Len(s) \in Nat
      /\ t[Len(s) + 1] = e /\ \A i \in 1..Len(s) : t[i] = s[i]
  OBVIOUS
<1> HIDE DEF t
<1>2. \A i \in 1..Len(s) : i \in here <=> i \in there
  BY <1>1
<1>3. Len(s) + 1 \in there <=> e.event = kind
  BY <1>1
<1> HIDE DEF here, there
<1>4. Legacy!Picked(t, there) = IF Len(s) + 1 \in there THEN Append(Legacy!Picked(s, here), e)
                           ELSE Legacy!Picked(s, here)
  BY <1>2, PickedAppend DEF t
<1> QED
  BY <1>3, <1>4 DEF OfIn, t, here, there

\* One more record.
LEMMA AppendRecord ==
    ASSUME NEW s \in Seq(EventSet), NEW e \in EventSet
    PROVE  /\ Append(s, e) \in Seq(EventSet)
           /\ EntriesOf(Append(s, e)) = EntriesOf(s) \cup {e}
           /\ Starts(s) \in Nat
           /\ e.event \in {"start", "identity"} => Starts(Append(s, e)) = Starts(s) + 1
           /\ e.event \notin {"start", "identity"} => Starts(Append(s, e)) = Starts(s)
           /\ DataOf(s) \in Seq({x.data : x \in EventSet})
           /\ e.event = "phase" => DataOf(Append(s, e)) = Append(DataOf(s), e.data)
           /\ e.event # "phase" => DataOf(Append(s, e)) = DataOf(s)
<1>1. /\ \A kind : OfIn(s, kind) \in Seq(EventSet)
      /\ \A kind : OfIn(Append(s, e), kind) =
                      IF e.event = kind THEN Append(OfIn(s, kind), e) ELSE OfIn(s, kind)
  BY OfMembers, OfAppend
<1>2. Append(s, e) \in Seq(EventSet) /\ EntriesOf(Append(s, e)) = EntriesOf(s) \cup {e}
  <2>1. /\ DOMAIN s = 1..Len(s) /\ DOMAIN Append(s, e) = 1..(Len(s) + 1) /\ Len(s) \in Nat
        /\ Append(s, e)[Len(s) + 1] = e /\ \A i \in 1..Len(s) : Append(s, e)[i] = s[i]
    OBVIOUS
  <2>2. 1..(Len(s) + 1) = 1..Len(s) \cup {Len(s) + 1}
    BY <2>1
  <2> QED
    BY <2>1, <2>2 DEF EntriesOf
<1>3. /\ Starts(s) \in Nat
      /\ e.event \in {"start", "identity"} => Starts(Append(s, e)) = Starts(s) + 1
      /\ e.event \notin {"start", "identity"} => Starts(Append(s, e)) = Starts(s)
  <2> DEFINE a == OfIn(s, "start")
             b == OfIn(s, "identity")
  <2>1. a \in Seq(EventSet) /\ b \in Seq(EventSet)
    BY <1>1
  <2>2. /\ OfIn(Append(s, e), "start") = IF e.event = "start" THEN Append(a, e) ELSE a
        /\ OfIn(Append(s, e), "identity") = IF e.event = "identity" THEN Append(b, e) ELSE b
    BY <1>1
  <2>3. Starts(s) = Len(a) + Len(b)
    BY DEF Starts
  <2>4. Starts(Append(s, e)) = Len(IF e.event = "start" THEN Append(a, e) ELSE a)
                             + Len(IF e.event = "identity" THEN Append(b, e) ELSE b)
    BY <2>2 DEF Starts
  <2> HIDE DEF a, b
  <2>5. /\ Len(a) \in Nat /\ Len(b) \in Nat
        /\ Len(Append(a, e)) = Len(a) + 1 /\ Len(Append(b, e)) = Len(b) + 1
    BY <2>1
  <2>6. CASE e.event = "start"
    BY <2>3, <2>4, <2>5, <2>6
  <2>7. CASE e.event = "identity"
    BY <2>3, <2>4, <2>5, <2>7
  <2>8. CASE e.event # "start" /\ e.event # "identity"
    BY <2>3, <2>4, <2>5, <2>8
  <2> QED
    BY <2>6, <2>7, <2>8
<1>4. /\ DataOf(s) \in Seq({x.data : x \in EventSet})
      /\ e.event = "phase" => DataOf(Append(s, e)) = Append(DataOf(s), e.data)
      /\ e.event # "phase" => DataOf(Append(s, e)) = DataOf(s)
  <2> DEFINE a == OfIn(s, "phase")
             D == {x.data : x \in EventSet}
  <2>1. a \in Seq(EventSet)
    BY <1>1
  <2>2. OfIn(Append(s, e), "phase") = IF e.event = "phase" THEN Append(a, e) ELSE a
    BY <1>1
  <2>3. DataOf(s) = [i \in DOMAIN a |-> a[i].data]
    BY DEF DataOf
  <2>4. e.event = "phase" => DataOf(Append(s, e)) = [i \in DOMAIN Append(a, e) |-> Append(a, e)[i].data]
    BY <2>2 DEF DataOf
  <2>5. e.event # "phase" => DataOf(Append(s, e)) = DataOf(s)
    BY <2>2 DEF DataOf
  <2> HIDE DEF a, D
  <2>6. DOMAIN a = 1..Len(a) /\ Len(a) \in Nat /\ \A i \in 1..Len(a) : a[i] \in EventSet
    BY <2>1
  <2>7. DataOf(s) \in Seq(D)
    BY <2>3, <2>6 DEF D
  <2>8. [i \in DOMAIN Append(a, e) |-> Append(a, e)[i].data] = Append(DataOf(s), e.data)
    <3>1. /\ DOMAIN Append(a, e) = 1..(Len(a) + 1) /\ Append(a, e)[Len(a) + 1] = e
          /\ \A i \in 1..Len(a) : Append(a, e)[i] = a[i]
      BY <2>1, <2>6
    <3>2. Len(DataOf(s)) = Len(a) /\ \A i \in 1..Len(a) : DataOf(s)[i] = a[i].data
      BY <2>3, <2>6, <2>7
    <3>3. /\ DOMAIN Append(DataOf(s), e.data) = 1..(Len(a) + 1)
          /\ Append(DataOf(s), e.data)[Len(a) + 1] = e.data
          /\ \A i \in 1..Len(a) : Append(DataOf(s), e.data)[i] = a[i].data
          /\ Append(DataOf(s), e.data) = [i \in 1..(Len(a) + 1) |-> Append(DataOf(s), e.data)[i]]
      BY <2>6, <2>7, <3>2
    <3>4. \A i \in 1..(Len(a) + 1) : Append(a, e)[i].data = Append(DataOf(s), e.data)[i]
      <4>1. 1..(Len(a) + 1) = 1..Len(a) \cup {Len(a) + 1}
        BY <2>6
      <4> QED
        BY <3>1, <3>3, <4>1
    <3> QED
      BY <3>1, <3>3, <3>4
  <2> QED
    BY <2>4, <2>5, <2>7, <2>8 DEF D
<1> QED
  BY <1>2, <1>3, <1>4

LEMMA SequenceOfOne ==
    ASSUME NEW S, NEW s \in Seq(S), Len(s) = 1
    PROVE  s = <<s[1]>>
<1>1. s = [i \in 1..1 |-> s[i]] /\ 1..1 = {1}
  OBVIOUS
<1>2. <<s[1]>> = [i \in 1..1 |-> s[1]]
  OBVIOUS
<1> QED
  BY <1>1, <1>2

\* A write adds its records, or all but one when it fails.
LEMMA WriteOne ==
    ASSUME NEW a \in EventSet, NEW failed, stream \in Seq(EventSet), Legacy!Write(<<a>>, failed)
    PROVE  /\ stream' \in {stream, Append(stream, a)}
           /\ lostWrites' \in {failed, failed + 1}
<1>1. stream \o <<a>> = Append(stream, a)
  OBVIOUS
<1>2. ASSUME NEW i \in DOMAIN <<a>>
      PROVE  (stream \o SubSeq(<<a>>, 1, i - 1)) \o SubSeq(<<a>>, i + 1, Len(<<a>>)) = stream
  <2>1. i = 1
    OBVIOUS
  <2>2. SubSeq(<<a>>, 1, 0) = <<>> /\ SubSeq(<<a>>, 2, 1) = <<>> /\ Len(<<a>>) = 1
    OBVIOUS
  <2>3. stream \o <<>> = stream
    OBVIOUS
  <2> QED
    BY <2>1, <2>2, <2>3
<1> QED
  BY <1>1, <1>2 DEF Legacy!Write

LEMMA WriteTwo ==
    ASSUME NEW a \in EventSet, NEW b \in EventSet, NEW failed, stream \in Seq(EventSet),
           Legacy!Write(<<a, b>>, failed)
    PROVE  \/ stream' = Append(Append(stream, a), b) /\ lostWrites' = failed
           \/ stream' \in {Append(stream, a), Append(stream, b)} /\ lostWrites' = failed + 1
<1>1. stream \o <<a, b>> = Append(Append(stream, a), b)
  OBVIOUS
<1>2. ASSUME NEW i \in DOMAIN <<a, b>>
      PROVE  (stream \o SubSeq(<<a, b>>, 1, i - 1)) \o SubSeq(<<a, b>>, i + 1, Len(<<a, b>>))
                \in {Append(stream, a), Append(stream, b)}
  <2>1. i \in {1, 2} /\ Len(<<a, b>>) = 2
    OBVIOUS
  <2>2. /\ SubSeq(<<a, b>>, 1, 0) = <<>> /\ SubSeq(<<a, b>>, 2, 2) = <<b>>
        /\ SubSeq(<<a, b>>, 1, 1) = <<a>> /\ SubSeq(<<a, b>>, 3, 2) = <<>>
    <3> DEFINE pair == <<a, b>>
    <3>1. pair \in Seq(EventSet) /\ Len(pair) = 2 /\ pair[1] = a /\ pair[2] = b
      OBVIOUS
    <3> HIDE DEF pair
    <3>2. SubSeq(pair, 1, 0) = <<>> /\ SubSeq(pair, 3, 2) = <<>>
      BY <3>1
    <3>3. /\ SubSeq(pair, 2, 2) \in Seq(EventSet) /\ Len(SubSeq(pair, 2, 2)) = 1
          /\ SubSeq(pair, 2, 2)[1] = b
      BY <3>1
    <3>4. /\ SubSeq(pair, 1, 1) \in Seq(EventSet) /\ Len(SubSeq(pair, 1, 1)) = 1
          /\ SubSeq(pair, 1, 1)[1] = a
      BY <3>1
    <3>5. SubSeq(pair, 2, 2) = <<b>> /\ SubSeq(pair, 1, 1) = <<a>>
      BY <3>3, <3>4, SequenceOfOne
    <3> QED
      BY <3>2, <3>5 DEF pair
  <2>3. /\ (stream \o <<>>) \o <<b>> = Append(stream, b)
        /\ (stream \o <<a>>) \o <<>> = Append(stream, a)
    OBVIOUS
  <2>4. CASE i = 1
    BY <2>1, <2>2, <2>3, <2>4
  <2>5. CASE i = 2
    BY <2>1, <2>2, <2>3, <2>5
  <2> QED
    BY <2>1, <2>4, <2>5
<1> QED
  BY <1>1, <1>2 DEF Legacy!Write

-----------------------------------------------------------------------------
(* The inductive invariant of the recorder.                                *)

\* The phases of a case in their order.
RankOf == [setup |-> 0, call |-> 1, teardown |-> 2]
Happened == EntriesOf(phasesRan)
Done == Len(RunCases) - Len(todo)

RecordType ==
    /\ stream \in Seq(EventSet) /\ phasesRan \in Seq(PhaseSet) /\ todo \in Seq(NamesOf)
    /\ phase \in Whens /\ lostWrites \in Nat /\ sessions \in Nat

\* A session that recorded only one of its first two lines has counted a loss.
CountInv ==
    /\ Starts(stream) >= sessions
    /\ sessions # 0 /\ Starts(stream) <= sessions =>
          lostWrites >= 1 /\ \A e \in EntriesOf(stream) : e.event = "timing" => e.data # 0
    /\ sessions = 0 => stream = <<>> /\ proc = "none" /\ phasesRan = <<>> /\ todo = <<>>

CorpusInv == \A e \in EntriesOf(stream) : e.event = "corpus" => e.data = RunCases

\* Where the first session is: each phase happens once.
RunInv ==
    /\ Len(todo) <= Len(RunCases)
    /\ \A i \in 1..Len(todo) : todo[i] = RunCases[Done + i]
    /\ proc = "started" => phase = "setup" /\ phasesRan = <<>>
    /\ \A p \in Happened : \E j \in 1..Len(RunCases) :
          /\ p[1] = RunCases[j]
          /\ j <= Done \/ (j = Done + 1 /\ RankOf[p[2]] < RankOf[phase])
    /\ \A p \in Happened : p[2] = "call" => <<p[1], "setup", "passed">> \in Happened
    /\ phase = "call" /\ todo # <<>> => <<todo[1], "setup", "passed">> \in Happened
    /\ \A p, q \in Happened : p[1] = q[1] /\ p[2] = q[2] => p = q

\* Its record is what happened, unless a phase is missing in it for good.
Missing(p) == \A e \in EntriesOf(stream) : e.event = "phase" => e.data # p
PhasesInv ==
    /\ \A e \in EntriesOf(stream) : e.event = "phase" => e.data \in Happened
    /\ DataOf(stream) = phasesRan \/ \E p \in Happened : Missing(p)

FinishInv == \A e \in EntriesOf(stream) : e.event = "finish" => todo = <<>> /\ proc = "over"

TimingInv == /\ RecordType /\ CountInv /\ CorpusInv
             /\ sessions <= 1 => RunInv /\ PhasesInv /\ FinishInv

LEMMA TimingInit == Legacy!Init => TimingInv
<1> SUFFICES ASSUME Legacy!Init PROVE TimingInv
  OBVIOUS
<1>1. stream = <<>> /\ phasesRan = <<>> /\ todo = <<>> /\ proc = "none" /\ sessions = 0 /\ lostWrites = 0
      /\ phase = "setup"
  BY DEF Legacy!Init
<1>2. EntriesOf(stream) = {} /\ Happened = {}
  BY <1>1 DEF EntriesOf, Happened
<1>3. stream \in Seq(EventSet) /\ phasesRan \in Seq(PhaseSet) /\ todo \in Seq(NamesOf)
  BY <1>1
<1>4. \A kind : OfIn(stream, kind) = <<>>
  <2> TAKE kind
  <2> DEFINE picks == OfIn(stream, kind)
  <2>1. /\ picks \in Seq(EventSet)
        /\ \A x : ~\E j \in DOMAIN picks : picks[j] = x
    BY <1>2, <1>3, OfMembers
  <2> HIDE DEF picks
  <2>2. Len(picks) = 0
    <3>1. Len(picks) \in Nat /\ DOMAIN picks = 1..Len(picks)
      BY <2>1
    <3>2. 1 \notin DOMAIN picks
      BY <2>1
    <3> QED
      BY <3>1, <3>2
  <2>3. picks = <<>>
    BY <2>1, <2>2
  <2> QED
    BY <2>3 DEF picks
<1>5. Starts(stream) = 0 /\ DataOf(stream) = <<>>
  BY <1>4 DEF Starts, DataOf
<1>6. RecordType /\ CountInv /\ CorpusInv
  BY <1>1, <1>2, <1>3, <1>5 DEF RecordType, Whens, CountInv, CorpusInv
<1> QED
  BY <1>1, <1>2, <1>5, <1>6 DEF TimingInv, RunInv, PhasesInv, FinishInv

\* A record that is neither a phase nor at the beginning of a session.
LEMMA OtherRecord ==
    ASSUME NEW s \in Seq(EventSet), NEW e \in EventSet, e.event \notin {"start", "identity", "phase"}
    PROVE  /\ Append(s, e) \in Seq(EventSet)
           /\ EntriesOf(Append(s, e)) = EntriesOf(s) \cup {e}
           /\ Starts(Append(s, e)) = Starts(s) /\ Starts(s) \in Nat
           /\ DataOf(Append(s, e)) = DataOf(s)
BY AppendRecord

\* What is recorded of some records: all, none or some of them.
RecordsOf(events) ==
    /\ stream' \in Seq(EventSet)
    /\ EntriesOf(stream) \subseteq EntriesOf(stream')
    /\ EntriesOf(stream') \subseteq EntriesOf(stream) \cup events
    /\ lostWrites' \in Nat /\ lostWrites' >= lostWrites

LEMMA RecordOne ==
    ASSUME RecordType, NEW a \in EventSet, a.event \notin {"start", "identity"}, Legacy!Record(<<a>>)
    PROVE  /\ RecordsOf({a}) /\ Starts(stream') = Starts(stream)
           /\ stream' = stream \/ stream' = Append(stream, a)
<1>1. stream \in Seq(EventSet) /\ lostWrites \in Nat
  BY DEF RecordType
<1>2. CASE nested > 0
  BY <1>1, <1>2 DEF Legacy!Record, RecordsOf
<1>3. CASE ~(nested > 0)
  <2>1. stream' \in {stream, Append(stream, a)} /\ lostWrites' \in {lostWrites, lostWrites + 1}
    BY <1>1, <1>3, WriteOne DEF Legacy!Record
  <2>2. CASE stream' = stream
    BY <1>1, <2>1, <2>2 DEF RecordsOf
  <2>3. CASE stream' = Append(stream, a)
    <3>1. /\ Append(stream, a) \in Seq(EventSet)
          /\ EntriesOf(Append(stream, a)) = EntriesOf(stream) \cup {a}
          /\ Starts(Append(stream, a)) = Starts(stream)
      BY <1>1, AppendRecord
    <3> QED
      BY <1>1, <2>1, <2>3, <3>1 DEF RecordsOf
  <2> QED
    BY <2>1, <2>2, <2>3
<1> QED
  BY <1>2, <1>3

LEMMA RecordTwo ==
    ASSUME RecordType, NEW a \in EventSet, NEW b \in EventSet,
           {a.event, b.event} \cap {"start", "identity", "phase"} = {}, Legacy!Record(<<a, b>>)
    PROVE  RecordsOf({a, b}) /\ Starts(stream') = Starts(stream) /\ DataOf(stream') = DataOf(stream)
<1>1. stream \in Seq(EventSet) /\ lostWrites \in Nat
  BY DEF RecordType
<1>2. CASE nested > 0
  BY <1>1, <1>2 DEF Legacy!Record, RecordsOf
<1>3. CASE ~(nested > 0)
  <2>1. \/ stream' = Append(Append(stream, a), b) /\ lostWrites' = lostWrites
        \/ stream' \in {Append(stream, a), Append(stream, b)} /\ lostWrites' = lostWrites + 1
    BY <1>1, <1>3, WriteTwo DEF Legacy!Record
  <2>2. /\ Append(stream, a) \in Seq(EventSet)
        /\ EntriesOf(Append(stream, a)) = EntriesOf(stream) \cup {a}
        /\ Starts(Append(stream, a)) = Starts(stream)
        /\ DataOf(Append(stream, a)) = DataOf(stream)
    BY <1>1, OtherRecord
  <2>3. /\ Append(stream, b) \in Seq(EventSet)
        /\ EntriesOf(Append(stream, b)) = EntriesOf(stream) \cup {b}
        /\ Starts(Append(stream, b)) = Starts(stream)
        /\ DataOf(Append(stream, b)) = DataOf(stream)
    BY <1>1, OtherRecord
  <2>4. /\ Append(Append(stream, a), b) \in Seq(EventSet)
        /\ EntriesOf(Append(Append(stream, a), b)) = EntriesOf(stream) \cup {a, b}
        /\ Starts(Append(Append(stream, a), b)) = Starts(stream)
        /\ DataOf(Append(Append(stream, a), b)) = DataOf(stream)
    <3> DEFINE s == Append(stream, a)
    <3>1. s \in Seq(EventSet) /\ b.event \notin {"start", "identity", "phase"}
      BY <2>2
    <3> HIDE DEF s
    <3>2. /\ Append(s, b) \in Seq(EventSet)
          /\ EntriesOf(Append(s, b)) = EntriesOf(s) \cup {b}
          /\ Starts(Append(s, b)) = Starts(s)
          /\ DataOf(Append(s, b)) = DataOf(s)
      BY <3>1, OtherRecord
    <3>3. /\ EntriesOf(s) = EntriesOf(stream) \cup {a}
          /\ Starts(s) = Starts(stream) /\ DataOf(s) = DataOf(stream)
      BY <2>2 DEF s
    <3>4. EntriesOf(Append(s, b)) = EntriesOf(stream) \cup {a, b}
      BY <3>2, <3>3
    <3>5. Starts(Append(s, b)) = Starts(stream) /\ DataOf(Append(s, b)) = DataOf(stream)
      BY <3>2, <3>3
    <3> QED
      BY <3>2, <3>4, <3>5 DEF s
  <2>5. lostWrites' \in Nat /\ lostWrites' >= lostWrites
    BY <1>1, <2>1
  <2>6. CASE stream' = Append(Append(stream, a), b)
    BY <2>4, <2>5, <2>6 DEF RecordsOf
  <2>7. CASE stream' = Append(stream, a)
    BY <2>2, <2>5, <2>7 DEF RecordsOf
  <2>8. CASE stream' = Append(stream, b)
    BY <2>3, <2>5, <2>8 DEF RecordsOf
  <2> QED
    BY <2>1, <2>6, <2>7, <2>8
<1> QED
  BY <1>2, <1>3

LEMMA StartRecords ==
    ASSUME RecordType, Legacy!Start
    PROVE  \E id \in {Prepared, Other} :
              LET a == Legacy!Event("start", 0)
                  b == Legacy!Event("identity", id) IN
              /\ stream' \in Seq(EventSet) /\ DataOf(stream') = DataOf(stream)
              /\ EntriesOf(stream') \subseteq EntriesOf(stream) \cup {a, b}
              /\ \/ Starts(stream') = Starts(stream) + 2 /\ lostWrites' = 0
                 \/ Starts(stream') = Starts(stream) + 1 /\ lostWrites' = 1
<1>1. PICK id \in {Prepared, Other} :
         Legacy!Write(<<Legacy!Event("start", 0), Legacy!Event("identity", id)>>, 0)
  BY DEF Legacy!Start
<1> DEFINE a == Legacy!Event("start", 0)
           b == Legacy!Event("identity", id)
<1>2. a \in EventSet /\ b \in EventSet /\ a.event = "start" /\ b.event = "identity"
  <2>1. 0 \in DataSet /\ id \in DataSet
    BY DEF DataSet
  <2>2. /\ Legacy!Event("start", 0) \in EventSet /\ Legacy!Event("start", 0).event = "start"
        /\ Legacy!Event("identity", id) \in EventSet /\ Legacy!Event("identity", id).event = "identity"
    BY <2>1, EventIs DEF Kinds
  <2> QED
    BY <2>2
<1>3. Legacy!Write(<<a, b>>, 0)
  BY <1>1
<1>4. stream \in Seq(EventSet)
  BY DEF RecordType
<1> HIDE DEF a, b
<1>5. \/ stream' = Append(Append(stream, a), b) /\ lostWrites' = 0
      \/ stream' \in {Append(stream, a), Append(stream, b)} /\ lostWrites' = 1
  BY <1>2, <1>3, <1>4, WriteTwo
<1>6. /\ Append(stream, a) \in Seq(EventSet)
      /\ EntriesOf(Append(stream, a)) = EntriesOf(stream) \cup {a}
      /\ Starts(stream) \in Nat /\ Starts(Append(stream, a)) = Starts(stream) + 1
      /\ DataOf(Append(stream, a)) = DataOf(stream)
  BY <1>2, <1>4, AppendRecord
<1>7. /\ Append(stream, b) \in Seq(EventSet)
      /\ EntriesOf(Append(stream, b)) = EntriesOf(stream) \cup {b}
      /\ Starts(Append(stream, b)) = Starts(stream) + 1
      /\ DataOf(Append(stream, b)) = DataOf(stream)
  BY <1>2, <1>4, AppendRecord
<1>8. /\ Append(Append(stream, a), b) \in Seq(EventSet)
      /\ EntriesOf(Append(Append(stream, a), b)) = EntriesOf(stream) \cup {a, b}
      /\ Starts(Append(Append(stream, a), b)) = Starts(stream) + 2
      /\ DataOf(Append(Append(stream, a), b)) = DataOf(stream)
  <2> DEFINE s == Append(stream, a)
  <2>1. s \in Seq(EventSet)
    BY <1>6
  <2>2. /\ EntriesOf(s) = EntriesOf(stream) \cup {a}
        /\ Starts(s) = Starts(stream) + 1 /\ DataOf(s) = DataOf(stream)
    BY <1>6
  <2> HIDE DEF s
  <2>3. /\ Append(s, b) \in Seq(EventSet)
        /\ EntriesOf(Append(s, b)) = EntriesOf(s) \cup {b}
        /\ Starts(Append(s, b)) = Starts(s) + 1
        /\ DataOf(Append(s, b)) = DataOf(s)
    BY <1>2, <2>1, AppendRecord
  <2>4. EntriesOf(Append(s, b)) = EntriesOf(stream) \cup {a, b}
    BY <2>2, <2>3
  <2>5. Starts(Append(s, b)) = Starts(stream) + 2 /\ DataOf(Append(s, b)) = DataOf(stream)
    BY <1>6, <2>2, <2>3
  <2> QED
    BY <2>3, <2>4, <2>5 DEF s
<1>9. /\ stream' \in Seq(EventSet) /\ DataOf(stream') = DataOf(stream)
      /\ EntriesOf(stream') \subseteq EntriesOf(stream) \cup {a, b}
      /\ \/ Starts(stream') = Starts(stream) + 2 /\ lostWrites' = 0
         \/ Starts(stream') = Starts(stream) + 1 /\ lostWrites' = 1
  <2>1. CASE stream' = Append(Append(stream, a), b) /\ lostWrites' = 0
    BY <1>8, <2>1
  <2>2. CASE stream' = Append(stream, a) /\ lostWrites' = 1
    BY <1>6, <2>2
  <2>3. CASE stream' = Append(stream, b) /\ lostWrites' = 1
    BY <1>7, <2>3
  <2> QED
    BY <1>5, <2>1, <2>2, <2>3
<1> QED
  BY <1>9 DEF a, b

LEMMA StartStep == ASSUME TimingInv, Legacy!Start PROVE TimingInv'
<1>1. PICK id \in {Prepared, Other} :
         /\ stream' \in Seq(EventSet) /\ DataOf(stream') = DataOf(stream)
         /\ EntriesOf(stream') \subseteq
               EntriesOf(stream) \cup {Legacy!Event("start", 0), Legacy!Event("identity", id)}
         /\ \/ Starts(stream') = Starts(stream) + 2 /\ lostWrites' = 0
            \/ Starts(stream') = Starts(stream) + 1 /\ lostWrites' = 1
  BY StartRecords DEF TimingInv
<1>2. /\ proc' = "started" /\ sessions' = sessions + 1 /\ phase' = "setup"
      /\ UNCHANGED <<todo, phasesRan>>
  BY DEF Legacy!Start
<1>3. /\ RecordType /\ CountInv /\ CorpusInv /\ sessions \in Nat
      /\ Starts(stream) \in Nat
  <2>1. /\ OfIn(stream, "start") \in Seq(EventSet)
        /\ OfIn(stream, "identity") \in Seq(EventSet)
    BY OfMembers DEF TimingInv, RecordType
  <2>2. Len(OfIn(stream, "start")) \in Nat /\ Len(OfIn(stream, "identity")) \in Nat
    BY <2>1
  <2> QED
    BY <2>2 DEF TimingInv, RecordType, Starts
<1>4. RecordType'
  BY <1>1, <1>2, <1>3 DEF RecordType, Whens
<1>5. \A e \in EntriesOf(stream') : e \in EntriesOf(stream) \/ e.event \in {"start", "identity"}
  BY <1>1 DEF Legacy!Event
<1>6. CountInv'
  <2>1. Starts(stream') >= sessions' /\ sessions' # 0
    BY <1>1, <1>2, <1>3 DEF CountInv
  <2>2. ASSUME Starts(stream') <= sessions'
        PROVE  lostWrites' >= 1 /\ \A e \in EntriesOf(stream') : e.event = "timing" => e.data # 0
    <3>1. lostWrites' = 1 /\ Starts(stream) <= sessions
      BY <1>1, <1>2, <1>3, <2>2 DEF CountInv
    <3>2. \A e \in EntriesOf(stream) : e.event = "timing" => e.data # 0
      BY <1>3, <3>1 DEF CountInv, EntriesOf
    <3> QED
      BY <1>5, <3>1, <3>2
  <2> QED
    BY <2>1, <2>2 DEF CountInv
<1>7. CorpusInv'
  BY <1>3, <1>5 DEF CorpusInv
<1>8. ASSUME sessions' <= 1 PROVE (RunInv /\ PhasesInv /\ FinishInv)'
  <2>1. sessions = 0 /\ stream = <<>> /\ phasesRan = <<>> /\ todo = <<>>
    BY <1>2, <1>3, <1>8 DEF CountInv
  <2>2. phasesRan' = <<>> /\ todo' = <<>> /\ Happened' = {} /\ Happened = {}
    BY <1>2, <2>1 DEF Happened, EntriesOf
  <2>3. DataOf(stream') = phasesRan'
    BY <1>1, <1>2, <2>1, <2>2 DEF TimingInv, PhasesInv
  <2>4. \A e \in EntriesOf(stream') : e.event \in {"start", "identity"}
    BY <1>5, <2>1 DEF EntriesOf
  <2>5. RunInv'
    <3>1. Len(todo') = 0 /\ Len(RunCases) >= 0
      BY <1>3, <2>1, <2>2 DEF TimingInv, RunInv
    <3> QED
      BY <1>2, <2>2, <3>1 DEF RunInv
  <2> QED
    BY <2>3, <2>4, <2>5 DEF PhasesInv, FinishInv
<1> QED
  BY <1>4, <1>6, <1>7, <1>8 DEF TimingInv

\* What more records change in the counts, when none of them begins a session.
LEMMA CountKept ==
    ASSUME CountInv, sessions # 0, RecordType, NEW events, RecordsOf(events),
           Starts(stream') = Starts(stream), sessions' = sessions,
           \A e \in events : e.event = "timing" => e.data = lostWrites
    PROVE  CountInv'
<1>1. lostWrites \in Nat /\ lostWrites' \in Nat /\ lostWrites' >= lostWrites
  BY DEF RecordType, RecordsOf
<1>2. ASSUME Starts(stream) <= sessions
      PROVE  lostWrites' >= 1 /\ \A e \in EntriesOf(stream') : e.event = "timing" => e.data # 0
  <2>1. lostWrites >= 1 /\ \A e \in EntriesOf(stream) : e.event = "timing" => e.data # 0
    BY <1>2 DEF CountInv
  <2>2. lostWrites # 0
    BY <2>1
  <2> QED
    BY <1>1, <2>1, <2>2 DEF RecordsOf
<1> QED
  BY <1>2 DEF CountInv

LEMMA CollectStep == ASSUME Legacy!CasesAssumption, TimingInv, Legacy!Collect PROVE TimingInv'
<1>1. /\ proc = "started" /\ proc' = "running" /\ UNCHANGED <<phase, phasesRan, sessions>>
      /\ \/ /\ todo' = RunCases
            /\ Legacy!Record(<<Legacy!Event("corpus", RunCases), Legacy!Event("collection", "finished")>>)
         \/ todo' = <<>> /\ Legacy!Record(<<Legacy!Event("collection", "failed")>>)
  BY DEF Legacy!Collect
<1> DEFINE a == Legacy!Event("corpus", RunCases)
           b == Legacy!Event("collection", "finished")
           c == Legacy!Event("collection", "failed")
<1>2. /\ a \in EventSet /\ a.event = "corpus" /\ a.data = RunCases
      /\ b \in EventSet /\ b.event = "collection" /\ c \in EventSet /\ c.event = "collection"
  <2>1. {RunCases, "finished", "failed"} \subseteq DataSet
    BY DEF DataSet
  <2> QED
    BY <2>1, EventIs DEF Kinds
<1>3. RecordType /\ CountInv /\ CorpusInv /\ sessions # 0
  BY <1>1 DEF TimingInv, CountInv
<1> HIDE DEF a, b, c
<1>4. /\ RecordsOf({a, b, c}) /\ Starts(stream') = Starts(stream)
      /\ DataOf(stream') = DataOf(stream)
  <2>1. CASE Legacy!Record(<<a, b>>)
    <3>1. RecordsOf({a, b}) /\ Starts(stream') = Starts(stream) /\ DataOf(stream') = DataOf(stream)
      BY <1>2, <1>3, <2>1, RecordTwo
    <3> QED
      BY <3>1 DEF RecordsOf
  <2>2. CASE Legacy!Record(<<c>>)
    <3>1. /\ RecordsOf({c}) /\ Starts(stream') = Starts(stream)
          /\ stream' = stream \/ stream' = Append(stream, c)
      BY <1>2, <1>3, <2>2, RecordOne
    <3>2. DataOf(stream') = DataOf(stream)
      BY <1>2, <1>3, <3>1, AppendRecord DEF RecordType
    <3>3. RecordsOf({c}) => RecordsOf({a, b, c})
      BY DEF RecordsOf
    <3> QED
      BY <3>1, <3>2, <3>3
  <2> QED
    BY <1>1, <2>1, <2>2 DEF a, b, c
<1>5. \A e \in EntriesOf(stream') :
         e \in EntriesOf(stream) \/ e.event = "collection" \/ (e.event = "corpus" /\ e.data = RunCases)
  BY <1>2, <1>4 DEF RecordsOf
<1>6. RunCases \in Seq(NamesOf) /\ todo' \in Seq(NamesOf)
  <2>1. RunCases \in Seq(NamesOf)
    BY DEF Legacy!CasesAssumption, NamesOf
  <2>2. <<>> \in Seq(NamesOf)
    OBVIOUS
  <2> QED
    BY <1>1, <2>1, <2>2
<1>7. RecordType'
  BY <1>1, <1>3, <1>4, <1>6 DEF RecordType, RecordsOf
<1>8. CountInv'
  BY <1>1, <1>2, <1>3, <1>4, CountKept
<1>9. CorpusInv'
  BY <1>3, <1>5 DEF CorpusInv
<1>10. ASSUME sessions' <= 1 PROVE (RunInv /\ PhasesInv /\ FinishInv)'
  <2>1. RunInv /\ PhasesInv /\ FinishInv
    BY <1>1, <1>10 DEF TimingInv
  <2>2. phasesRan = <<>> /\ phase = "setup" /\ Happened = {} /\ Happened' = {}
    <3>1. phasesRan = <<>> /\ phase = "setup"
      BY <1>1, <2>1 DEF RunInv
    <3> QED
      BY <1>1, <3>1 DEF Happened, EntriesOf
  <2>3. RunInv'
    <3>1. Len(RunCases) \in Nat
      BY <1>6
    <3>2. Len(todo') <= Len(RunCases) /\ \A i \in 1..Len(todo') : todo'[i] = RunCases[Done' + i]
      <4>1. CASE todo' = RunCases
        BY <3>1, <4>1 DEF Done
      <4>2. CASE todo' = <<>>
        BY <3>1, <4>2
      <4> QED
        BY <1>1, <4>1, <4>2
    <3> QED
      BY <1>1, <2>2, <3>2 DEF RunInv
  <2>4. PhasesInv'
    BY <1>1, <1>4, <1>5, <2>1, <2>2 DEF PhasesInv
  <2>5. FinishInv'
    BY <1>1, <1>5, <2>1 DEF FinishInv
  <2> QED
    BY <2>3, <2>4, <2>5
<1> QED
  BY <1>7, <1>8, <1>9, <1>10 DEF TimingInv

LEMMA FinishStep == ASSUME TimingInv, Legacy!Finish PROVE TimingInv'
<1> DEFINE a == Legacy!Event("timing", lostWrites)
           b == Legacy!Event("finish", 0)
<1>1. /\ proc = "running" /\ todo = <<>> /\ proc' = "over"
      /\ UNCHANGED <<todo, phase, phasesRan, sessions>> /\ Legacy!Record(<<a, b>>)
  BY DEF Legacy!Finish
<1>2. RecordType /\ CountInv /\ CorpusInv /\ sessions # 0
  BY <1>1 DEF TimingInv, CountInv
<1>3. /\ a \in EventSet /\ a.event = "timing" /\ a.data = lostWrites
      /\ b \in EventSet /\ b.event = "finish"
  <2>1. 0 \in DataSet /\ lostWrites \in DataSet
    BY <1>2 DEF DataSet, RecordType
  <2> QED
    BY <2>1, EventIs DEF Kinds
<1> HIDE DEF a, b
<1>4. RecordsOf({a, b}) /\ Starts(stream') = Starts(stream) /\ DataOf(stream') = DataOf(stream)
  BY <1>1, <1>2, <1>3, RecordTwo
<1>5. /\ \A e \in EntriesOf(stream') : e \in EntriesOf(stream) \/ e.event \in {"timing", "finish"}
      /\ EntriesOf(stream) \subseteq EntriesOf(stream')
  BY <1>3, <1>4 DEF RecordsOf
<1>6. RecordType'
  BY <1>1, <1>2, <1>4 DEF RecordType, RecordsOf
<1>7. CountInv'
  BY <1>1, <1>2, <1>3, <1>4, CountKept
<1>8. CorpusInv'
  BY <1>2, <1>5 DEF CorpusInv
<1>9. ASSUME sessions' <= 1 PROVE (RunInv /\ PhasesInv /\ FinishInv)'
  <2>1. RunInv /\ PhasesInv /\ FinishInv
    BY <1>1, <1>9 DEF TimingInv
  <2>2. Happened' = Happened /\ Done' = Done
    BY <1>1 DEF Happened, Done
  <2>3. RunInv'
    BY <1>1, <2>1, <2>2 DEF RunInv
  <2>4. PhasesInv'
    BY <1>1, <1>4, <1>5, <2>1, <2>2 DEF PhasesInv, Missing
  <2>5. FinishInv'
    BY <1>1 DEF FinishInv
  <2> QED
    BY <2>3, <2>4, <2>5
<1> QED
  BY <1>6, <1>7, <1>8, <1>9 DEF TimingInv

\* What records nothing and runs nothing.
LEMMA SilentStep ==
    ASSUME TimingInv, UNCHANGED <<todo, phase, lostWrites, stream, phasesRan, sessions>>,
           proc' = proc \/ (proc # "none" /\ proc' = "over")
    PROVE  TimingInv'
<1>1. /\ RecordType' /\ CorpusInv' /\ Happened' = Happened /\ Done' = Done
  BY DEF TimingInv, RecordType, CorpusInv, Happened, Done
<1>2. CountInv'
  BY DEF TimingInv, CountInv
<1>3. ASSUME sessions' <= 1 PROVE (RunInv /\ PhasesInv /\ FinishInv)'
  <2>1. RunInv /\ PhasesInv /\ FinishInv
    BY <1>3 DEF TimingInv
  <2>2. RunInv'
    BY <1>1, <2>1 DEF RunInv
  <2>3. PhasesInv' /\ FinishInv'
    BY <1>1, <2>1 DEF PhasesInv, FinishInv, Missing
  <2> QED
    BY <2>2, <2>3
<1> QED
  BY <1>1, <1>2, <1>3 DEF TimingInv

LEMMA PhaseStep == ASSUME Legacy!CasesAssumption, TimingInv, Legacy!RunPhase PROVE TimingInv'
<1>0. Head(todo) = todo[1]
  <2>1. todo \in Seq(NamesOf) /\ todo # <<>>
    BY DEF TimingInv, RecordType, Legacy!RunPhase
  <2> QED
    BY <2>1
<1>1. PICK result \in {"passed", "failed"} :
         /\ result = "failed" => phase = "setup"
         /\ phasesRan' = Append(phasesRan, <<todo[1], phase, result>>)
         /\ Legacy!Record(<<Legacy!Event("phase", <<todo[1], phase, result>>)>>)
         /\ phase' = IF phase = "setup" /\ result = "passed" THEN "call"
                     ELSE IF phase = "teardown" THEN "setup" ELSE "teardown"
  <2>1. PICK result \in {"passed", "failed"} :
           /\ result = "failed" => phase = "setup"
           /\ phasesRan' = Append(phasesRan, Legacy!PhaseOf(Head(todo), phase, result))
           /\ Legacy!Record(<<Legacy!Event("phase", Legacy!PhaseOf(Head(todo), phase, result))>>)
           /\ phase' = IF phase = "setup" /\ result = "passed" THEN "call"
                       ELSE IF phase = "teardown" THEN "setup" ELSE "teardown"
    BY Zenon DEF Legacy!RunPhase
  <2>2. Legacy!PhaseOf(Head(todo), phase, result) = <<todo[1], phase, result>>
    BY <1>0 DEF Legacy!PhaseOf
  <2> QED
    BY <2>1, <2>2
<1>2. /\ proc = "running" /\ todo # <<>> /\ UNCHANGED <<proc, sessions>>
      /\ todo' = IF phase = "teardown" THEN Tail(todo) ELSE todo
  BY DEF Legacy!RunPhase
<1>3. RecordType /\ CountInv /\ CorpusInv /\ sessions # 0
  BY <1>2 DEF TimingInv, CountInv
<1> DEFINE this == <<todo[1], phase, result>>
           a == Legacy!Event("phase", this)
<1>4. todo[1] \in NamesOf /\ Len(todo) \in Nat \ {0} /\ todo \in Seq(NamesOf)
  BY <1>2, <1>3 DEF RecordType
<1>5. this \in PhaseSet /\ this[1] = todo[1] /\ this[2] = phase /\ this[3] = result
  BY <1>3, <1>4 DEF PhaseSet, RecordType
<1>6. a \in EventSet /\ a.event = "phase" /\ a.data = this
  <2>1. this \in DataSet
    BY <1>5 DEF DataSet
  <2> HIDE DEF this
  <2> QED
    BY <2>1, EventIs DEF Kinds
<1>7. phasesRan' = Append(phasesRan, this) /\ Legacy!Record(<<a>>)
  BY <1>1
<1>8. this = <<todo[1], phase, result>>
  OBVIOUS
<1> HIDE DEF this, a
<1>9. /\ RecordsOf({a}) /\ Starts(stream') = Starts(stream)
      /\ stream' = stream \/ stream' = Append(stream, a)
  BY <1>3, <1>6, <1>7, RecordOne
<1>10. /\ phasesRan' \in Seq(PhaseSet) /\ Happened' = Happened \cup {this}
  <2>1. phasesRan \in Seq(PhaseSet)
    BY <1>3 DEF RecordType
  <2>2. /\ DOMAIN phasesRan = 1..Len(phasesRan) /\ Len(phasesRan) \in Nat
        /\ DOMAIN Append(phasesRan, this) = 1..(Len(phasesRan) + 1)
        /\ Append(phasesRan, this)[Len(phasesRan) + 1] = this
        /\ \A i \in 1..Len(phasesRan) : Append(phasesRan, this)[i] = phasesRan[i]
        /\ Append(phasesRan, this) \in Seq(PhaseSet)
    BY <1>5, <2>1
  <2>3. 1..(Len(phasesRan) + 1) = 1..Len(phasesRan) \cup {Len(phasesRan) + 1}
    BY <2>2
  <2> QED
    BY <1>7, <2>2, <2>3 DEF Happened, EntriesOf
<1>11. todo' \in Seq(NamesOf)
  BY <1>2, <1>4
<1>12. RecordType'
  BY <1>1, <1>2, <1>3, <1>9, <1>10, <1>11 DEF RecordType, RecordsOf, Whens
<1>13. CountInv'
  BY <1>2, <1>3, <1>6, <1>9, CountKept
<1>14. CorpusInv'
  BY <1>3, <1>6, <1>9 DEF CorpusInv, RecordsOf
<1>15. ASSUME sessions' <= 1 PROVE (RunInv /\ PhasesInv /\ FinishInv)'
  <2>1. RunInv /\ PhasesInv /\ FinishInv
    BY <1>2, <1>15 DEF TimingInv
  <2>2. /\ Len(RunCases) \in Nat /\ Len(todo) <= Len(RunCases) /\ DOMAIN RunCases = 1..Len(RunCases)
        /\ Done \in 0..Len(RunCases) /\ Done + 1 \in 1..Len(RunCases) /\ todo[1] = RunCases[Done + 1]
        /\ Done = Len(RunCases) - Len(todo)
    <3>1. /\ RunCases \in Seq(NamesOf)
      BY DEF Legacy!CasesAssumption, NamesOf
    <3> QED
      BY <1>4, <2>1, <3>1 DEF RunInv, Done
  <2>3. /\ phase = "teardown" => Done' = Done + 1 /\ Len(todo') = Len(todo) - 1
        /\ phase # "teardown" => Done' = Done /\ todo' = todo
    <3>1. Len(Tail(todo)) = Len(todo) - 1
      BY <1>4
    <3>2. CASE phase = "teardown"
      BY <1>2, <1>4, <2>2, <3>1, <3>2 DEF Done
    <3>3. CASE phase # "teardown"
      BY <1>2, <3>3 DEF Done
    <3> QED
      BY <3>2, <3>3
  \* The phase is a new one.
  <2>4. ASSUME NEW p \in Happened, p[1] = todo[1], p[2] = phase PROVE FALSE
    <3>1. PICK j \in 1..Len(RunCases) :
             /\ p[1] = RunCases[j]
             /\ j <= Done \/ (j = Done + 1 /\ RankOf[p[2]] < RankOf[phase])
      BY <2>1 DEF RunInv
    <3>2. j = Done + 1
      BY <2>2, <2>4, <3>1 DEF Legacy!CasesAssumption
    <3>3. RankOf[phase] < RankOf[phase]
      BY <2>2, <2>4, <3>1, <3>2
    <3>4. RankOf[phase] \in Nat
      BY <1>3 DEF RecordType, Whens, RankOf
    <3> QED
      BY <3>3, <3>4
  <2>5. this \notin Happened
    BY <1>5, <2>4
  <2>6. RunInv'
    <3>1. Len(todo') <= Len(RunCases) /\ \A i \in 1..Len(todo') : todo'[i] = RunCases[Done' + i]
      <4>1. CASE phase = "teardown"
        <5>1. \A i \in 1..Len(todo') : todo'[i] = todo[i + 1] /\ i + 1 \in 1..Len(todo)
          BY <1>2, <1>4, <4>1
        <5>2. \A i \in 1..Len(todo') : todo'[i] = RunCases[Done + (i + 1)]
          BY <2>1, <5>1 DEF RunInv
        <5>3. \A i \in 1..Len(todo') : Done + (i + 1) = Done' + i
          BY <2>2, <2>3, <4>1
        <5> QED
          BY <1>4, <2>2, <2>3, <4>1, <5>2, <5>3
      <4>2. CASE phase # "teardown"
        BY <2>1, <2>2, <2>3, <4>2 DEF RunInv
      <4> QED
        BY <4>1, <4>2
    <3>2. ASSUME NEW p \in Happened'
          PROVE  \E j \in 1..Len(RunCases) :
                    /\ p[1] = RunCases[j]
                    /\ j <= Done' \/ (j = Done' + 1 /\ RankOf[p[2]] < RankOf[phase'])
      <4>1. \A when \in Whens : RankOf[when] \in Nat
        BY DEF Whens, RankOf
      <4>2. CASE p = this
        <5>1. p[1] = RunCases[Done + 1] /\ p[2] = phase
          BY <1>5, <2>2, <4>2
        <5>2. Done + 1 <= Done' \/ (Done + 1 = Done' + 1 /\ RankOf[phase] < RankOf[phase'])
          BY <1>1, <1>3, <2>2, <2>3 DEF RecordType, Whens, RankOf
        <5> QED
          BY <2>2, <5>1, <5>2
      <4>3. CASE p \in Happened
        <5>1. PICK j \in 1..Len(RunCases) :
                 /\ p[1] = RunCases[j]
                 /\ j <= Done \/ (j = Done + 1 /\ RankOf[p[2]] < RankOf[phase])
          BY <2>1, <4>3 DEF RunInv
        <5>2. CASE phase = "teardown"
          <6>1. j <= Done'
            BY <2>2, <2>3, <5>1, <5>2
          <6> QED
            BY <5>1, <6>1
        <5>3. CASE phase # "teardown"
          <6>1. Done' = Done /\ RankOf[phase] < RankOf[phase']
            BY <1>1, <1>3, <2>3, <5>3 DEF RecordType, Whens, RankOf
          <6>2. p[2] \in Whens
            <7>1. phasesRan \in Seq(PhaseSet)
              BY <1>3 DEF RecordType
            <7> QED
              BY <4>3, <7>1 DEF Happened, EntriesOf, PhaseSet
          <6>3. RankOf[p[2]] \in Nat /\ RankOf[phase] \in Nat /\ RankOf[phase'] \in Nat
            BY <1>3, <1>12, <4>1, <6>2 DEF RecordType
          <6> QED
            BY <5>1, <6>1, <6>3
        <5> QED
          BY <5>2, <5>3
      <4> QED
        BY <1>10, <4>2, <4>3
    <3>3. ASSUME NEW p \in Happened', p[2] = "call"
          PROVE  <<p[1], "setup", "passed">> \in Happened'
      <4>1. CASE p = this
        <5>1. <<todo[1], "setup", "passed">> \in Happened
          BY <1>2, <1>5, <2>1, <3>3, <4>1 DEF RunInv
        <5> QED
          BY <1>5, <1>10, <4>1, <5>1
      <4>2. CASE p \in Happened
        BY <1>10, <2>1, <3>3, <4>2 DEF RunInv
      <4> QED
        BY <1>10, <4>1, <4>2
    <3>4. ASSUME phase' = "call", todo' # <<>> PROVE <<todo'[1], "setup", "passed">> \in Happened'
      <4>1. phase = "setup" /\ result = "passed"
        BY <1>1, <3>4
      <4>2. todo' = todo /\ this = <<todo[1], "setup", "passed">>
        BY <1>2, <1>8, <4>1
      <4> QED
        BY <1>10, <4>2
    <3>5. ASSUME NEW p \in Happened', NEW q \in Happened', p[1] = q[1] /\ p[2] = q[2] PROVE p = q
      <4>1. CASE p \in Happened /\ q \in Happened
        BY <2>1, <3>5, <4>1 DEF RunInv
      <4>2. CASE p = this /\ q \in Happened
        BY <1>5, <2>4, <3>5, <4>2
      <4>3. CASE q = this /\ p \in Happened
        BY <1>5, <2>4, <3>5, <4>3
      <4> QED
        BY <1>10, <4>1, <4>2, <4>3
    <3>6. proc' # "started"
      BY <1>2
    <3> QED
      BY <3>1, <3>2, <3>3, <3>4, <3>5, <3>6 DEF RunInv
  <2>7. PhasesInv'
    <3>1. \A e \in EntriesOf(stream') : e.event = "phase" => e.data \in Happened'
      BY <1>6, <1>9, <1>10, <2>1 DEF RecordsOf, PhasesInv
    <3>2. CASE stream' = stream
      <4>1. \A e \in EntriesOf(stream') : e.event = "phase" => e.data # this
        BY <2>1, <2>5, <3>2 DEF PhasesInv
      <4> QED
        BY <1>10, <3>1, <4>1 DEF PhasesInv, Missing
    <3>3. CASE stream' = Append(stream, a) /\ DataOf(stream) = phasesRan
      <4>1. DataOf(stream') = Append(DataOf(stream), this)
        BY <1>3, <1>6, <3>3, AppendRecord DEF RecordType
      <4> QED
        BY <1>7, <3>1, <3>3, <4>1 DEF PhasesInv
    <3>4. CASE \E p \in Happened : Missing(p)
      <4>1. PICK p \in Happened : Missing(p)
        BY <3>4
      <4>2. Missing(p)'
        BY <1>6, <1>9, <2>5, <4>1 DEF Missing, RecordsOf
      <4> QED
        BY <1>10, <3>1, <4>1, <4>2 DEF PhasesInv
    <3> QED
      BY <1>9, <2>1, <3>2, <3>3, <3>4 DEF PhasesInv
  <2>8. FinishInv'
    BY <1>2, <1>6, <1>9, <2>1 DEF FinishInv, RecordsOf
  <2> QED
    BY <2>6, <2>7, <2>8
<1> QED
  BY <1>12, <1>13, <1>14, <1>15 DEF TimingInv

LEMMA TimingStep == ASSUME Legacy!CasesAssumption PROVE TimingInv /\ [Legacy!Next]_(Legacy!vars) => TimingInv'
<1> SUFFICES ASSUME TimingInv, [Legacy!Next]_(Legacy!vars) PROVE TimingInv'
  OBVIOUS
<1>1. CASE Legacy!NestedReport
  <2>1. UNCHANGED <<stream, lostWrites, torn>>
    BY <1>1 DEF Legacy!NestedReport, Legacy!Record
  <2> QED
    BY <1>1, <2>1, SilentStep DEF Legacy!NestedReport
<1>2. CASE \/ Legacy!Die \/ Legacy!ExitReceipt
           \/ Legacy!NestedConfigure \/ Legacy!NestedUnconfigure \/ UNCHANGED Legacy!vars
  BY <1>2, SilentStep DEF Legacy!Die, Legacy!ExitReceipt,
                          Legacy!NestedConfigure, Legacy!NestedUnconfigure, Legacy!vars
<1> QED
  BY <1>1, <1>2, StartStep, CollectStep, PhaseStep, FinishStep DEF Legacy!Next

-----------------------------------------------------------------------------
(* What is read from a record that is complete.                            *)

LEMMA OnlyOne ==
    ASSUME NEW s \in Seq(EventSet), NEW places, Len(Legacy!Picked(s, places)) = 1
    PROVE  \E i \in DOMAIN s : i \in places /\ Legacy!Picked(s, places)[1] = s[i]
<1> DEFINE picks == Legacy!Picked(s, places)
<1>1. PicksThose(picks, s, places, Len(s), EventSet)
  BY PickedMembers
<1>2. Len(picks) = 1
  OBVIOUS
<1> HIDE DEF picks
<1>3. 1 \in DOMAIN picks
  BY <1>1, <1>2 DEF PicksThose
<1>4. \E i \in 1..Len(s) : i \in places /\ s[i] = picks[1]
  BY <1>1, <1>3 DEF PicksThose
<1> QED
  BY <1>4 DEF picks

LEMMA OneOf ==
    ASSUME stream \in Seq(EventSet), NEW kind, Len(Legacy!Of(kind)) = 1
    PROVE  Legacy!Of(kind)[1] \in EntriesOf(stream) /\ Legacy!Of(kind)[1].event = kind
<1> DEFINE places == {i \in DOMAIN stream : stream[i].event = kind}
<1>1. Legacy!Of(kind) = Legacy!Picked(stream, places)
  BY DEF Legacy!Of
<1> HIDE DEF places
<1>2. PICK i \in DOMAIN stream : i \in places /\ Legacy!Of(kind)[1] = stream[i]
  <2>1. Len(Legacy!Picked(stream, places)) = 1
    BY <1>1
  <2>2. \E i \in DOMAIN stream : i \in places /\ Legacy!Picked(stream, places)[1] = stream[i]
    BY <2>1, OnlyOne
  <2> QED
    BY <1>1, <2>2
<1>3. stream[i].event = kind
  BY <1>2 DEF places
<1> QED
  BY <1>2, <1>3 DEF EntriesOf

\* What the summary selects is what the invariant speaks of.
LEMMA OfIs == \A kind : Legacy!Of(kind) = OfIn(stream, kind)
BY DEF Legacy!Of, OfIn

\* A phase of a case that is counted once is a phase that happened.
LEMMA OnePhase ==
    ASSUME stream \in Seq(EventSet), PhasesInv, NEW case, NEW when, Len(Legacy!Phases(case, when)) = 1
    PROVE  /\ Legacy!Phases(case, when)[1] \in EntriesOf(stream)
           /\ Legacy!Phases(case, when)[1].event = "phase"
           /\ Legacy!Phases(case, when)[1].data \in Happened
           /\ Legacy!Phases(case, when)[1].data[1] = case
           /\ Legacy!Phases(case, when)[1].data[2] = when
<1> DEFINE phases == Legacy!Of("phase")
           places == {i \in DOMAIN phases : phases[i].data[1] = case /\ phases[i].data[2] = when}
<1>1. /\ phases \in Seq(EventSet)
      /\ \A x : (\E j \in DOMAIN phases : phases[j] = x) <=> x \in EntriesOf(stream) /\ x.event = "phase"
  <2>1. phases = OfIn(stream, "phase")
    BY OfIs
  <2> HIDE DEF phases
  <2> QED
    BY <2>1, OfMembers
<1>2. Legacy!Phases(case, when) = Legacy!Picked(phases, places)
  BY DEF Legacy!Phases
<1> HIDE DEF phases
<1>3. PICK i \in DOMAIN phases : i \in places /\ Legacy!Phases(case, when)[1] = phases[i]
  <2> HIDE DEF places
  <2>1. Len(Legacy!Picked(phases, places)) = 1
    BY <1>2
  <2>2. \E i \in DOMAIN phases : i \in places /\ Legacy!Picked(phases, places)[1] = phases[i]
    BY <1>1, <2>1, OnlyOne
  <2> QED
    BY <1>2, <2>2
<1>4. phases[i] \in EntriesOf(stream) /\ phases[i].event = "phase"
  BY <1>1
<1> QED
  BY <1>3, <1>4 DEF PhasesInv

LEMMA CompleteIsOneSession ==
    ASSUME TimingInv, Legacy!Complete
    PROVE  sessions = 1
<1>1. /\ Len(Legacy!Of("start")) = 1 /\ Len(Legacy!Of("identity")) = 1 /\ Len(Legacy!Of("timing")) = 1
      /\ Legacy!Of("timing")[1].data = 0
  BY DEF Legacy!Complete, Legacy!OneSession
<1>2. stream \in Seq(EventSet) /\ sessions \in Nat
  BY DEF TimingInv, RecordType
<1>3. Starts(stream) = 2
  <2>1. OfIn(stream, "start") = Legacy!Of("start") /\ OfIn(stream, "identity") = Legacy!Of("identity")
    BY OfIs
  <2>2. Len(OfIn(stream, "start")) = 1 /\ Len(OfIn(stream, "identity")) = 1
    BY <1>1, <2>1
  <2>3. Starts(stream) = Len(OfIn(stream, "start")) + Len(OfIn(stream, "identity"))
    BY DEF Starts
  <2>4. 1 + 1 = 2
    OBVIOUS
  <2> QED
    BY <2>2, <2>3, <2>4, Zenon
<1>4. sessions # 0
  <2>1. Legacy!Of("start")[1] \in EntriesOf(stream)
    BY <1>1, <1>2, OneOf
  <2> QED
    BY <2>1 DEF TimingInv, CountInv, EntriesOf
<1>5. \E e \in EntriesOf(stream) : e.event = "timing" /\ e.data = 0
  BY <1>1, <1>2, OneOf
<1>6. ~(Starts(stream) <= sessions)
  BY <1>4, <1>5 DEF TimingInv, CountInv
<1> QED
  BY <1>2, <1>3, <1>4, <1>6

LEMMA CompleteMissesNothing ==
    ASSUME TimingInv, Legacy!Complete, NEW p \in Happened
    PROVE  ~Missing(p)
<1> SUFFICES ASSUME Missing(p) PROVE FALSE
  OBVIOUS
<1>1. RecordType /\ CorpusInv /\ RunInv /\ PhasesInv
  BY CompleteIsOneSession DEF TimingInv
<1>2. stream \in Seq(EventSet)
  BY <1>1 DEF RecordType
<1>3. p[2] \in Whens /\ p[1] \in NamesOf
  <2>1. p \in PhaseSet
    BY <1>1 DEF RecordType, Happened, EntriesOf
  <2>2. \E j \in 1..Len(RunCases) : p[1] = RunCases[j]
    BY <1>1 DEF RunInv
  <2> QED
    BY <2>1, <2>2 DEF PhaseSet, NamesOf
<1>4. Legacy!WholeCase(p[1])
  <2>1. Legacy!Of("corpus")[1].data = RunCases
    <3>1. Len(Legacy!Of("corpus")) = 1
      BY DEF Legacy!Complete, Legacy!OneSession
    <3> QED
      BY <1>1, <1>2, <3>1, OneOf DEF CorpusInv
  <2>2. p[1] \in Legacy!Reported
    BY <1>3, <2>1 DEF Legacy!Complete, NamesOf
  <2> QED
    BY <2>2 DEF Legacy!Complete
<1>5. ASSUME NEW when, p[2] = when, Len(Legacy!Phases(p[1], when)) = 1 PROVE FALSE
  <2>1. /\ Legacy!Phases(p[1], when)[1] \in EntriesOf(stream)
        /\ Legacy!Phases(p[1], when)[1].event = "phase"
        /\ Legacy!Phases(p[1], when)[1].data \in Happened
        /\ Legacy!Phases(p[1], when)[1].data[1] = p[1]
        /\ Legacy!Phases(p[1], when)[1].data[2] = when
    BY <1>1, <1>2, <1>5, OnePhase
  <2>2. Legacy!Phases(p[1], when)[1].data = p
    BY <1>1, <1>5, <2>1 DEF RunInv
  <2> QED
    BY <2>1, <2>2 DEF Missing
<1>6. Len(Legacy!Phases(p[1], "setup")) = 1 /\ Len(Legacy!Phases(p[1], "teardown")) = 1
  BY <1>4 DEF Legacy!WholeCase
<1>7. CASE p[2] = "call"
  <2> DEFINE first == Legacy!Phases(p[1], "setup")[1].data
  <2>1. first \in Happened /\ first[1] = p[1] /\ first[2] = "setup"
    BY <1>1, <1>2, <1>6, OnePhase
  <2>2. <<p[1], "setup", "passed">> \in Happened
    BY <1>1, <1>7 DEF RunInv
  <2>3. first = <<p[1], "setup", "passed">>
    <3> HIDE DEF first
    <3> QED
      BY <1>1, <2>1, <2>2 DEF RunInv
  <2>4. first[3] = "passed"
    BY <2>3
  <2>5. Len(Legacy!Phases(p[1], "call")) = 1
    BY <1>4, <2>4 DEF Legacy!WholeCase
  <2> QED
    BY <1>5, <1>7, <2>5
<1> QED
  BY <1>3, <1>5, <1>6, <1>7 DEF Whens

LEMMA CompleteIsWhole == ASSUME TimingInv PROVE Legacy!TimingCompleteMeansWhole
<1> SUFFICES ASSUME Legacy!Complete
             PROVE  /\ [i \in DOMAIN Legacy!Of("phase") |-> Legacy!Of("phase")[i].data] = phasesRan
                    /\ todo = <<>> /\ sessions = 1
  BY DEF Legacy!TimingCompleteMeansWhole, Legacy!Status
<1>1. sessions = 1
  BY CompleteIsOneSession
<1>2. DataOf(stream) = phasesRan
  BY <1>1, CompleteMissesNothing DEF TimingInv, PhasesInv
<1>3. todo = <<>>
  <2>1. Len(Legacy!Of("finish")) = 1
    BY DEF Legacy!Complete, Legacy!OneSession
  <2>2. \E e \in EntriesOf(stream) : e.event = "finish"
    BY <2>1, OneOf DEF TimingInv, RecordType
  <2> QED
    BY <1>1, <2>2 DEF TimingInv, FinishInv
<1> QED
  BY <1>1, <1>2, <1>3, OfIs DEF DataOf

\* For any cases, number of sessions and of lost writes: a record that the
\* summary calls complete holds every phase that happened, in order and nothing
\* else, of one session that ran to its end (lens_report.py, _write() and the
\* pytest hooks; pytest-timing.py, inspect()).
THEOREM CompleteRecords ==
    ASSUME Legacy!CasesAssumption
    PROVE  /\ Legacy!Spec => []Legacy!TimingCompleteMeansWhole
           /\ EvidenceSpec => []TimingCompleteMeansWhole
<1>1. Legacy!Init => TimingInv
  BY TimingInit
<1>2. TimingInv /\ [Legacy!Next]_(Legacy!vars) => TimingInv'
  BY TimingStep
<1>3. TimingInv => Legacy!TimingCompleteMeansWhole
  BY CompleteIsWhole
<1>4. EvidenceInit => (subject = "recorder" => TimingInv)
  BY <1>1 DEF EvidenceInit
<1>5. (subject = "recorder" => TimingInv) /\ [EvidenceNext]_allVars
         => (subject = "recorder" => TimingInv)'
  BY <1>2, OneMoves
<1>6. (subject = "recorder" => TimingInv) => TimingCompleteMeansWhole
  BY <1>3 DEF TimingCompleteMeansWhole
<1> QED
  BY <1>1, <1>2, <1>3, <1>4, <1>5, <1>6, PTL DEF Legacy!Spec, EvidenceSpec
=============================================================================
