---------------------------- MODULE BuildRunProofs ----------------------------
(***************************************************************************)
(* Safety of the job graph of a run, for any matrices and any number of    *)
(* attempts.                                                               *)
(*                                                                         *)
(* Two facts carry the proofs.  A job that is over stays as it is until    *)
(* the run is re-run, so the gates a publication found green stay green.   *)
(* And the attempts in which the jobs behind the evidence last ran are     *)
(* squeezed: each is at least that of the plan, at most the current one,   *)
(* and the join only reads the plan of the current one.                    *)
(***************************************************************************)
EXTENDS BuildRun, TLAPS

\* A publication in progress, or one this attempt has made, has green gates.
PublishInv ==
    /\ \A s \in Services : publish[s] = "running" => AllGatesGreen
    /\ \A s \in Services, a \in Attempts : <<s, a>> \in marked =>
          a <= attempt /\ (a = attempt => AllGatesGreen)

\* Something this run needs has failed.
SomethingFailed ==
    plan = "failure" \/ SomeRow(validate, "failure") \/ SomeRow(build, "failure")

\* Only a failed run is aborted.
AbortInv ==
    /\ SomeRow(aborts, "running") => SomethingFailed
    /\ cancel = "abort" => SomethingFailed

\* Where the attempts of the jobs behind the evidence stand to one another.
AttemptInv ==
    /\ ranAt.plan <= attempt
    /\ \A v \in Validators : ranAt.validate[v] <= attempt
    /\ \A a \in Attempts : Admission(a) \in artifacts => a <= ranAt.plan
    /\ \A v \in Validators : validate[v] \in {"running", "success"} =>
          plan = "success" /\ ranAt.plan <= ranAt.validate[v]
    /\ evidence = "running" =>
          /\ plan = "success"
          /\ ranAt.evidence = attempt
          /\ AllOver(validate)
    /\ evidence = "success" => plan = "success" /\ EveryRow(validate, "success")
    /\ OneAttemptEvidence

-----------------------------------------------------------------------------
(* Type correctness.                                                       *)

\* Init satisfies the types.
LEMMA InitType == Init => TypeOK
  BY RunAssumption DEF Init, TypeOK, Attempts, Status, Over, AbortJobs

\* Every step keeps the types.
LEMMA NextType == TypeOK /\ [Next]_vars => TypeOK'
<1> SUFFICES ASSUME TypeOK, [Next]_vars PROVE TypeOK'
  OBVIOUS
<1> USE RunAssumption
<1> USE DEF TypeOK, Attempts, Status, Over, AbortJobs, Fault
<1>1. CASE RunPlan
  BY <1>1 DEF RunPlan, Leaves
<1>2. CASE \E v \in Validators : StartValidate(v) \/ DropValidate(v)
  BY <1>2 DEF StartValidate, DropValidate
<1>3. CASE \E v \in Validators : EndValidate(v)
  BY <1>3 DEF EndValidate, Leaves
<1>4. CASE StartEvidence \/ EndEvidence
  BY <1>4 DEF StartEvidence, EndEvidence
<1>5. CASE \E s \in Services : StartBuild(s) \/ DropBuild(s)
  BY <1>5 DEF StartBuild, DropBuild
<1>6. CASE \E s \in Services : EndBuild(s)
  BY <1>6 DEF EndBuild, Leaves
<1>7. CASE \E s \in Services : StartPublish(s) \/ EndPublish(s) \/ DropPublish(s)
  BY <1>7 DEF StartPublish, EndPublish, DropPublish
<1>8. CASE \E s \in Services : MarkBuilt(s)
  BY <1>8 DEF MarkBuilt, jobs
<1>9. CASE \E j \in AbortJobs : StartAbort(j) \/ EndAbort(j)
  BY <1>9 DEF StartAbort, EndAbort
<1>10. CASE CancelRun
  BY <1>10 DEF CancelRun, jobs
<1>11. CASE RerunAll
  BY <1>11 DEF RerunAll, Rerun
<1>12. CASE RerunFailed
  BY <1>12 DEF RerunFailed, Rerun
<1>13. CASE UNCHANGED vars
  BY <1>13 DEF vars, jobs
<1> QED
  BY <1>1, <1>2, <1>3, <1>4, <1>5, <1>6, <1>7, <1>8, <1>9, <1>10, <1>11,
     <1>12, <1>13 DEF Next, Scheduler

\* Every value the run's state takes is of its type.
THEOREM RunTypeCorrect == Spec => []TypeOK
  BY InitType, NextType, PTL DEF Spec

-----------------------------------------------------------------------------
(* Publication.                                                            *)

\* The gates of a publication stay green in every step that neither re-runs
\* nor starts one.
LEMMA NextPublish == TypeOK /\ PublishInv /\ [Next]_vars => PublishInv'
<1> SUFFICES ASSUME TypeOK, PublishInv, [Next]_vars PROVE PublishInv'
  OBVIOUS
<1> USE RunAssumption
<1> USE DEF TypeOK, PublishInv, AllGatesGreen, EveryRow, Attempts
<1>1. CASE RunPlan
  BY <1>1 DEF RunPlan
<1>2. CASE \E v \in Validators : StartValidate(v) \/ EndValidate(v) \/ DropValidate(v)
  BY <1>2 DEF StartValidate, EndValidate, DropValidate
<1>3. CASE StartEvidence \/ EndEvidence
  BY <1>3 DEF StartEvidence, EndEvidence
<1>4. CASE \E s \in Services : StartBuild(s) \/ EndBuild(s) \/ DropBuild(s)
  BY <1>4 DEF StartBuild, EndBuild, DropBuild
<1>5. CASE \E s \in Services : StartPublish(s) \/ EndPublish(s) \/ DropPublish(s)
  BY <1>5 DEF StartPublish, EndPublish, DropPublish
<1>6. CASE \E s \in Services : MarkBuilt(s)
  BY <1>6 DEF MarkBuilt, jobs
<1>7. CASE \E j \in AbortJobs : StartAbort(j) \/ EndAbort(j)
  BY <1>7 DEF StartAbort, EndAbort, Fault
<1>8. CASE CancelRun
  BY <1>8 DEF CancelRun, jobs
<1>9. CASE RerunAll
  BY <1>9 DEF RerunAll, Rerun, RunOver, AllOver, Over
<1>10. CASE RerunFailed
  BY <1>10 DEF RerunFailed, Rerun, RunOver, AllOver, Over
<1>11. CASE UNCHANGED vars
  BY <1>11 DEF vars, jobs
<1> QED
  BY <1>1, <1>2, <1>3, <1>4, <1>5, <1>6, <1>7, <1>8, <1>9, <1>10, <1>11
  DEF Next, Scheduler

\* publish runs, and built-<sha> is written, only with the plan, every
\* validator, the evidence and every candidate green.
THEOREM GatesBeforePublish == Spec => []PublishAfterEveryGate
<1>1. Init => PublishInv
  BY DEF Init, PublishInv
<1>2. TypeOK /\ PublishInv => PublishAfterEveryGate
  BY DEF TypeOK, PublishInv, PublishAfterEveryGate, AllGatesGreen
<1> QED
  BY <1>1, <1>2, RunTypeCorrect, NextPublish, PTL DEF Spec

-----------------------------------------------------------------------------
(* Aborts.                                                                 *)

\* A failed job stays failed until the re-run that also forgets the abort.
LEMMA NextAbort == TypeOK /\ AbortInv /\ [Next]_vars => AbortInv'
<1> SUFFICES ASSUME TypeOK, AbortInv, [Next]_vars PROVE AbortInv'
  OBVIOUS
<1> USE DEF TypeOK, AbortInv, SomethingFailed, SomeRow, AbortJobs
<1>1. CASE RunPlan
  BY <1>1 DEF RunPlan
<1>2. CASE \E v \in Validators : StartValidate(v) \/ EndValidate(v) \/ DropValidate(v)
  BY <1>2 DEF StartValidate, EndValidate, DropValidate
<1>3. CASE StartEvidence \/ EndEvidence
  BY <1>3 DEF StartEvidence, EndEvidence
<1>4. CASE \E s \in Services : StartBuild(s) \/ EndBuild(s) \/ DropBuild(s)
  BY <1>4 DEF StartBuild, EndBuild, DropBuild
<1>5. CASE \E s \in Services : StartPublish(s) \/ EndPublish(s) \/ DropPublish(s)
  BY <1>5 DEF StartPublish, EndPublish, DropPublish
<1>6. CASE \E s \in Services : MarkBuilt(s)
  BY <1>6 DEF MarkBuilt, jobs
<1>7. CASE \E j \in AbortJobs : StartAbort(j) \/ EndAbort(j)
  BY <1>7 DEF StartAbort, EndAbort, NeededRows, Fault
<1>8. CASE CancelRun
  BY <1>8 DEF CancelRun, jobs
<1>9. CASE RerunAll
  BY <1>9 DEF RerunAll, Rerun
<1>10. CASE RerunFailed
  BY <1>10 DEF RerunFailed, Rerun
<1>11. CASE UNCHANGED vars
  BY <1>11 DEF vars, jobs
<1> QED
  BY <1>1, <1>2, <1>3, <1>4, <1>5, <1>6, <1>7, <1>8, <1>9, <1>10, <1>11
  DEF Next, Scheduler

\* The jobs that cancel a doomed run leave a publishing run alone.
THEOREM NeverAborted == Spec => []PublicationNeverAborted
<1>1. Init => PublishInv /\ AbortInv
  BY DEF Init, PublishInv, AbortInv, SomeRow, AbortJobs
<1>2. TypeOK /\ PublishInv /\ AbortInv => PublicationNeverAborted
  BY RunAssumption
  DEF TypeOK, PublishInv, AbortInv, PublicationNeverAborted, AllGatesGreen,
      EveryRow, SomethingFailed, SomeRow
<1> QED
  BY <1>1, <1>2, RunTypeCorrect, NextPublish, NextAbort, PTL DEF Spec

-----------------------------------------------------------------------------
(* Evidence.                                                               *)

\* Every step keeps the order of the attempts.
LEMMA NextAttempt == TypeOK /\ AttemptInv /\ [Next]_vars => AttemptInv'
<1> SUFFICES ASSUME TypeOK, AttemptInv, [Next]_vars PROVE AttemptInv'
  OBVIOUS
<1> USE RunAssumption
<1> USE DEF TypeOK, AttemptInv, OneAttemptEvidence, AllOver, EveryRow, Over,
            Attempts, Admission, Shard, Candidate
<1>1. CASE RunPlan
  BY <1>1 DEF RunPlan, Leaves
<1>2. CASE \E v \in Validators : StartValidate(v) \/ DropValidate(v)
  BY <1>2 DEF StartValidate, DropValidate
<1>3. CASE \E v \in Validators : EndValidate(v)
  BY <1>3 DEF EndValidate, Leaves
<1>4. CASE StartEvidence
  BY <1>4 DEF StartEvidence
<1>5. CASE EndEvidence
  BY <1>5 DEF EndEvidence, EvidenceComplete, Fault
<1>6. CASE \E s \in Services : StartBuild(s) \/ DropBuild(s)
  BY <1>6 DEF StartBuild, DropBuild
<1>7. CASE \E s \in Services : EndBuild(s)
  BY <1>7 DEF EndBuild, Leaves
<1>8. CASE \E s \in Services : StartPublish(s) \/ EndPublish(s) \/ DropPublish(s)
  BY <1>8 DEF StartPublish, EndPublish, DropPublish
<1>9. CASE \E s \in Services : MarkBuilt(s)
  BY <1>9 DEF MarkBuilt, jobs
<1>10. CASE \E j \in AbortJobs : StartAbort(j) \/ EndAbort(j)
  BY <1>10 DEF StartAbort, EndAbort
<1>11. CASE CancelRun
  BY <1>11 DEF CancelRun, jobs
<1>12. CASE RerunAll
  BY <1>12 DEF RerunAll, Rerun
<1>13. CASE RerunFailed
  BY <1>13 DEF RerunFailed, Rerun, RunOver
<1>14. CASE UNCHANGED vars
  BY <1>14 DEF vars, jobs
<1> QED
  BY <1>1, <1>2, <1>3, <1>4, <1>5, <1>6, <1>7, <1>8, <1>9, <1>10, <1>11,
     <1>12, <1>13, <1>14 DEF Next, Scheduler

\* Plan, validators and evidence behind a green join ran in one attempt.
THEOREM EvidenceOfOneAttempt == Spec => []OneAttemptEvidence
<1>1. Init => AttemptInv
  BY RunAssumption DEF Init, AttemptInv, OneAttemptEvidence, Attempts
<1>2. AttemptInv => OneAttemptEvidence
  BY DEF AttemptInv
<1> QED
  BY <1>1, <1>2, RunTypeCorrect, NextAttempt, PTL DEF Spec
-----------------------------------------------------------------------------
(* Candidates.                                                             *)

\* A candidate's receipt names an attempt in which the image was built, and
\* nothing that is published is older than any candidate of the run: a build
\* that runs again takes the publications of all images along.
CandidateInv ==
    /\ \A s \in Services : ranAt.build[s] <= attempt
    /\ \A s \in Services : build[s] = "running" => ranAt.build[s] = attempt
    /\ \A s \in Services, a \in Attempts :
          Candidate(s, a) \in artifacts => a <= ranAt.build[s]
    /\ \A s \in Services, a \in Attempts :
          <<s, a>> \in marked => a <= ranAt.build[s]
    /\ \A s \in Services : publish[s] = "success" =>
          /\ EveryRow(build, "success")
          /\ <<s, ranAt.build[s]>> \in marked
          /\ \A t \in Services : ranAt.build[t] <= ranAt.build[s]

\* Every step keeps the order between builds, receipts and publications.
LEMMA NextCandidate ==
  TypeOK /\ PublishInv /\ CandidateInv /\ [Next]_vars => CandidateInv'
<1> SUFFICES ASSUME TypeOK, PublishInv, CandidateInv, [Next]_vars
             PROVE  CandidateInv'
  OBVIOUS
<1> USE RunAssumption
<1> USE DEF TypeOK, CandidateInv, EveryRow, Attempts, Admission, Shard, Candidate
<1>1. CASE RunPlan
  BY <1>1 DEF RunPlan, Leaves
<1>2. CASE \E v \in Validators : StartValidate(v) \/ DropValidate(v)
  BY <1>2 DEF StartValidate, DropValidate
<1>3. CASE \E v \in Validators : EndValidate(v)
  BY <1>3 DEF EndValidate, Leaves
<1>4. CASE StartEvidence \/ EndEvidence
  BY <1>4 DEF StartEvidence, EndEvidence
<1>5. CASE \E s \in Services : StartBuild(s)
  <2> PICK s \in Services : StartBuild(s)
    BY <1>5
  <2>1. /\ ranAt' = [ranAt EXCEPT !.build[s] = attempt]
        /\ build' = [build EXCEPT ![s] = "running"]
        /\ build[s] = "waiting"
        /\ UNCHANGED <<attempt, artifacts, marked, publish>>
    BY DEF StartBuild
  <2>2. ASSUME NEW t \in Services, publish[t] = "success" PROVE FALSE
    <3>1. EveryRow(build, "success")
      BY <2>2
    <3>2. s \in DOMAIN build
      OBVIOUS
    <3> QED
      BY <2>1, <3>1, <3>2
  <2>3. \A t \in Services :
           ranAt'.build[t] = IF t = s THEN attempt ELSE ranAt.build[t]
    BY <2>1
  <2>4. attempt \in Nat /\ \A t \in Services : ranAt.build[t] \in Nat
    OBVIOUS
  <2> QED
    BY <2>1, <2>2, <2>3, <2>4
<1>6. CASE \E s \in Services : EndBuild(s)
  BY <1>6 DEF EndBuild, Leaves
<1>7. CASE \E s \in Services : DropBuild(s)
  BY <1>7 DEF DropBuild
<1>8. CASE \E s \in Services : StartPublish(s) \/ DropPublish(s)
  BY <1>8 DEF StartPublish, DropPublish
<1>9. CASE \E s \in Services : MarkBuilt(s)
  BY <1>9 DEF MarkBuilt, jobs
<1>10. CASE \E s \in Services : EndPublish(s)
  BY <1>10 DEF EndPublish, PublishInv, AllGatesGreen
<1>11. CASE \E j \in AbortJobs : StartAbort(j) \/ EndAbort(j)
  BY <1>11 DEF StartAbort, EndAbort
<1>12. CASE CancelRun
  BY <1>12 DEF CancelRun, jobs
<1>13. CASE RerunAll
  BY <1>13 DEF RerunAll, Rerun
<1>14. CASE RerunFailed
  BY <1>14 DEF RerunFailed, Rerun
<1>15. CASE UNCHANGED vars
  BY <1>15 DEF vars, jobs
<1> QED
  BY <1>1, <1>2, <1>3, <1>4, <1>5, <1>6, <1>7, <1>8, <1>9, <1>10, <1>11,
     <1>12, <1>13, <1>14, <1>15 DEF Next, Scheduler

\* What an attempt marks it has built itself, and the images of a release are
\* built and marked by one attempt, for any number of images and re-runs.
THEOREM OneAttemptRelease == Spec => []ReleaseOfOneAttempt
<1>1. Init => PublishInv /\ CandidateInv
  BY RunAssumption DEF Init, PublishInv, CandidateInv, Attempts
<1>2. TypeOK /\ PublishInv /\ CandidateInv => ReleaseOfOneAttempt
  <2> SUFFICES ASSUME TypeOK, PublishInv, CandidateInv PROVE ReleaseOfOneAttempt
    OBVIOUS
  <2> USE RunAssumption DEF TypeOK, CandidateInv, Attempts
  <2>1. \A s \in Services : <<s, attempt>> \in marked => ranAt.build[s] = attempt
    OBVIOUS
  <2>2. ASSUME NEW s \in Services, NEW t \in Services,
               publish[s] = "success", publish[t] = "success"
        PROVE  /\ ranAt.build[s] = ranAt.build[t]
               /\ {<<s, ranAt.build[s]>>, <<t, ranAt.build[s]>>} \subseteq marked
    <3>1. ranAt.build[s] \in Nat /\ ranAt.build[t] \in Nat
      OBVIOUS
    <3>2. ranAt.build[s] <= ranAt.build[t] /\ ranAt.build[t] <= ranAt.build[s]
      BY <2>2
    <3>3. <<s, ranAt.build[s]>> \in marked /\ <<t, ranAt.build[t]>> \in marked
      BY <2>2
    <3> QED
      BY <3>1, <3>2, <3>3
  <2> QED
    BY <2>1, <2>2 DEF ReleaseOfOneAttempt
<1> QED
  BY <1>1, <1>2, RunTypeCorrect, NextPublish, NextCandidate, PTL DEF Spec
=============================================================================
