-------------------------- MODULE ImageReleaseProofs --------------------------
(***************************************************************************)
(* Proofs about ImageRelease, for every set of runs, commits and digests:  *)
(* the tags are serialized, never go back, and implement ReleaseLedger.    *)
(***************************************************************************)
EXTENDS ImageRelease, TLAPS

-----------------------------------------------------------------------------
(* The inductive invariant, one part per reason.                           *)

\* The candidate's digest is an image of the run's own source, it is in the
\* receipt only after the image gates, and publication presupposes it.
CandidateInv ==
    \A r \in Runs :
        /\ image[r] # None => Label[image[r]] = src[r]
        /\ receipt[r] # None => receipt[r] = image[r]
        /\ pc[r] \in {"new"} \cup BuildSteps => receipt[r] = None
        /\ pc[r] = "verify" => image[r] # None
        /\ pc[r] \in {"gates"} \cup PublishSteps => receipt[r] # None
        /\ pc[r] \in PublishSteps => validation[r] = "success"
        /\ pc[r] \in PublishSteps \ {"publish"} => built[src[r]] # None

\* What the holder read of :latest is still there when it decides and writes.
LatestInv ==
    \A r \in Runs :
        /\ pc[r] \in {"gate1", "gate2"} => seenLatest[r] = latest
        /\ pc[r] = "retag" /\ "latest" \in todo[r] /\ latest # None
              => Contains(src[r], Label[latest])

\* todo holds exactly the tags the inspections found missing.
PromotedPending(r) ==
    IF "promoted" \in todo[r] THEN promoted[receipt[r]] = None
                              ELSE promoted[receipt[r]] = receipt[r]
ShaPending(r) ==
    IF "sha" \in todo[r] THEN sha[src[r]] = None
                         ELSE sha[src[r]] # None /\ Label[sha[src[r]]] = src[r]
TodoInv ==
    \A r \in Runs :
        /\ pc[r] \in {"shaTag", "latest2", "gate2", "retag"} => PromotedPending(r)
        /\ pc[r] = "shaTag" => "sha" \notin todo[r]
        /\ pc[r] \in {"latest2", "gate2", "retag"} => ShaPending(r)

\* A promoting run reaches "done" through the retag only.
DoneInv == \A r \in Runs : pc[r] = "done" => receipt[r] # None

Inv == /\ TypeOK
       /\ PublicationSerialized
       /\ CandidateInv
       /\ LatestInv
       /\ TodoInv
       /\ DoneInv
       /\ SuccessLeavesRecord
       /\ BuiltMeansVerified

-----------------------------------------------------------------------------
LEMMA TypeStep ==
  ASSUME TypeOK, [Next]_vars
  PROVE  TypeOK'
<1> USE ImageAssumption, NoneAssumption
<1>1. ASSUME NEW r \in Runs, Dispatch(r) PROVE TypeOK'
  BY <1>1 DEF TypeOK, vars, tags, queue, plan, Enter, Leave, Goto, End, Steps, TagValue, BuildSteps, PublishSteps, Ended, Dispatch
<1>2. ASSUME NEW r \in Runs, PushCandidate(r) PROVE TypeOK'
  BY <1>2 DEF TypeOK, vars, tags, queue, plan, Enter, Leave, Goto, End, Steps, TagValue, BuildSteps, PublishSteps, Ended, PushCandidate
<1>3. ASSUME NEW r \in Runs, RecordCandidate(r) PROVE TypeOK'
  BY <1>3 DEF TypeOK, vars, tags, queue, plan, Enter, Leave, Goto, End, Steps, TagValue, BuildSteps, PublishSteps, Ended, RecordCandidate
<1>4. ASSUME NEW r \in Runs, ValidationEnds(r) PROVE TypeOK'
  BY <1>4 DEF TypeOK, vars, tags, queue, plan, Enter, Leave, Goto, End, Steps, TagValue, BuildSteps, PublishSteps, Ended, ValidationEnds
<1>5. ASSUME NEW r \in Runs, AbortOnValidateFailure(r) PROVE TypeOK'
  BY <1>5 DEF TypeOK, vars, tags, queue, plan, Enter, Leave, Goto, End, Steps, TagValue, BuildSteps, PublishSteps, Ended, AbortOnValidateFailure
<1>6. ASSUME NEW r \in Runs, EnterPublish(r) PROVE TypeOK'
  BY <1>6 DEF TypeOK, vars, tags, queue, plan, Enter, Leave, Goto, End, Steps, TagValue, BuildSteps, PublishSteps, Ended, EnterPublish
<1>7. ASSUME NEW r \in Runs, MarkBuilt(r) PROVE TypeOK'
  BY <1>7 DEF TypeOK, vars, tags, queue, plan, Enter, Leave, Goto, End, Steps, TagValue, BuildSteps, PublishSteps, Ended, MarkBuilt
<1>8. ASSUME NEW r \in Runs, ReadLatest(r) PROVE TypeOK'
  BY <1>8 DEF TypeOK, vars, tags, queue, plan, Enter, Leave, Goto, End, Steps, TagValue, BuildSteps, PublishSteps, Ended, ReadLatest
<1>9. ASSUME NEW r \in Runs, Gate(r) PROVE TypeOK'
  BY <1>9 DEF TypeOK, vars, tags, queue, plan, Enter, Leave, Goto, End, Steps, TagValue, BuildSteps, PublishSteps, Ended, Gate
<1>10. ASSUME NEW r \in Runs, InspectPromotedTag(r) PROVE TypeOK'
  BY <1>10 DEF TypeOK, vars, tags, queue, plan, Enter, Leave, Goto, End, Steps, TagValue, BuildSteps, PublishSteps, Ended, InspectPromotedTag
<1>11. ASSUME NEW r \in Runs, InspectShaTag(r) PROVE TypeOK'
  BY <1>11 DEF TypeOK, vars, tags, queue, plan, Enter, Leave, Goto, End, Steps, TagValue, BuildSteps, PublishSteps, Ended, InspectShaTag
<1>12. ASSUME NEW r \in Runs, Refuse(r) PROVE TypeOK'
  BY <1>12 DEF TypeOK, vars, tags, queue, plan, Enter, Leave, Goto, End, Steps, TagValue, BuildSteps, PublishSteps, Ended, Refuse
<1>13. ASSUME NEW r \in Runs, WriteTag(r) PROVE TypeOK'
  <2>1. PICK t \in todo[r] :
          /\ latest' = IF t = "latest" THEN receipt[r] ELSE latest
          /\ sha' = IF t = "sha" THEN [sha EXCEPT ![src[r]] = receipt[r]]
                    ELSE sha
          /\ promoted' = IF t = "promoted"
                         THEN [promoted EXCEPT ![receipt[r]] = receipt[r]]
                         ELSE promoted
          /\ todo' = [todo EXCEPT ![r] = @ \ {t}]
          /\ IF todo[r] = {t} THEN End(r, "done") ELSE Goto(r, "retag")
    BY <1>13 DEF WriteTag
  <2>2. UNCHANGED <<head, built, plan, image, receipt, validation, seenLatest>>
    BY <1>13 DEF WriteTag
  <2>3. latest' \in TagValue /\ sha' \in [Commits -> TagValue]
        /\ promoted' \in [Digests -> TagValue]
    BY <2>1 DEF TypeOK
  <2>4. /\ pc' \in [Runs -> Steps]
        /\ holder' \in Runs \cup {None} /\ pending' \in Runs \cup {None}
    BY <2>1 DEF TypeOK, End, Goto, Leave, queue, Steps, PublishSteps, Ended
  <2>5. todo' \in [Runs -> SUBSET {"latest", "promoted", "sha"}]
    BY <2>1 DEF TypeOK
  <2> QED
    BY <2>2, <2>3, <2>4, <2>5 DEF TypeOK, plan
<1>14. ASSUME NEW r \in Runs, JobFails(r) PROVE TypeOK'
  BY <1>14 DEF TypeOK, vars, tags, queue, plan, Enter, Leave, Goto, End, Steps, TagValue, BuildSteps, PublishSteps, Ended, JobFails
<1>15. CASE MoveHead
  BY <1>15 DEF TypeOK, vars, tags, queue, plan, MoveHead
<1>16. CASE UNCHANGED vars
  BY <1>16 DEF TypeOK, vars, tags, queue, plan
<1> QED
  BY <1>1, <1>2, <1>3, <1>4, <1>5, <1>6, <1>7, <1>8, <1>9, <1>10, <1>11, <1>12, <1>13, <1>14, <1>15, <1>16 DEF Next, Proceed

-----------------------------------------------------------------------------
(* The concurrency group, whatever job uses it: how each of its three      *)
(* operations keeps the group serialized.                                  *)

LEMMA EnterKeepsGroup ==
  ASSUME TypeOK, PublicationSerialized,
         NEW r \in Runs, NEW step \in {"build", "publish"},
         pc[r] \notin BuildSteps \cup PublishSteps, Enter(r, step)
  PROVE  PublicationSerialized'
<1> USE NoneAssumption DEF TypeOK, PublicationSerialized, Enter, Inside,
                           BuildSteps, PublishSteps
<1>1. CASE holder = None
  BY <1>1
<1>2. CASE holder # None
  BY <1>2
<1> QED
  BY <1>1, <1>2

LEMMA GotoKeepsGroup ==
  ASSUME TypeOK, PublicationSerialized,
         NEW r \in Runs, NEW step \in BuildSteps \cup PublishSteps,
         holder = r, Goto(r, step)
  PROVE  PublicationSerialized'
BY NoneAssumption DEF TypeOK, PublicationSerialized, Goto, Inside, queue,
                      BuildSteps, PublishSteps

LEMMA EndKeepsGroup ==
  ASSUME TypeOK, PublicationSerialized,
         NEW r \in Runs, NEW step \in Ended \cup {"gates"}, End(r, step)
  PROVE  PublicationSerialized'
BY NoneAssumption DEF TypeOK, PublicationSerialized, End, Leave, Inside,
                      BuildSteps, PublishSteps, Ended

LEMMA SerializedStep ==
  ASSUME TypeOK, PublicationSerialized, [Next]_vars
  PROVE  PublicationSerialized'
<1>1. ASSUME NEW r \in Runs, Dispatch(r) \/ EnterPublish(r)
      PROVE  PublicationSerialized'
  BY <1>1, EnterKeepsGroup DEF Dispatch, EnterPublish, BuildSteps, PublishSteps
<1>2. ASSUME NEW r \in Runs, PushCandidate(r) \/ ReadLatest(r) \/ Gate(r)
                             \/ InspectPromotedTag(r) \/ InspectShaTag(r)
      PROVE  PublicationSerialized'
  <2>1. holder = r
    BY <1>2 DEF PublicationSerialized, Inside, BuildSteps, PublishSteps,
                PushCandidate, ReadLatest, Gate, InspectPromotedTag,
                InspectShaTag
  <2>2. PICK step \in BuildSteps \cup PublishSteps : Goto(r, step)
    BY <1>2 DEF BuildSteps, PublishSteps, PushCandidate, ReadLatest, Gate,
                InspectPromotedTag, InspectShaTag
  <2> QED
    BY <2>1, <2>2, GotoKeepsGroup
<1>3. ASSUME NEW r \in Runs, RecordCandidate(r) \/ AbortOnValidateFailure(r)
                             \/ Refuse(r) \/ JobFails(r)
      PROVE  PublicationSerialized'
  <2>1. PICK step \in Ended \cup {"gates"} : End(r, step)
    BY <1>3 DEF Ended, RecordCandidate, AbortOnValidateFailure, Refuse, JobFails
  <2> QED
    BY <2>1, EndKeepsGroup
<1>4. ASSUME NEW r \in Runs, MarkBuilt(r) \/ WriteTag(r)
      PROVE  PublicationSerialized'
  <2>1. holder = r
    BY <1>4 DEF PublicationSerialized, Inside, BuildSteps, PublishSteps,
                MarkBuilt, WriteTag
  <2>2. End(r, "done") \/ Goto(r, "latest1") \/ Goto(r, "retag")
    BY <1>4 DEF MarkBuilt, WriteTag
  <2> QED
    BY <2>1, <2>2, GotoKeepsGroup, EndKeepsGroup
       DEF BuildSteps, PublishSteps, Ended
<1>5. ASSUME NEW r \in Runs, ValidationEnds(r)
      PROVE  PublicationSerialized'
  BY <1>5 DEF ValidationEnds, PublicationSerialized, queue
<1>6. CASE MoveHead
  BY <1>6 DEF MoveHead, PublicationSerialized, queue
<1>7. CASE UNCHANGED vars
  BY <1>7 DEF vars, PublicationSerialized, queue
<1> QED
  BY <1>1, <1>2, <1>3, <1>4, <1>5, <1>6, <1>7 DEF Next, Proceed

-----------------------------------------------------------------------------
(* The other parts of the invariant, one action at a time.                 *)

\* A receipt is only ever the verified image of the run's own source.
LEMMA CandidateStep ==
  ASSUME TypeOK, CandidateInv, [Next]_vars
  PROVE  CandidateInv'
<1> USE ImageAssumption, NoneAssumption
    DEF CandidateInv, TypeOK, Steps, TagValue, BuildSteps, PublishSteps,
        Ended, tags, queue, plan, Enter, Goto, End
<1>1. ASSUME NEW r \in Runs, Dispatch(r) PROVE CandidateInv'
  BY <1>1 DEF Dispatch
<1>2. ASSUME NEW r \in Runs, PushCandidate(r) PROVE CandidateInv'
  BY <1>2 DEF PushCandidate
<1>3. ASSUME NEW r \in Runs, RecordCandidate(r) PROVE CandidateInv'
  BY <1>3 DEF RecordCandidate
<1>4. ASSUME NEW r \in Runs, ValidationEnds(r) PROVE CandidateInv'
  BY <1>4 DEF ValidationEnds
<1>5. ASSUME NEW r \in Runs, AbortOnValidateFailure(r) PROVE CandidateInv'
  BY <1>5 DEF AbortOnValidateFailure
<1>6. ASSUME NEW r \in Runs, EnterPublish(r) PROVE CandidateInv'
  BY <1>6 DEF EnterPublish
<1>7. ASSUME NEW r \in Runs, MarkBuilt(r) PROVE CandidateInv'
  BY <1>7 DEF MarkBuilt
<1>8. ASSUME NEW r \in Runs, ReadLatest(r) PROVE CandidateInv'
  BY <1>8 DEF ReadLatest
<1>9. ASSUME NEW r \in Runs, Gate(r) PROVE CandidateInv'
  BY <1>9 DEF Gate
<1>10. ASSUME NEW r \in Runs, InspectPromotedTag(r) PROVE CandidateInv'
  BY <1>10 DEF InspectPromotedTag
<1>11. ASSUME NEW r \in Runs, InspectShaTag(r) PROVE CandidateInv'
  BY <1>11 DEF InspectShaTag
<1>12. ASSUME NEW r \in Runs, Refuse(r) PROVE CandidateInv'
  BY <1>12 DEF Refuse
<1>13. ASSUME NEW r \in Runs, WriteTag(r) PROVE CandidateInv'
  BY <1>13 DEF WriteTag
<1>14. ASSUME NEW r \in Runs, JobFails(r) PROVE CandidateInv'
  BY <1>14 DEF JobFails
<1>15. CASE MoveHead
  BY <1>15 DEF MoveHead
<1>16. CASE UNCHANGED vars
  BY <1>16 DEF vars
<1> QED
  BY <1>1, <1>2, <1>3, <1>4, <1>5, <1>6, <1>7,
     <1>8, <1>9, <1>10, <1>11, <1>12, <1>13, <1>14, <1>15, <1>16 DEF Next, Proceed

\* Nobody else can move :latest between the gate's read and the write.
LEMMA LatestStep ==
  ASSUME TypeOK, PublicationSerialized, CandidateInv, LatestInv, [Next]_vars
  PROVE  LatestInv'
<1> USE ImageAssumption, NoneAssumption
    DEF LatestInv, PublicationSerialized, CandidateInv, TypeOK, Inside,
        TagValue, BuildSteps, PublishSteps, Ended, Authorized,
        tags, queue, plan, Enter, Goto, End
<1>1. ASSUME NEW r \in Runs, Dispatch(r) PROVE LatestInv'
  BY <1>1 DEF Dispatch
<1>2. ASSUME NEW r \in Runs, PushCandidate(r) PROVE LatestInv'
  BY <1>2 DEF PushCandidate
<1>3. ASSUME NEW r \in Runs, RecordCandidate(r) PROVE LatestInv'
  BY <1>3 DEF RecordCandidate
<1>4. ASSUME NEW r \in Runs, ValidationEnds(r) PROVE LatestInv'
  BY <1>4 DEF ValidationEnds
<1>5. ASSUME NEW r \in Runs, AbortOnValidateFailure(r) PROVE LatestInv'
  BY <1>5 DEF AbortOnValidateFailure
<1>6. ASSUME NEW r \in Runs, EnterPublish(r) PROVE LatestInv'
  BY <1>6 DEF EnterPublish
<1>7. ASSUME NEW r \in Runs, MarkBuilt(r) PROVE LatestInv'
  BY <1>7 DEF MarkBuilt
<1>8. ASSUME NEW r \in Runs, ReadLatest(r) PROVE LatestInv'
  BY <1>8 DEF ReadLatest
<1>9. ASSUME NEW r \in Runs, Gate(r) PROVE LatestInv'
  BY <1>9 DEF Gate
<1>10. ASSUME NEW r \in Runs, InspectPromotedTag(r) PROVE LatestInv'
  BY <1>10 DEF InspectPromotedTag
<1>11. ASSUME NEW r \in Runs, InspectShaTag(r) PROVE LatestInv'
  BY <1>11 DEF InspectShaTag
<1>12. ASSUME NEW r \in Runs, Refuse(r) PROVE LatestInv'
  BY <1>12 DEF Refuse
<1>13. ASSUME NEW r \in Runs, WriteTag(r) PROVE LatestInv'
  BY <1>13 DEF WriteTag
<1>14. ASSUME NEW r \in Runs, JobFails(r) PROVE LatestInv'
  BY <1>14 DEF JobFails
<1>15. CASE MoveHead
  BY <1>15 DEF MoveHead
<1>16. CASE UNCHANGED vars
  BY <1>16 DEF vars
<1> QED
  BY <1>1, <1>2, <1>3, <1>4, <1>5, <1>6, <1>7,
     <1>8, <1>9, <1>10, <1>11, <1>12, <1>13, <1>14, <1>15, <1>16 DEF Next, Proceed

\* Nobody else can write a tag between its inspection and the write.
LEMMA TodoStep ==
  ASSUME TypeOK, PublicationSerialized, CandidateInv, TodoInv, [Next]_vars
  PROVE  TodoInv'
<1> USE ImageAssumption, NoneAssumption
    DEF TodoInv, PromotedPending, ShaPending, PublicationSerialized,
        CandidateInv, TypeOK, Inside, TagValue, BuildSteps,
        PublishSteps, Ended, tags, queue, plan, Enter, Goto, End
<1>1. ASSUME NEW r \in Runs, Dispatch(r) PROVE TodoInv'
  BY <1>1 DEF Dispatch
<1>2. ASSUME NEW r \in Runs, PushCandidate(r) PROVE TodoInv'
  BY <1>2 DEF PushCandidate
<1>3. ASSUME NEW r \in Runs, RecordCandidate(r) PROVE TodoInv'
  BY <1>3 DEF RecordCandidate
<1>4. ASSUME NEW r \in Runs, ValidationEnds(r) PROVE TodoInv'
  BY <1>4 DEF ValidationEnds
<1>5. ASSUME NEW r \in Runs, AbortOnValidateFailure(r) PROVE TodoInv'
  BY <1>5 DEF AbortOnValidateFailure
<1>6. ASSUME NEW r \in Runs, EnterPublish(r) PROVE TodoInv'
  BY <1>6 DEF EnterPublish
<1>7. ASSUME NEW r \in Runs, MarkBuilt(r) PROVE TodoInv'
  BY <1>7 DEF MarkBuilt
<1>8. ASSUME NEW r \in Runs, ReadLatest(r) PROVE TodoInv'
  BY <1>8 DEF ReadLatest
<1>9. ASSUME NEW r \in Runs, Gate(r) PROVE TodoInv'
  BY <1>9 DEF Gate
<1>10. ASSUME NEW r \in Runs, InspectPromotedTag(r) PROVE TodoInv'
  BY <1>10 DEF InspectPromotedTag
<1>11. ASSUME NEW r \in Runs, InspectShaTag(r) PROVE TodoInv'
  BY <1>11 DEF InspectShaTag
<1>12. ASSUME NEW r \in Runs, Refuse(r) PROVE TodoInv'
  BY <1>12 DEF Refuse
<1>13. ASSUME NEW r \in Runs, WriteTag(r) PROVE TodoInv'
  BY <1>13 DEF WriteTag
<1>14. ASSUME NEW r \in Runs, JobFails(r) PROVE TodoInv'
  BY <1>14 DEF JobFails
<1>15. CASE MoveHead
  BY <1>15 DEF MoveHead
<1>16. CASE UNCHANGED vars
  BY <1>16 DEF vars
<1> QED
  BY <1>1, <1>2, <1>3, <1>4, <1>5, <1>6, <1>7,
     <1>8, <1>9, <1>10, <1>11, <1>12, <1>13, <1>14, <1>15, <1>16 DEF Next, Proceed

\* Success presupposes a receipt.
LEMMA DoneStep ==
  ASSUME TypeOK, CandidateInv, DoneInv, [Next]_vars
  PROVE  DoneInv'
<1> USE ImageAssumption, NoneAssumption
    DEF DoneInv, CandidateInv, TypeOK, BuildSteps, PublishSteps, Ended,
        tags, queue, plan, Enter, Goto, End
<1>1. ASSUME NEW r \in Runs, Dispatch(r) PROVE DoneInv'
  BY <1>1 DEF Dispatch
<1>2. ASSUME NEW r \in Runs, PushCandidate(r) PROVE DoneInv'
  BY <1>2 DEF PushCandidate
<1>3. ASSUME NEW r \in Runs, RecordCandidate(r) PROVE DoneInv'
  BY <1>3 DEF RecordCandidate
<1>4. ASSUME NEW r \in Runs, ValidationEnds(r) PROVE DoneInv'
  BY <1>4 DEF ValidationEnds
<1>5. ASSUME NEW r \in Runs, AbortOnValidateFailure(r) PROVE DoneInv'
  BY <1>5 DEF AbortOnValidateFailure
<1>6. ASSUME NEW r \in Runs, EnterPublish(r) PROVE DoneInv'
  BY <1>6 DEF EnterPublish
<1>7. ASSUME NEW r \in Runs, MarkBuilt(r) PROVE DoneInv'
  BY <1>7 DEF MarkBuilt
<1>8. ASSUME NEW r \in Runs, ReadLatest(r) PROVE DoneInv'
  BY <1>8 DEF ReadLatest
<1>9. ASSUME NEW r \in Runs, Gate(r) PROVE DoneInv'
  BY <1>9 DEF Gate
<1>10. ASSUME NEW r \in Runs, InspectPromotedTag(r) PROVE DoneInv'
  BY <1>10 DEF InspectPromotedTag
<1>11. ASSUME NEW r \in Runs, InspectShaTag(r) PROVE DoneInv'
  BY <1>11 DEF InspectShaTag
<1>12. ASSUME NEW r \in Runs, Refuse(r) PROVE DoneInv'
  BY <1>12 DEF Refuse
<1>13. ASSUME NEW r \in Runs, WriteTag(r) PROVE DoneInv'
  BY <1>13 DEF WriteTag
<1>14. ASSUME NEW r \in Runs, JobFails(r) PROVE DoneInv'
  BY <1>14 DEF JobFails
<1>15. CASE MoveHead
  BY <1>15 DEF MoveHead
<1>16. CASE UNCHANGED vars
  BY <1>16 DEF vars
<1> QED
  BY <1>1, <1>2, <1>3, <1>4, <1>5, <1>6, <1>7,
     <1>8, <1>9, <1>10, <1>11, <1>12, <1>13, <1>14, <1>15, <1>16 DEF Next, Proceed

\* The last tag written completes the record, and no later run undoes it.
LEMMA RecordStep ==
  ASSUME TypeOK, CandidateInv, TodoInv, DoneInv, SuccessLeavesRecord, [Next]_vars
  PROVE  SuccessLeavesRecord'
<1> USE ImageAssumption, NoneAssumption
    DEF SuccessLeavesRecord, TodoInv, DoneInv, PromotedPending, ShaPending,
        CandidateInv, TypeOK, TagValue, BuildSteps, PublishSteps, Ended,
        tags, queue, plan, Enter, Goto, End
<1>1. ASSUME NEW r \in Runs, Dispatch(r) PROVE SuccessLeavesRecord'
  BY <1>1 DEF Dispatch
<1>2. ASSUME NEW r \in Runs, PushCandidate(r) PROVE SuccessLeavesRecord'
  BY <1>2 DEF PushCandidate
<1>3. ASSUME NEW r \in Runs, RecordCandidate(r) PROVE SuccessLeavesRecord'
  BY <1>3 DEF RecordCandidate
<1>4. ASSUME NEW r \in Runs, ValidationEnds(r) PROVE SuccessLeavesRecord'
  BY <1>4 DEF ValidationEnds
<1>5. ASSUME NEW r \in Runs, AbortOnValidateFailure(r) PROVE SuccessLeavesRecord'
  BY <1>5 DEF AbortOnValidateFailure
<1>6. ASSUME NEW r \in Runs, EnterPublish(r) PROVE SuccessLeavesRecord'
  BY <1>6 DEF EnterPublish
<1>7. ASSUME NEW r \in Runs, MarkBuilt(r) PROVE SuccessLeavesRecord'
  BY <1>7 DEF MarkBuilt
<1>8. ASSUME NEW r \in Runs, ReadLatest(r) PROVE SuccessLeavesRecord'
  BY <1>8 DEF ReadLatest
<1>9. ASSUME NEW r \in Runs, Gate(r) PROVE SuccessLeavesRecord'
  BY <1>9 DEF Gate
<1>10. ASSUME NEW r \in Runs, InspectPromotedTag(r) PROVE SuccessLeavesRecord'
  BY <1>10 DEF InspectPromotedTag
<1>11. ASSUME NEW r \in Runs, InspectShaTag(r) PROVE SuccessLeavesRecord'
  BY <1>11 DEF InspectShaTag
<1>12. ASSUME NEW r \in Runs, Refuse(r) PROVE SuccessLeavesRecord'
  BY <1>12 DEF Refuse
<1>13. ASSUME NEW r \in Runs, WriteTag(r) PROVE SuccessLeavesRecord'
  BY <1>13 DEF WriteTag
<1>14. ASSUME NEW r \in Runs, JobFails(r) PROVE SuccessLeavesRecord'
  BY <1>14 DEF JobFails
<1>15. CASE MoveHead
  BY <1>15 DEF MoveHead
<1>16. CASE UNCHANGED vars
  BY <1>16 DEF vars
<1> QED
  BY <1>1, <1>2, <1>3, <1>4, <1>5, <1>6, <1>7,
     <1>8, <1>9, <1>10, <1>11, <1>12, <1>13, <1>14, <1>15, <1>16 DEF Next, Proceed

\* A run that witnesses a built-<c> keeps its receipt and its verdict.
LEMMA BuiltStep ==
  ASSUME TypeOK, CandidateInv, BuiltMeansVerified, [Next]_vars
  PROVE  BuiltMeansVerified'
<1> USE ImageAssumption, NoneAssumption
    DEF BuiltMeansVerified, CandidateInv, TypeOK, TagValue, BuildSteps,
        PublishSteps, tags, queue, plan, Goto, End
<1>1. ASSUME NEW r \in Runs, Dispatch(r) PROVE BuiltMeansVerified'
  BY <1>1 DEF Dispatch
<1>2. ASSUME NEW r \in Runs, PushCandidate(r) PROVE BuiltMeansVerified'
  BY <1>2 DEF PushCandidate
<1>3. ASSUME NEW r \in Runs, RecordCandidate(r) PROVE BuiltMeansVerified'
  BY <1>3 DEF RecordCandidate
<1>4. ASSUME NEW r \in Runs, ValidationEnds(r) PROVE BuiltMeansVerified'
  BY <1>4 DEF ValidationEnds
<1>5. ASSUME NEW r \in Runs, AbortOnValidateFailure(r) PROVE BuiltMeansVerified'
  BY <1>5 DEF AbortOnValidateFailure
<1>6. ASSUME NEW r \in Runs, EnterPublish(r) PROVE BuiltMeansVerified'
  BY <1>6 DEF EnterPublish
<1>7. ASSUME NEW r \in Runs, MarkBuilt(r) PROVE BuiltMeansVerified'
  BY <1>7 DEF MarkBuilt
<1>8. ASSUME NEW r \in Runs, ReadLatest(r) PROVE BuiltMeansVerified'
  BY <1>8 DEF ReadLatest
<1>9. ASSUME NEW r \in Runs, Gate(r) PROVE BuiltMeansVerified'
  BY <1>9 DEF Gate
<1>10. ASSUME NEW r \in Runs, InspectPromotedTag(r) PROVE BuiltMeansVerified'
  BY <1>10 DEF InspectPromotedTag
<1>11. ASSUME NEW r \in Runs, InspectShaTag(r) PROVE BuiltMeansVerified'
  BY <1>11 DEF InspectShaTag
<1>12. ASSUME NEW r \in Runs, Refuse(r) PROVE BuiltMeansVerified'
  BY <1>12 DEF Refuse
<1>13. ASSUME NEW r \in Runs, WriteTag(r) PROVE BuiltMeansVerified'
  BY <1>13 DEF WriteTag
<1>14. ASSUME NEW r \in Runs, JobFails(r) PROVE BuiltMeansVerified'
  BY <1>14 DEF JobFails
<1>15. CASE MoveHead
  BY <1>15 DEF MoveHead
<1>16. CASE UNCHANGED vars
  BY <1>16 DEF vars
<1> QED
  BY <1>1, <1>2, <1>3, <1>4, <1>5, <1>6, <1>7,
     <1>8, <1>9, <1>10, <1>11, <1>12, <1>13, <1>14, <1>15, <1>16 DEF Next, Proceed

-----------------------------------------------------------------------------
(* Results.                                                                *)

LEMMA InvInit == Init => Inv
BY ImageAssumption, NoneAssumption
   DEF Init, Inv, TypeOK, TagValue, Steps, PublicationSerialized, Inside,
       BuildSteps, PublishSteps, Ended, CandidateInv, LatestInv, TodoInv,
       DoneInv, SuccessLeavesRecord, BuiltMeansVerified

LEMMA InvStep == Inv /\ [Next]_vars => Inv'
BY TypeStep, SerializedStep, CandidateStep, LatestStep, TodoStep, DoneStep,
   RecordStep, BuiltStep DEF Inv

LEMMA InvAlways == Spec => []Inv
BY InvInit, InvStep, PTL DEF Spec

\* The variables keep their types in every release, of any number of runs.
THEOREM TypeCorrect == Spec => []TypeOK
BY InvAlways, PTL DEF Inv

\* At most one job of the image's group is past its queue: no two runs,
\* however many wait, are evicted or fail, write the image's tags at once.
THEOREM Serialized == Spec => []PublicationSerialized
BY InvAlways, PTL DEF Inv

\* built-<c> always names the verified candidate of a validated run of c.
THEOREM BuiltIsVerified == Spec => []BuiltMeansVerified
BY InvAlways, PTL DEF Inv

\* A run that reports a successful promotion has left its whole record.
THEOREM RecordIsComplete == Spec => []SuccessLeavesRecord
BY InvAlways, PTL DEF Inv

\* Only two actions touch the registry.
LEMMA TagWriters ==
  ASSUME [Next]_vars
  PROVE  \/ UNCHANGED tags
         \/ \E r \in Runs : MarkBuilt(r) \/ WriteTag(r)
BY DEF Next, Proceed, vars, tags, MoveHead, Dispatch, PushCandidate,
       RecordCandidate, ValidationEnds, AbortOnValidateFailure, EnterPublish,
       ReadLatest, Gate, InspectPromotedTag, InspectShaTag, Refuse, JobFails

\* What a write of a tag may do, from what the run has established by then.
LEMMA WriteTagObeys ==
  ASSUME Inv, NEW r \in Runs, WriteTag(r)
  PROVE  LET d == receipt[r] IN
         /\ d \in Digests /\ Label[d] = src[r] /\ built[src[r]] # None
         /\ \/ /\ latest # None => Contains(src[r], Label[latest])
               /\ latest' = d
               /\ UNCHANGED <<sha, promoted, built>>
            \/ /\ sha[src[r]] = None
               /\ sha' = [sha EXCEPT ![src[r]] = d]
               /\ UNCHANGED <<latest, promoted, built>>
            \/ /\ promoted[d] = None
               /\ promoted' = [promoted EXCEPT ![d] = d]
               /\ UNCHANGED <<latest, sha, built>>
<1>1. pc[r] = "retag"
  BY DEF WriteTag
<1>2. /\ receipt[r] \in Digests
      /\ Label[receipt[r]] = src[r]
      /\ built[src[r]] # None
  BY <1>1 DEF Inv, CandidateInv, TypeOK, TagValue, PublishSteps
<1>3. PICK t \in todo[r] :
        /\ latest' = IF t = "latest" THEN receipt[r] ELSE latest
        /\ sha' = IF t = "sha" THEN [sha EXCEPT ![src[r]] = receipt[r]]
                  ELSE sha
        /\ promoted' = IF t = "promoted"
                       THEN [promoted EXCEPT ![receipt[r]] = receipt[r]]
                       ELSE promoted
        /\ UNCHANGED built
  BY DEF WriteTag
<1>4. t \in {"latest", "sha", "promoted"}
  BY DEF Inv, TypeOK
<1>5. CASE t = "latest"
  BY <1>1, <1>2, <1>3, <1>5 DEF Inv, LatestInv
<1>6. CASE t = "sha"
  BY <1>1, <1>2, <1>3, <1>6 DEF Inv, TodoInv, ShaPending
<1>7. CASE t = "promoted"
  BY <1>1, <1>2, <1>3, <1>7 DEF Inv, TodoInv, PromotedPending
<1> QED
  BY <1>4, <1>5, <1>6, <1>7

\* :latest moves only to a source that contains the one it leaves.
THEOREM NeverBackwards == Spec => LatestNeverBackwards
<1>1. Inv /\ [Next]_vars
        => [latest' # latest /\ latest # None
              => Contains(Label[latest'], Label[latest])]_vars
  <2> SUFFICES ASSUME Inv, [Next]_vars, latest' # latest, latest # None
               PROVE  Contains(Label[latest'], Label[latest])
    OBVIOUS
  <2>1. PICK r \in Runs : WriteTag(r)
    BY TagWriters DEF tags, MarkBuilt
  <2> QED
    BY <2>1, WriteTagObeys
<1> QED
  BY <1>1, InvAlways, PTL DEF Spec, LatestNeverBackwards

\* sha-<c> and promoted-<c>-<d> are written at most once.
THEOREM RecordsImmutable == Spec => PromotionRecordsImmutable
<1> DEFINE Kept ==
        /\ \A c \in Commits : sha[c] # None => sha'[c] = sha[c]
        /\ \A d \in Digests : promoted[d] # None => promoted'[d] = promoted[d]
<1>1. Inv /\ [Next]_vars => [Kept]_vars
  <2> SUFFICES ASSUME Inv, [Next]_vars
               PROVE  Kept
    OBVIOUS
  <2>1. CASE UNCHANGED tags
    BY <2>1 DEF tags
  <2>2. ASSUME NEW r \in Runs, MarkBuilt(r)
        PROVE  Kept
    BY <2>2 DEF MarkBuilt
  <2>3. ASSUME NEW r \in Runs, WriteTag(r)
        PROVE  Kept
    BY <2>3, WriteTagObeys DEF Inv, TypeOK
  <2> QED
    BY <2>1, <2>2, <2>3, TagWriters
<1> QED
  BY <1>1, InvAlways, PTL DEF Spec, PromotionRecordsImmutable

\* The pipeline implements the ledger: each of its steps writes the tags as
\* one ledger action does, or leaves them alone.
THEOREM ImplementsLedger == Spec => LedgerSpec
<1>1. Init => Ledger!Init
  BY DEF Init, Ledger!Init, TagValue
<1>2. Inv /\ [Next]_vars => [Ledger!Next]_(Ledger!tags)
  <2> SUFFICES ASSUME Inv, [Next]_vars
               PROVE  Ledger!Next \/ UNCHANGED Ledger!tags
    BY DEF Ledger!tags
  <2>1. CASE UNCHANGED tags
    BY <2>1 DEF tags, Ledger!tags
  <2>2. ASSUME NEW r \in Runs, MarkBuilt(r)
        PROVE  Ledger!Next
    <3>1. receipt[r] \in Digests /\ Label[receipt[r]] = src[r]
      BY <2>2 DEF Inv, CandidateInv, TypeOK, TagValue, MarkBuilt
    <3>2. Ledger!MarkBuilt(receipt[r])
      BY <2>2, <3>1 DEF MarkBuilt, Ledger!MarkBuilt
    <3> QED
      BY <3>1, <3>2 DEF Ledger!Next
  <2>3. ASSUME NEW r \in Runs, WriteTag(r)
        PROVE  Ledger!Next
    BY <2>3, WriteTagObeys
       DEF Contains, Ledger!Next, Ledger!Advance, Ledger!BindSha,
           Ledger!BindPromoted
  <2> QED
    BY <2>1, <2>2, <2>3, TagWriters
<1> QED
  BY <1>1, <1>2, InvAlways, PTL DEF Spec, LedgerSpec, Ledger!Spec

-----------------------------------------------------------------------------
(* What the ledger's rules mean to a reader of revisions: a marker stays,  *)
(* and the two tags that record a promotion are not seen.                  *)

\* A digest takes the marker of its revision, others keep theirs.
LEMMA MarkIsSeen ==
    ASSUME TypeOK, NEW d \in Digests, Ledger!MarkBuilt(d)
    PROVE  Revisions!Mark(Label[d])
<1>1. Label[d] \in Commits /\ d # None
  BY ImageAssumption, NoneAssumption
<1>2. built' = [built EXCEPT ![Label[d]] = d] /\ UNCHANGED latest
  BY DEF Ledger!MarkBuilt
<1>3. {c \in Commits : built'[c] # None} = {c \in Commits : built[c] # None} \cup {Label[d]}
  BY <1>1, <1>2 DEF TypeOK
<1> QED
  BY <1>2, <1>3 DEF Revisions!Mark

\* :latest moves to a marked descendant.
LEMMA AdvanceIsSeen ==
    ASSUME TypeOK, NEW d \in Digests, Ledger!Advance(d)
    PROVE  Revisions!Advance(Label[d])
<1>1. Label[d] \in Commits /\ d # None
  BY ImageAssumption, NoneAssumption
<1>2. /\ built[Label[d]] # None /\ UNCHANGED built
      /\ latest # None => Label[latest] \in Ancestors[Label[d]]
      /\ latest' = d
  BY DEF Ledger!Advance
<1>3. (IF latest = None THEN None ELSE Label[latest]) # None
         => (IF latest = None THEN None ELSE Label[latest]) \in Ancestors[Label[d]]
  BY <1>2
<1>4. (IF latest' = None THEN None ELSE Label[latest']) = Label[d]
  BY <1>1, <1>2
<1>5. Label[d] \in {c \in Commits : built[c] # None}
  BY <1>1, <1>2
<1> QED
  BY <1>2, <1>3, <1>4, <1>5 DEF Revisions!Advance

\* A step of the ledger is one that a reader of revisions expects, or none.
LEMMA LedgerStepIsSeen ==
    ASSUME TypeOK, [Ledger!Next]_(Ledger!tags)
    PROVE  [Revisions!Next]_(Revisions!seen)
<1>1. ASSUME NEW d \in Digests, Ledger!MarkBuilt(d) \/ Ledger!Advance(d)
      PROVE  Revisions!Next
  <2>1. Label[d] \in Commits
    BY ImageAssumption
  <2> QED
    BY <1>1, <2>1, MarkIsSeen, AdvanceIsSeen DEF Revisions!Next
<1>2. ASSUME UNCHANGED <<latest, built>>
      PROVE  UNCHANGED Revisions!seen
  BY <1>2 DEF Revisions!seen
<1>3. ASSUME NEW d \in Digests, Ledger!BindSha(d) \/ Ledger!BindPromoted(d)
      PROVE  UNCHANGED <<latest, built>>
  BY <1>3 DEF Ledger!BindSha, Ledger!BindPromoted
<1>4. UNCHANGED Ledger!tags => UNCHANGED <<latest, built>>
  BY DEF Ledger!tags
<1> QED
  BY <1>1, <1>2, <1>3, <1>4 DEF Ledger!Next

\* The pipeline keeps what the poller relies on (build.yml publish): a marker
\* stays, and :latest is labelled with marked sources, each a descendant of the
\* one before, whatever runs race for the image.
THEOREM KeepsRevisions == Spec => RevisionSpec
<1>1. Init => Revisions!Init
  <2> SUFFICES ASSUME Init PROVE Revisions!Init
    OBVIOUS
  <2>1. latest \in Digests \cup {None}
    BY DEF Init, TagValue
  <2>2. latest # None => Label[latest] \in Commits
    BY <2>1, ImageAssumption
  <2> QED
    BY <2>2 DEF Revisions!Init
<1>2. TypeOK /\ [Ledger!Next]_(Ledger!tags) => [Revisions!Next]_(Revisions!seen)
  BY LedgerStepIsSeen
<1>3. Spec => [][Ledger!Next]_(Ledger!tags)
  BY ImplementsLedger, PTL DEF LedgerSpec, Ledger!Spec
<1> QED
  BY <1>1, <1>2, <1>3, TypeCorrect, PTL DEF Spec, RevisionSpec, Revisions!Spec
=============================================================================
