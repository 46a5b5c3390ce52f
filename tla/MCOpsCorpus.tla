----------------------------- MODULE MCOpsCorpus -----------------------------
(***************************************************************************)
(* A small instance of each of the four of CorpusEvidence.                 *)
(*                                                                         *)
(* OpsCorpus has two shards of three modules.  m1 has a case that a        *)
(* collection may miss and one that may be skipped, m2 may skip as a whole *)
(* and has a case that needs the native job, m3 has none.                  *)
(***************************************************************************)
EXTENDS CorpusEvidence

CONSTANTS m1, m2, m3, missed, nativeOnly, reviewed

MCOrdinary == <<m1, m2, m3>>
MCCasesOf == [m \in {m1, m2, m3} |->
    CASE m = m1 -> {missed, reviewed} [] m = m2 -> {nativeOnly} [] m = m3 -> {}]

\* TimingRecord: two processes of one case, and one write that fails.
OneCase == <<"a">>

\* SharedInputs: one commit after every reviewed source, two after the
\* historical one, the estate, the last of each group of reviews, and the
\* retirement.  SkipCases: two faults in one run.
CommitsAfter == [n \in 0..32 |-> IF n \in {0, 10, 16, 21, 27, 31, 32} THEN 2 ELSE 1]

\* The instances are such as the theorems are about.
ASSUME InstanceAssumption == FloorReachable /\ Legacy!CasesAssumption
=============================================================================
