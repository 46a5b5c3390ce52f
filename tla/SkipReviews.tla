------------------------------ MODULE SkipReviews ------------------------------
(***************************************************************************)
(* The reviews of skipped cases that scripts/pytest-shards.py carries.     *)
(* The skip baseline names the cases one historical run skipped, each at   *)
(* the blob of its test module; a later review moves named cases from the  *)
(* blob they were admitted at to the one it saw, or adds a case.           *)
(* Constants only; SkipCases is the admission of a run.                    *)
(*                                                                         *)
(* A review is one definition.  The blobs of a test module are numbered in *)
(* the order in which reviews touch it: 0 is the historical one and -1 one *)
(* no review has seen.  The test modules stand for the kinds the code      *)
(* tells apart; a module has as few cases as tell its cases apart.         *)
(***************************************************************************)
EXTENDS Integers, Sequences, FiniteSets

ModuleOf == [r1 |-> "relay", r2 |-> "relay", l1 |-> "lab", l2 |-> "lab", l3 |-> "lab",
             s1 |-> "ssh", c1 |-> "canceled", h1 |-> "hosted", h2 |-> "hosted",
             b1 |-> "board139", b2 |-> "board139", b3 |-> "board139",
             f1 |-> "first", x1 |-> "host", x2 |-> "host", z1 |-> "nezha", p1 |-> "pin"]
SkipNames == DOMAIN ModuleOf
Modules == {ModuleOf[n] : n \in SkipNames}

\* moves and adds are cases; later reviews build on one that is `merged`.
Review(moves, adds) == [moves |-> moves, adds |-> adds, merged |-> TRUE]

HistoricalCases == {"l1", "l2", "s1", "c1"}
SshSkips == Review({"s1"}, {})
CurrentSkips == Review({"l1"}, {"r1", "r2"})
RelaySkip == Review({"r1", "r2"}, {})
RelayMetrics == RelaySkip
RelayMeter == RelaySkip
RelayPreservation == RelaySkip
CaseFile == Review({"l1"}, {"l3"})
SkipBlobs == Review({"l1", "l3"}, {})
ReleaseSkipBlobs == Review({"l1"}, {})
I10SkipBlobs == [Review({"l1"}, {}) EXCEPT !.merged = FALSE]
OrdinaryEvidence == Review({"l1"}, {})

Reviews == <<SshSkips, CurrentSkips, RelaySkip, RelayMetrics, RelayMeter, RelayPreservation,
             CaseFile, SkipBlobs, ReleaseSkipBlobs, I10SkipBlobs, OrdinaryEvidence>>
All == DOMAIN Reviews
Named(i) == Reviews[i].moves \cup Reviews[i].adds
After == [i \in 0..Len(Reviews) |-> [m \in Modules |->
            Cardinality({j \in 1..i : \E n \in Named(j) : ModuleOf[n] = m})]]

\* The latest blob each case is admitted at after the reviews up to i.
Latest ==
    LET at[i \in 0..Len(Reviews)] ==
          [n \in SkipNames |->
             IF i = 0 THEN IF n \in HistoricalCases THEN 0 ELSE -1
             ELSE IF n \in Named(i) /\ Reviews[i].merged THEN After[i][ModuleOf[n]]
             ELSE at[i - 1][n]]
    IN at

\* What every transition requires of its record, each time it is read.
ReviewsSucceed ==
    \A i \in All : /\ \A n \in Reviews[i].moves : Latest[i - 1][n] >= 0
                   /\ \A n \in Reviews[i].adds : Latest[i - 1][n] = -1

\* Faulty variant for SkipsStayReviewed: a review admits its blobs for every
\* case of the modules it touches.
ModuleSuccessors(i, n) ==
    IF \E k \in Named(i) : ModuleOf[k] = ModuleOf[n] THEN {After[i][ModuleOf[n]]} ELSE {}

\* The successors of each review map a case it names to the blob it saw.
Successors(i, n) == IF n \in Named(i) THEN {After[i][ModuleOf[n]]} ELSE {}
AdmittedAt ==
    [n \in SkipNames |-> (UNION {Successors(i, n) : i \in All})
                        \cup (IF n \in HistoricalCases THEN {0} ELSE {})]
=============================================================================
