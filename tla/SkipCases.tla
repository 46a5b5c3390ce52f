------------------------------ MODULE SkipCases ------------------------------
(***************************************************************************)
(* The admission of the cases an Ops run did not execute (scripts/         *)
(* pytest-shards.py, admit_skips): those a review (SkipReviews) named at   *)
(* the blob of their module.  Some skips only stand because the same case  *)
(* passed natively in this run; some modules are retired.  A module that   *)
(* is skipped whole leaves no rows of its cases, only its own.             *)
(***************************************************************************)
EXTENDS SkipReviews

CONSTANT MaxFaults      \* things that go wrong in one run

VARIABLES blob,         \* [test module -> its blob in the planned source]
          pinned,       \* the source is the one the first-native policy signs
          context,      \* where the sessions run: as the historical ones did?
          outcome,      \* [case -> what the shards report; "absent": no row]
          native,       \* the cases the native job of this run passed
          collected,    \* the <<module, reason>> the reference and the shards skip whole
          verdict

vars == <<blob, pinned, context, outcome, native, collected, verdict>>

-----------------------------------------------------------------------------
\* Cases reviewed on their own in a hosted run, some of them owed natively.
Hosted == {n \in {"h1", "h2"} : blob[ModuleOf[n]] = 0}
OwnerCanceled == {"h2"}

\* The historical Board139 case and its reviewed successors: at their blobs the
\* native job has passed exactly the cases known there, skipped or not.
Board139At == [b1 |-> 0, b2 |-> 1, b3 |-> 2]
Board139Cases == {n \in DOMAIN Board139At : Board139At[n] <= blob["board139"]}
Board139Agrees == blob["board139"] \in {1, 2} =>
                      native \cap DOMAIN Board139At = Board139Cases

\* The cases the pinned source adds with their native call.
FirstNative == IF pinned THEN {"f1"} ELSE {}
FirstNativeAgrees == pinned => blob["first"] = 1 /\ FirstNative \subseteq native

CanceledBackupSkip(n) == n = "c1" /\ blob["canceled"] = 1
RetiredHostSkip(n) == n = "x1" /\ blob["host"] = 1
SpecificSkip(n) == /\ n \in Hosted \cup Board139Cases \cup FirstNative
                   /\ n \in OwnerCanceled \/ n \in native
PlainSkip(n) == blob[ModuleOf[n]] \in AdmittedAt[n]

\* The module the baseline saw skipped whole, at that blob and for that reason.
CollectionSkips == IF blob["pin"] = 0 THEN {<<"pin", "skipped">>} ELSE {}

AdmitSkips ==
    /\ ReviewsSucceed
    /\ Board139Agrees /\ FirstNativeAgrees
    /\ context = "baseline"
    /\ \A n \in SkipNames : outcome[n] \in {"skipped", "otherwise"} =>
          /\ outcome[n] = "skipped"
          /\ \/ SpecificSkip(n) \/ PlainSkip(n)
             \/ CanceledBackupSkip(n) \/ RetiredHostSkip(n)
    /\ collected.shards \cup collected.reference \subseteq CollectionSkips
    /\ collected.shards = collected.reference

-----------------------------------------------------------------------------
ReviewedTo == [m \in Modules |-> CASE m = "board139" -> 2
                                 [] m \in {"canceled", "first", "host"} -> 1
                                 [] OTHER -> After[Len(Reviews)][m]]

NativeCases == {"h1", "b1", "b2", "b3", "f1"}
Owed == {n \in NativeCases : ModuleOf[n] = "board139" => n \in Board139Cases}

\* A source with one test module at another blob, where a run with no faults
\* executes everything, natively what the source has there.
Init == /\ \E m \in Modules : \E b \in -1..ReviewedTo[m] :
             blob = [[k \in Modules |-> 0] EXCEPT ![m] = b]
        /\ pinned \in BOOLEAN
        /\ context = "baseline" /\ verdict = "none"
        /\ outcome = [n \in SkipNames |-> "passed"]
        /\ native = Owed
        /\ collected = [reference |-> {}, shards |-> {}]

Faults == Cardinality({n \in SkipNames : outcome[n] \in {"skipped", "otherwise"}})
            + Cardinality(Owed \ native)
            + Cardinality(collected.shards) + Cardinality(collected.reference)

Running == verdict = "none" /\ Faults < MaxFaults

\* How cases and modules are skipped: as ever, or (a case) expected to fail or
\* skipped for another reason.
Ways == {"skipped", "otherwise"}

NotPassing(n) == /\ Running /\ outcome[n] = "passed"
                 /\ \E how \in Ways : outcome' = [outcome EXCEPT ![n] = how]
                 /\ UNCHANGED <<blob, pinned, context, native, collected, verdict>>
NativeMisses(n) == /\ Running /\ native' = native \ {n} /\ native' # native
                   /\ UNCHANGED <<blob, pinned, context, outcome, collected, verdict>>
\* Neither session collects a case of a module it skips whole.
SkipModule(session, m) ==
    LET own == {n \in SkipNames : ModuleOf[n] = m} IN
    /\ Running
    /\ \A how \in Ways : <<m, how>> \notin collected[session]
    /\ session = "shards" => \A n \in own : outcome[n] = "passed"
    /\ \E how \in Ways : collected' = [collected EXCEPT ![session] = @ \cup {<<m, how>>}]
    /\ outcome' = IF session = "shards"
                   THEN [n \in SkipNames |-> IF n \in own THEN "absent" ELSE outcome[n]]
                   ELSE outcome
    /\ UNCHANGED <<blob, pinned, context, native, verdict>>
OtherRunner == /\ Running /\ context' = "other"
               /\ UNCHANGED <<blob, pinned, outcome, native, collected, verdict>>

Join == /\ verdict = "none"
        /\ verdict' = IF AdmitSkips THEN "NO_NEW_SKIPS" ELSE "refused"
        /\ UNCHANGED <<blob, pinned, context, outcome, native, collected>>

Next == \/ \E n \in SkipNames : NotPassing(n)
        \/ \E n \in NativeCases : NativeMisses(n)
        \/ \E session \in {"reference", "shards"}, m \in Modules : SkipModule(session, m)
        \/ OtherRunner \/ Join

Spec == Init /\ [][Next]_vars

-----------------------------------------------------------------------------
\* A run with no new skips has executed every case, in the shards or natively,
\* but for those a review named at the very blob of their module (the last
\* review that touched the module, or the historical run when none did), and
\* those of the module that the historical run skipped whole at that blob, when
\* the reference skips it too.  No other module may go uncollected, for then
\* its cases leave no row that could be judged.  The retired cases, and those
\* owed natively, have no excuse (pytest-shards.py, admit_skips).
SkipsStayReviewed ==
    verdict = "NO_NEW_SKIPS" =>
        \A n \in SkipNames : LET m == ModuleOf[n]
                             here == {i \in All : After[i][m] = blob[m] /\ After[i - 1][m] # blob[m]} IN
            \/ outcome[n] = "passed"
            \/ n \in native
            \/ /\ n \notin NativeCases \cup {"x2", "z1"}
               /\ outcome[n] = "skipped"
               /\ \/ \E i \in here : n \in Named(i)
                  \/ blob[m] = 0 /\ n \in HistoricalCases \cup OwnerCanceled
                  \/ m \in {"canceled", "host"} /\ blob[m] = 1
            \/ /\ outcome[n] = "absent"
               /\ m = "pin" /\ blob[m] = 0
               /\ <<m, "skipped">> \in collected.reference
=============================================================================
