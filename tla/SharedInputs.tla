---------------------------- MODULE SharedInputs ----------------------------
(***************************************************************************)
(* The admission of the shared inputs of an Ops source (scripts/           *)
(* pytest-shards.py).  A source is admitted by undoing the reviews         *)
(* (SharedReviews), the outermost first, down to the historical inputs.    *)
(* Blob -1 is one no review has seen; a proposed source descends from the  *)
(* source of one of the reviews.                                           *)
(***************************************************************************)
EXTENDS SharedReviews

CONSTANT MaxCommits     \* commits after each of the reviewed sources

VARIABLES base,         \* the reviewed source it descends from
          commits, files,
          pinned,       \* the signed policy names this very revision
          admission

vars == <<base, commits, files, pinned, admission>>

-----------------------------------------------------------------------------
Carries(inputs, i) == \E p \in Reviews[i].paths : inputs[p] = Blobs[i][p]

\* Faulty variant for InputsReviewed: one input stands for its review.
InPart(inputs, i) == Carries(inputs, i)

Whole(inputs, i) == \A p \in Reviews[i].paths : inputs[p] = Blobs[i][p]
Present(inputs, i) == \E p \in Reviews[i].paths : inputs[p] # 0
Undo(inputs, i) == [p \in Paths |-> IF p \in Reviews[i].paths THEN Blobs[i - 1][p]
                                    ELSE inputs[p]]

\* What the check of each review sees: the inputs with every outer one undone.
Peeled(inputs) ==
    LET seen[i \in All] ==
          IF i = Len(Reviews) THEN inputs
          ELSE LET outer == seen[i + 1] IN
               IF i + 1 = Estate /\ outer[Template] = 0 THEN outer
               ELSE IF Carries(outer, i + 1) THEN Undo(outer, i + 1) ELSE outer
    IN seen

\* The revision, when it is the source of a review; 0 for a later one.
Revision == IF commits = 0 THEN base ELSE 0
Landed(i) == i <= base
Successor == Revision # Estate      \* estate_successor_of, once it is proved
Retired == Landed(Retirement)       \* template_writer_retired_at

\* estate_successor_proof: what the planner, which alone has the history,
\* proves of the raw tree before anything is admitted.
PrInputProof(i) == Carries(files, i) => Landed(i) /\ Whole(files, i)
\* Faulty variant for LastingReviewsStay: a descendant that lost the inputs is
\* a source the review has nothing to say about.
PrCarriedProof(seen, i) == Carries(seen[i], i) => Landed(i) /\ Whole(seen[i], i)
PrSharedProof(seen, i) == Landed(i) \/ Carries(seen[i], i) => Landed(i) /\ Whole(seen[i], i)
NativeProtocolProof(i) == Present(files, i) => Landed(i) /\ Whole(files, i)
RetirementProof == Retired => files[Template] = 0

Proof(seen) ==
    /\ RetirementProof
    /\ Successor => Landed(Estate)
    /\ \A i \in All : LET rule == Reviews[i].rule IN
          /\ rule = "sidecar" => PrInputProof(i)
          /\ rule = "merged" => PrSharedProof(seen, i)
          /\ rule = "helper" => NativeProtocolProof(i)
          /\ rule = "lasting" /\ (Landed(i) \/ Carries(files, i)) => Landed(i) /\ Whole(files, i)
          /\ rule = "hook" /\ (Landed(i) \/ Present(files, i)) => Landed(i) /\ Whole(files, i)
          /\ rule = "guard" /\ Successor /\ Present(files, i) => Landed(i)
          /\ rule = "successor" /\ Successor /\ Carries(files, i) => Landed(i)

\* When a review has a say about the inputs it sees, and what it then asks.
Applies(inputs, i) ==
    LET rule == Reviews[i].rule IN
    \/ rule \in {"successor", "lasting", "membership", "merged", "sidecar"} /\ Carries(inputs, i)
    \/ rule \in {"guard", "hook", "first", "offline", "helper"} /\ Present(inputs, i)
    \/ rule \in {"lasting", "hook", "merged"} /\ Revision = i
    \/ rule = "first" /\ pinned
    \/ rule = "native"
    \/ rule = "estate" /\ inputs[Template] # 0

Terms(inputs, i) ==
    LET rule == Reviews[i].rule IN
    /\ Whole(inputs, i)
    /\ rule \in {"membership", "first", "offline", "helper", "merged", "sidecar"} => pinned
    /\ rule \in {"successor", "guard", "hook"} => inputs[Template] # 0 /\ Successor
    /\ rule = "lasting" => Successor
    /\ rule = "estate" => Revision = Estate \/ Successor

\* A retired helper is put back for the comparison only.
AdmitRetiredTemplateWriter(inputs) ==
    IF Retired THEN [inputs EXCEPT ![Template] = Blobs[Estate][Template]] ELSE inputs

AdmitExisting(inputs) == inputs \in {Blobs[n] : n \in {0} \cup Historical}

Admit == LET common == AdmitRetiredTemplateWriter(files)
             seen == Peeled(common)
         IN /\ Proof(seen)
            /\ \A i \in All \ Historical : Applies(seen[i], i) => Terms(seen[i], i)
            /\ AdmitExisting(seen[Estate - 1])

-----------------------------------------------------------------------------
Init == /\ base \in {0} \cup All
        /\ commits = 0 /\ files = Sources[base]
        /\ pinned = FALSE /\ admission = "none"

\* A source may change an input, or take a reviewed change without its history.
Change(new) == /\ admission = "none" /\ commits < MaxCommits[base] /\ new # files
               /\ files' = new /\ commits' = commits + 1 /\ pinned' = FALSE
               /\ UNCHANGED <<base, admission>>

Commit(p) == \E blob \in {-1, files[p] - 1, files[p] + 1} \cap -1..Blobs[Len(Reviews)][p] :
                Change([files EXCEPT ![p] = blob])
CherryPick(i) == Change([p \in Paths |-> IF p \in Reviews[i].paths THEN Blobs[i][p] ELSE files[p]])
Revert(i) == Change(Undo(files, i))

\* The maintainers sign a policy that names the revision.
Pin == /\ admission = "none" /\ ~pinned /\ pinned' = TRUE
       /\ UNCHANGED <<base, commits, files, admission>>

\* expand: the planner admits the inputs or the run stops.
Plan == /\ admission = "none"
        /\ admission' = IF Admit THEN "admitted" ELSE "refused"
        /\ UNCHANGED <<base, commits, files, pinned>>

Next == \/ \E p \in Paths : Commit(p)
        \/ \E i \in All : CherryPick(i) \/ Revert(i)
        \/ Pin \/ Plan

Spec == Init /\ [][Next]_vars

-----------------------------------------------------------------------------
Current == AdmitRetiredTemplateWriter(files)
Begun(i) == \E p \in Reviews[i].paths : Current[p] >= Blobs[i][p]
Complete(i) == \A p \in Reviews[i].paths : Current[p] >= Blobs[i][p]

\* Whatever is admitted, every input is the historical one or one a review has
\* seen; a review's inputs are all there or none is, also under later reviews
\* of some of them; the historical reviews are there in their order; and a
\* review is there only when the source descends from it or is the pinned one
\* (pytest-shards.py, estate_successor_proof and admit_shared_inputs).
InputsReviewed ==
    admission = "admitted" =>
        /\ \A p \in Paths : files[p] >= 0
        /\ \A i \in All : Begun(i) =>
              /\ Complete(i)
              /\ Landed(i) \/ pinned \/ Reviews[i].rule = "native"
              /\ i \in Historical => \A j \in 1..i : Begun(j)

\* No admitted source that descends from the collection hook, from the npm
\* security bundle or from a merged PR has lost it, and the retired helper has
\* not come back (pytest-shards.py, estate_successor_proof: "A descendant cannot
\* delete the hook and silently regain the old baseline admission").
LastingReviewsStay ==
    admission = "admitted" =>
        /\ \A i \in All : Reviews[i].rule \in {"hook", "lasting", "merged"} /\ Landed(i) => Complete(i)
        /\ Retired => files[Template] = 0
=============================================================================
