------------------------------ MODULE MergeAudit ------------------------------
(***************************************************************************)
(* The audit of merge-hygiene-audit.py over a repository: page by page     *)
(* through the closed pull requests, the last updated first, while others  *)
(* are merged and old ones are commented on or opened again.  A page is a  *)
(* number: what is updated in between moves to the front of the list, and  *)
(* all that was before it moves back by one; what is opened again leaves   *)
(* the list, and all that was behind it moves forward by one.              *)
(*                                                                         *)
(* When a pull request is merged, GitHub later closes those below it, whose*)
(* heads came into the base with its own, as merged by the same commit; a  *)
(* push to the base does so with every pull request it contains.           *)
(*                                                                         *)
(* What is found of one pull request is MergeGate's matter; here a merge   *)
(* may be red, and may lack the receipt that it needed.                    *)
(***************************************************************************)
EXTENDS Naturals, Sequences

CONSTANTS
    Pulls,
    PageSize,    \* 100
    Hours,       \* --hours: how far the audit looks back at least
    Activation,  \* merges after it need a receipt
    Below,       \* <<q, p>>: the head of q is an ancestor of the head of p
    Registered,  \* the pull requests with an exception
    Accepted,    \* the accepted history: what was found of whom
    Frozen,      \* and until when it was merged
    ByPush,        \* a commit that no pull request made
    MaxTime

\* What the proofs take for granted of them.
AuditAssumption ==
    /\ PageSize \in Nat \ {0}
    /\ Hours \in Nat /\ Activation \in Nat /\ MaxTime \in Nat
    /\ Below \subseteq Pulls \X Pulls /\ ByPush \notin Pulls

Never == MaxTime + 1

VARIABLES
    clock,
    order,     \* the closed pull requests, the last updated first
    updated, merged,
    commit,    \* which merge brought it into the base
    red,       \* the pull requests whose checks were not green at the merge
    receipts,  \* the pull requests that have one
    audit,     \* the audit that runs, or the last one
    moved      \* history: what was updated while the audit ran, or moved
               \* forward onto a page it had already read

vars == <<clock, order, updated, merged, commit, red, receipts, audit, moved>>

Times == 0..MaxTime
Closed == {order[i] : i \in DOMAIN order}

TypeOK ==
    /\ clock \in Times
    /\ order \in Seq(Pulls)
    /\ \A i, j \in DOMAIN order : i # j => order[i] # order[j]
    /\ updated \in [Pulls -> Times]
    /\ merged \in [Pulls -> Times \cup {Never}]
    /\ commit \in [Pulls -> Pulls \cup {ByPush}]
    /\ red \subseteq Pulls /\ receipts \subseteq Pulls
    /\ audit.state \in {"none", "reads", "clean", "violations", "incomplete"}
    /\ audit.now \in Times /\ audit.page \in Nat
    /\ audit.rows \subseteq Pulls /\ audit.again \subseteq audit.rows
    /\ audit.found \subseteq Pulls
    /\ moved \subseteq Pulls

Init ==
    /\ clock = 0
    /\ order = <<>>
    /\ updated = [p \in Pulls |-> 0]
    /\ merged = [p \in Pulls |-> Never]
    /\ commit = [p \in Pulls |-> p]
    /\ red \in SUBSET Pulls /\ receipts \in SUBSET Pulls
    /\ audit = [state |-> "none", now |-> 0, page |-> 0, rows |-> {}, again |-> {}, found |-> {}]
    /\ moved = {}

-----------------------------------------------------------------------------
(* The repository.  No two updates are at the same time.  One audit is      *)
(* enough, since none changes anything: a behaviour ends with it.          *)

\* Where p is in the list, or behind it.
Place(p) == IF p \in Closed THEN CHOOSE i \in DOMAIN order : order[i] = p
            ELSE Len(order) + 1

ToFront(p) ==
    /\ clock < MaxTime /\ audit.state \in {"none", "reads"}
    /\ clock' = clock + 1
    /\ order' = [i \in 1..(IF p \in Closed THEN Len(order) ELSE Len(order) + 1) |->
                   IF i = 1 THEN p ELSE order[IF i <= Place(p) THEN i - 1 ELSE i]]
    /\ updated' = [updated EXCEPT ![p] = clock']
    /\ moved' = IF audit.state = "reads" THEN moved \cup {p} ELSE moved
    /\ UNCHANGED <<red, receipts, audit>>

Merge(p) == /\ p \notin Closed /\ ToFront(p)
            /\ merged' = [merged EXCEPT ![p] = clock']
            /\ UNCHANGED commit

\* A merge of its own: neither brought in by another nor by a push.
Direct(p) == merged[p] # Never /\ commit[p] = p

\* Closed as merged, by the merge that brought its head into the base.
Absorb(q, by) ==
    /\ q \notin Closed /\ ToFront(q)
    /\ by = ByPush \/ (by \in Pulls /\ <<q, by>> \in Below /\ Direct(by))
    /\ merged' = [merged EXCEPT ![q] = clock']
    /\ commit' = [commit EXCEPT ![q] = by]

Close(p) == p \notin Closed /\ ToFront(p) /\ UNCHANGED <<merged, commit>>

Comment(p) == p \in Closed /\ ToFront(p) /\ UNCHANGED <<merged, commit>>

\* The first place that the audit has not read.
Unread == (audit.page - 1) * PageSize + 1

\* Opened again, by which it is no longer a closed one.  What was behind it
\* moves forward, and the first that was not read yet moves with it if p was
\* on a page that was.
Reopen(p) ==
    /\ p \in Closed /\ merged[p] = Never
    /\ clock < MaxTime /\ audit.state \in {"none", "reads"}
    /\ clock' = clock + 1
    /\ order' = [i \in 1..(Len(order) - 1) |-> order[IF i < Place(p) THEN i ELSE i + 1]]
    /\ updated' = [updated EXCEPT ![p] = clock']
    /\ moved' = IF audit.state = "reads"
                THEN moved \cup {p} \cup {order[i] : i \in {j \in DOMAIN order :
                                                       j = Unread /\ Place(p) < j}}
                ELSE moved
    /\ UNCHANGED <<merged, commit, red, receipts, audit>>

-----------------------------------------------------------------------------
(* audit().                                                                *)

\* Faulty variant for MissedOnlyIfMoved if taken for the cutoff: no more than
\* the last hours.
LastHours == IF audit.now > Hours THEN audit.now - Hours ELSE 0

\* What is older than the activation and the hours need not be looked at.
Cutoff == IF LastHours < Activation THEN LastHours ELSE Activation

Start ==
    /\ audit.state = "none"
    /\ audit' = [state |-> "reads", now |-> clock, page |-> 1, rows |-> {},
                 again |-> {}, found |-> {}]
    /\ UNCHANGED <<clock, order, updated, merged, commit, red, receipts, moved>>

Page(n) == {order[i] : i \in DOMAIN order \cap ((n - 1) * PageSize + 1)..(n * PageSize)}

\* Merged in the time that is looked at.
Rows(batch) == {p \in batch : merged[p] \in Cutoff..audit.now}

Required(p) == merged[p] > Activation

Findings(p) == (IF p \in red THEN {"red"} ELSE {})
               \cup (IF Required(p) /\ p \notin receipts THEN {"receipt"} ELSE {})

\* indirect_merge() is asked about what was found of a merge whose commit
\* stands in another row, too.  A row is twice in the list, next to itself,
\* when the list moves between two pages.
Collateral(p, rows, again) ==
    /\ Findings(p) # {}
    /\ p \in again \/ \E q \in rows \ {p} : commit[q] = commit[p]
    /\ commit[p] \in Pulls \ {p}

\* It answers for p if its source is without findings and has a receipt;
\* if not, the audit is not complete.
Admitted(source) == Findings(source) = {} /\ source \in receipts

\* An exception is of before the activation; the accepted history is of what
\* it names, and no later.
Pardoned(p) ==
    \/ ~Required(p) /\ p \in Registered
    \/ merged[p] <= Frozen /\ \A f \in Findings(p) : <<p, f>> \in Accepted

Unregistered(rows, again) ==
    {p \in rows : Findings(p) # {} /\ ~Collateral(p, rows, again) /\ ~Pardoned(p)}

\* The last page is a short one, or one that ends before the cutoff.
LastPage(n) == Len(order) < n * PageSize \/ updated[order[n * PageSize]] < Cutoff

Verdict(rows, again) ==
    IF \E p \in rows : Collateral(p, rows, again) /\ ~Admitted(commit[p])
    THEN "incomplete"
    ELSE IF Unregistered(rows, again) = {} THEN "clean" ELSE "violations"

\* rows are the pull requests that have a row, again those that have two.
ReadPage ==
    /\ audit.state = "reads"
    /\ LET batch == Rows(Page(audit.page))
           rows == audit.rows \cup batch
           again == audit.again \cup (audit.rows \cap batch)
       IN audit' = IF ~LastPage(audit.page)
                   THEN [audit EXCEPT !.rows = rows, !.again = again, !.page = @ + 1]
                   ELSE [audit EXCEPT !.rows = {}, !.again = {}, !.page = 0,
                                      !.state = Verdict(rows, again),
                                      !.found = Unregistered(rows, again)]
    /\ UNCHANGED <<clock, order, updated, merged, commit, red, receipts, moved>>

Next ==
    \/ \E p \in Pulls : \/ Merge(p) \/ Close(p) \/ Comment(p) \/ Reopen(p)
                        \/ \E by \in Pulls \cup {ByPush} : Absorb(p, by)
    \/ Start \/ ReadPage

Spec == Init /\ [][Next]_vars

-----------------------------------------------------------------------------
(* Properties.                                                             *)

\* What README.md says of the audit: an unreceipted merge cannot age out of
\* the gate, and what could not be read is never clean.
UnreceiptedIsReported ==
    audit.state = "clean" =>
        \A p \in Pulls : ~(merged[p] \in Activation + 1..audit.now /\ p \notin receipts)

\* What may not be held against a merge: it came with a merge of another that
\* was green and has a receipt, or the accepted history says it all.
Excused(p) ==
    \/ commit[p] # p /\ commit[p] \in receipts \ red
    \/ /\ merged[p] <= Frozen
       /\ p \in red => <<p, "red">> \in Accepted
       /\ p \notin receipts => <<p, "receipt">> \in Accepted

\* A merge that was red or has no receipt, however old and however many are
\* merged, closed, commented on or opened again meanwhile, is found, but for
\* one that is itself updated during the audit, or that another one, opened
\* again, lets move over the edge of the page that is read next; and no
\* exception and no other merge of the same commit excuses it unless it was
\* itself in order.
MissedOnlyIfMoved ==
    audit.state \in {"clean", "violations"} =>
        \A p \in Pulls \ moved :
            /\ merged[p] \in Activation + 1..audit.now
            /\ p \in red \/ p \notin receipts
            => p \in audit.found \/ Excused(p)
=============================================================================
