-------------------------------- MODULE Rescan --------------------------------
(***************************************************************************)
(* plan-rescan-targets.py for one image: what production may be running    *)
(* is found by reading the versions of the package page by page, while     *)
(* builds push candidates and promotions move the tags.  The list is the   *)
(* newest version first, so that a push moves all others back by one; no   *)
(* code of the repository deletes a version.                               *)
(*                                                                         *)
(* Of a version only its digest, its tags and updated_at matter; what is   *)
(* malformed ends the plan like a call that fails.                         *)
(***************************************************************************)
EXTENDS Naturals, Sequences, FiniteSets

CONSTANTS
    Digests,
    PageSize, MaxPages,  \* 100 versions, 100 pages
    Depth,               \* PROMOTED_DEPTH: how many promotions are scanned
    MaxTime              \* bound on the number of changes of the registry

ASSUME RescanAssumption ==
    /\ PageSize \in Nat \ {0} /\ MaxPages \in Nat /\ Depth \in Nat
    /\ MaxTime \in Nat

VARIABLES
    clock,
    listed,    \* the versions, the newest first
    latest,    \* the digest of :latest, as a set of at most one
    marked,    \* the digests with a promoted-* tag
    updated,   \* updated_at: when a tag was last written
    writing,   \* the promotion that runs: its digest and the tags to be written
    scan,      \* the enumeration
    past       \* history: what was promoted when it began, and updated since

vars == <<clock, listed, latest, marked, updated, writing, scan, past>>

Times == 0..MaxTime
Listed == {listed[i] : i \in DOMAIN listed}
NoWriting == [digest |-> {}, tags |-> {}]

\* A version as it was read.
Rows == [digest: Digests, latest: BOOLEAN, marked: BOOLEAN, updated: Times]

TypeOK ==
    /\ clock \in Times
    /\ listed \in Seq(Digests) /\ Cardinality(Listed) = Len(listed)
    /\ latest \subseteq Listed /\ Cardinality(latest) <= 1
    /\ marked \subseteq Listed
    /\ updated \in [Digests -> Times]
    /\ writing.digest \subseteq Listed /\ writing.tags \subseteq {"latest", "marker"}
    /\ scan.state \in {"none", "reads", "planned", "failed"}
    /\ scan.page \in Nat /\ scan.rows \subseteq Rows /\ scan.plan \subseteq Listed
    /\ Cardinality({v.digest : v \in scan.rows}) = Cardinality(scan.rows)

Init ==
    /\ clock = 0
    /\ listed = <<>> /\ latest = {} /\ marked = {}
    /\ updated = [d \in Digests |-> 0]
    /\ writing = NoWriting
    /\ scan = [state |-> "none", page |-> 0, rows |-> {}, plan |-> {}]
    /\ past = [marked |-> {}, updated |-> updated, changed |-> {}]

-----------------------------------------------------------------------------
(* The registry.                                                           *)

Tick == clock < MaxTime /\ clock' = clock + 1

Written(d) ==
    /\ Tick
    /\ updated' = [updated EXCEPT ![d] = clock']
    /\ past' = [past EXCEPT !.changed = @ \cup {d}]

Push(d) ==
    /\ d \notin Listed
    /\ Written(d)
    /\ listed' = <<d>> \o listed
    /\ UNCHANGED <<latest, marked, writing, scan>>

\* The publications of an image are one after another.
Promote(d) ==
    /\ d \in Listed /\ writing.tags = {}
    /\ writing' = [digest |-> {d}, tags |-> {"latest", "marker"}]
    /\ UNCHANGED <<clock, listed, latest, marked, updated, scan, past>>

WriteLatest(d) ==
    /\ writing.digest = {d} /\ "latest" \in writing.tags
    /\ Written(d)
    /\ latest' = {d}
    /\ writing' = [writing EXCEPT !.tags = @ \ {"latest"}]
    /\ UNCHANGED <<listed, marked, scan>>

WriteMarker(d) ==
    /\ writing.digest = {d} /\ "marker" \in writing.tags
    /\ Written(d)
    /\ marked' = marked \cup {d}
    /\ writing' = [writing EXCEPT !.tags = @ \ {"marker"}]
    /\ UNCHANGED <<listed, latest, scan>>

\* The promotion fails, before or between its two tags.
GiveUp ==
    /\ writing.tags # {}
    /\ writing' = NoWriting
    /\ UNCHANGED <<clock, listed, latest, marked, updated, scan, past>>

-----------------------------------------------------------------------------
(* select_digests().                                                       *)

\* Faulty variant for RecentPromotionsPlanned: a promotion is as old as its
\* image.
NewestByPush(rows) ==
    {v \in rows : v.marked /\ Cardinality({w \in rows : w.marked /\
        \E i, j \in DOMAIN listed : i < j /\ listed[i] = w.digest
                                    /\ listed[j] = v.digest}) < Depth}

\* The promoted ones that were updated last.
Newest(rows) ==
    {v \in rows : v.marked /\
        Cardinality({w \in rows : w.marked /\ w.updated > v.updated}) < Depth}

Selected(rows) == {v.digest : v \in {w \in rows : w.latest} \cup Newest(rows)}

Plannable(rows) ==
    /\ Cardinality({v \in rows : v.latest}) = 1
    /\ \E v \in rows : v.marked

-----------------------------------------------------------------------------
(* fetch_versions().                                                       *)

Row(d) == [digest |-> d, latest |-> d \in latest, marked |-> d \in marked,
           updated |-> updated[d]]

Page(n) == {listed[i] : i \in {j \in DOMAIN listed : (j - 1) \div PageSize = n - 1}}

\* One enumeration, at any time: it keeps nothing for the next one.
Start ==
    /\ scan.state = "none"
    /\ scan' = [state |-> "reads", page |-> 1, rows |-> {}, plan |-> {}]
    /\ past' = [marked |-> marked, updated |-> updated, changed |-> {}]
    /\ UNCHANGED <<clock, listed, latest, marked, updated, writing>>

Fail == scan' = [scan EXCEPT !.state = "failed", !.rows = {}]

\* Faulty variant for PlanIsComplete: no link to a next page is believed.
LastByLink(batch, next) == ~next

\* A full page does not prove the list complete, even without such a link.
LastPage(batch, next) == Cardinality(batch) < PageSize /\ ~next

\* One page; the answer links to the next one if there is one, or does not.
ReadPage(next) ==
    /\ scan.state = "reads" /\ scan.page <= MaxPages
    /\ next => Page(scan.page + 1) # {}
    /\ LET batch == Page(scan.page)
           rows == scan.rows \cup {Row(d) : d \in batch}
       IN IF batch \cap {v.digest : v \in scan.rows} # {} THEN Fail
          ELSE IF ~LastPage(batch, next)
          THEN scan' = [scan EXCEPT !.page = @ + 1, !.rows = rows]
          ELSE IF ~Plannable(rows) THEN Fail
          ELSE scan' = [scan EXCEPT !.state = "planned", !.rows = {},
                                    !.plan = Selected(rows)]
    /\ UNCHANGED <<clock, listed, latest, marked, updated, writing, past>>

\* A call fails, something is malformed, or there are too many pages.
ReadFails ==
    /\ scan.state = "reads"
    /\ Fail
    /\ UNCHANGED <<clock, listed, latest, marked, updated, writing, past>>

Next ==
    \/ \E d \in Digests : Push(d) \/ Promote(d) \/ WriteLatest(d) \/ WriteMarker(d)
    \/ GiveUp
    \/ Start \/ (\E next \in BOOLEAN : ReadPage(next)) \/ ReadFails

Spec == Init /\ [][Next]_vars

-----------------------------------------------------------------------------
(* Properties.                                                             *)

\* While nothing is promoted, a plan has :latest and all the promotions it is
\* to have, however many candidates are pushed between two pages.
PlanIsComplete ==
    scan.state = "planned" /\ past.changed \cap (marked \cup latest) = {} =>
        scan.plan = Selected({Row(d) : d \in Listed})

\* Promotions that run during the enumeration push no more promotions out of
\* the plan than they are: with one of them, the rollback target is scanned.
RecentPromotionsPlanned ==
    scan.state = "planned" =>
        \A d \in past.marked :
            Cardinality({e \in past.marked : past.updated[e] > past.updated[d]}
                        \cup (past.changed \ {d})) < Depth
            => d \in scan.plan

=============================================================================
