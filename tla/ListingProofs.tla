----------------------------- MODULE ListingProofs -----------------------------
(***************************************************************************)
(* Readers of a list that changes between its pages: the enumeration of    *)
(* the versions of an image with the plan made of it, while builds push    *)
(* and promotions write tags (Rescan), and the audit of merges, while pull *)
(* requests are merged and commented on (MergeAudit, as an instance).      *)
(***************************************************************************)
EXTENDS Listings, Integers, SequenceTheorems, FiniteSetTheorems, TLAPS

-----------------------------------------------------------------------------
(* The invariant.                                                          *)

Scans == [state: {"none", "reads", "planned", "failed"}, page: Nat,
          rows: SUBSET Rows, plan: SUBSET Digests]
Pasts == [marked: SUBSET Digests, updated: [Digests -> Times], changed: SUBSET Digests]

\* The list has every version once; the tags are on versions of the list.
RegistryInv ==
    /\ clock \in Times
    /\ listed \in Seq(Digests)
    /\ \A i, j \in DOMAIN listed : listed[i] = listed[j] => i = j
    /\ latest \subseteq Listed /\ \A d, e \in latest : d = e
    /\ marked \subseteq Listed
    /\ updated \in [Digests -> Times] /\ \A d \in Digests : updated[d] <= clock
    /\ writing \in [digest: SUBSET Listed, tags: SUBSET {"latest", "marker"}]
    /\ scan \in Scans /\ past \in Pasts

\* What is known of the registry of the beginning: what was not written since
\* has the promotion and the time it had then.
PastInv ==
    /\ past.marked \subseteq marked
    /\ past.changed \subseteq Listed
    /\ \A d \in Digests :
          /\ past.updated[d] <= updated[d]
          /\ d \notin past.changed =>
                updated[d] = past.updated[d] /\ (d \in marked => d \in past.marked)

\* Nothing that a plan has to have was written since the beginning.
Quiet == past.changed \cap (marked \cup latest) = {}

\* The rows of the pages read: each version at most once, as it is or was; and
\* what is not behind those pages has been read, but for candidates.
RowsGood(rows, pages) ==
    /\ \A v \in rows :
          /\ v.digest \in Listed
          /\ v.marked => v.digest \in marked
          /\ v.digest \in past.marked => v.marked
          /\ past.updated[v.digest] <= v.updated
          /\ v.digest \notin past.changed => v.updated = updated[v.digest]
    /\ \A v, w \in rows : v.digest = w.digest => v = w
    /\ Quiet => \A v \in rows : v = Row(v.digest)
    /\ \A i \in DOMAIN listed :
          \/ i > pages * PageSize
          \/ \E v \in rows : v.digest = listed[i]
          \/ listed[i] \in past.changed \ past.marked

RowsInv == scan.page # 0 /\ RowsGood(scan.rows, scan.page - 1)

IInv ==
    /\ RegistryInv
    /\ scan.state # "none" => PastInv
    /\ scan.state = "reads" => RowsInv
    /\ scan.state = "planned" =>
          PlanIsComplete /\ RecentPromotionsPlanned /\ scan.plan \subseteq Listed

-----------------------------------------------------------------------------
(* The pages.                                                              *)

\* Positions are dealt to pages of PageSize each.
LEMMA PageOfPosition ==
    ASSUME NEW i \in Nat, NEW n \in Nat, n # 0,
           (n - 1) * PageSize < i, i <= n * PageSize
    PROVE  (i - 1) \div PageSize = n - 1
<1> DEFINE q == (i - 1) \div PageSize
           p == n - 1
<1>1. PageSize \in Nat /\ PageSize > 0 /\ p \in Nat /\ i - 1 \in Nat
  <2>1. PageSize \in Nat /\ PageSize > 0
    BY RescanAssumption
  <2>2. (n - 1) * PageSize >= 0
    BY <2>1
  <2> QED
    BY <2>1, <2>2
<1>2. q \in Nat /\ q * PageSize <= i - 1 /\ i - 1 < q * PageSize + PageSize
  BY <1>1
<1>3. p * PageSize <= i - 1 /\ i - 1 < p * PageSize + PageSize
  BY <1>1
<1> HIDE DEF q, p
<1>4. ASSUME NEW a \in Nat, NEW b \in Nat, a < b
      PROVE  a * PageSize + PageSize <= b * PageSize
  <2>1. PICK c \in Nat : b = a + 1 + c
    BY <1>4
  <2>2. b * PageSize = a * PageSize + PageSize + c * PageSize /\ c * PageSize >= 0
    BY <1>1, <2>1
  <2> QED
    BY <1>1, <2>2
<1>5. ~(q < p)
  BY <1>1, <1>2, <1>3, <1>4
<1>6. ~(p < q)
  BY <1>1, <1>2, <1>3, <1>4
<1> QED
  BY <1>1, <1>2, <1>5, <1>6 DEF q, p

\* There are finitely many versions.
LEMMA ListIsFinite ==
    ASSUME RegistryInv
    PROVE  IsFiniteSet(Listed)
<1>1. listed \in Surjection(1..Len(listed), Listed)
  BY DEF RegistryInv, Surjection, Listed
<1>2. IsFiniteSet(1..Len(listed))
  <2>1. Len(listed) \in Int
    BY DEF RegistryInv
  <2> QED
    BY <2>1, FS_Interval
<1> QED
  BY <1>1, <1>2, FS_Surjection

\* A page that is not full is the last one.
LEMMA NotFullIsLast ==
    ASSUME RegistryInv, NEW n \in Nat, n # 0, Cardinality(Page(n)) < PageSize
    PROVE  \A i \in DOMAIN listed : i <= n * PageSize
<1> SUFFICES ASSUME NEW k \in DOMAIN listed, k > n * PageSize
             PROVE  FALSE
  <2>1. n * PageSize \in Nat
    BY RescanAssumption
  <2> QED
    BY <2>1 DEF RegistryInv
<1> DEFINE first == (n - 1) * PageSize + 1
           last == n * PageSize
           here == first..last
           here_to == [i \in here |-> listed[i]]
<1>1. first \in Nat /\ last \in Nat /\ last - first + 1 = PageSize /\ PageSize \in Nat \ {0}
      /\ first >= 1
  <2>1. PageSize \in Nat \ {0}
    BY RescanAssumption
  <2>2. n * PageSize = (n - 1) * PageSize + PageSize /\ (n - 1) * PageSize \in Nat
    BY <2>1
  <2> QED
    BY <2>1, <2>2
<1>2. here \subseteq DOMAIN listed /\ DOMAIN listed \subseteq Nat
  BY <1>1 DEF RegistryInv
<1>3. \A i \in here : listed[i] \in Page(n)
  <2> TAKE i \in here
  <2>1. (i - 1) \div PageSize = n - 1
    BY <1>1, PageOfPosition
  <2> QED
    BY <1>2, <2>1 DEF Page
<1>4. here_to \in Injection(here, Page(n))
  <2>1. here_to \in [here -> Page(n)]
    BY <1>3
  <2>2. \A i, j \in here : here_to[i] = here_to[j] => i = j
    BY <1>2 DEF RegistryInv
  <2> HIDE DEF here_to, here
  <2> QED
    BY <2>1, <2>2 DEF Injection, IsInjective
<1>5. IsFiniteSet(here) /\ Cardinality(here) = PageSize
  <2>1. first \in Int /\ last \in Int /\ ~(first > last)
    BY <1>1
  <2> HIDE DEF first, last
  <2>2. IsFiniteSet(first..last) /\ Cardinality(first..last) = last - first + 1
    BY <2>1, FS_Interval
  <2> QED
    BY <1>1, <2>2
<1>6. IsFiniteSet(Page(n))
  <2>1. Page(n) \subseteq Listed
    BY DEF Page, Listed
  <2> QED
    BY <2>1, ListIsFinite, FS_Subset
<1>7. Cardinality(here) <= Cardinality(Page(n)) /\ Cardinality(Page(n)) \in Nat
  <2> HIDE DEF here, here_to
  <2> QED
    BY <1>4, <1>6, FS_Injection, FS_CardinalityType
<1> QED
  BY <1>1, <1>5, <1>7

-----------------------------------------------------------------------------
(* The plan.                                                               *)

\* A plan depends on the versions with a tag that counts, and no others.
LEMMA OnlyTaggedCount ==
    ASSUME NEW R, NEW S,
           \A v : (v \in R /\ (v.latest \/ v.marked)) <=> (v \in S /\ (v.latest \/ v.marked))
    PROVE  Selected(R) = Selected(S)
<1>1. {w \in R : w.latest} = {w \in S : w.latest}
  OBVIOUS
<1>2. \A v : {w \in R : w.marked /\ w.updated > v.updated}
              = {w \in S : w.marked /\ w.updated > v.updated}
  OBVIOUS
<1>3. Newest(R) = Newest(S)
  BY <1>2 DEF Newest
<1> QED
  BY <1>1, <1>3 DEF Selected

\* What has to be ahead of a promotion to push it out of the plan: promotions
\* that were newer at the beginning, and what was written since.
Ahead(d) == {e \in past.marked : past.updated[e] > past.updated[d]} \cup (past.changed \ {d})

LEMMA AheadIsFinite ==
    ASSUME RegistryInv, PastInv, NEW d
    PROVE  IsFiniteSet(Ahead(d))
<1>1. Ahead(d) \subseteq Listed
  BY DEF Ahead, RegistryInv, PastInv
<1> QED
  BY <1>1, ListIsFinite, FS_Subset

\* A recent promotion that was read is in the plan: each row that is ahead of
\* it is of a version that has to be.
LEMMA RecentIsSelected ==
    ASSUME RegistryInv, PastInv, NEW rows, rows \subseteq Rows,
           \A v \in rows :
              /\ v.marked => v.digest \in marked
              /\ past.updated[v.digest] <= v.updated
              /\ v.digest \notin past.changed => v.updated = updated[v.digest],
           \A v, w \in rows : v.digest = w.digest => v = w,
           NEW d \in past.marked, NEW v \in rows, v.digest = d, v.marked,
           Cardinality(Ahead(d)) < Depth
    PROVE  d \in Selected(rows)
<1> DEFINE ahead == {w \in rows : w.marked /\ w.updated > v.updated}
           digestOf == [w \in ahead |-> w.digest]
<1>1. \A w \in ahead : w.digest \in Ahead(d)
  <2> TAKE w \in ahead
  <2>1. w.digest \in Digests /\ w.digest # d /\ w.updated \in Nat /\ v.updated \in Nat
    BY RescanAssumption DEF Rows, Times
  <2>2. CASE w.digest \in past.changed
    BY <2>1, <2>2 DEF Ahead
  <2>3. CASE w.digest \notin past.changed
    <3>1. w.digest \in past.marked /\ w.updated = past.updated[w.digest]
      BY <2>1, <2>3 DEF PastInv
    <3>2. past.updated[d] \in Nat /\ past.updated[d] <= v.updated
          /\ past.updated[w.digest] \in Nat
      BY <2>1, RescanAssumption DEF RegistryInv, Pasts, Times, Rows
    <3> QED
      BY <2>1, <3>1, <3>2 DEF Ahead
  <2> QED
    BY <2>2, <2>3
<1>2. digestOf \in Injection(ahead, Ahead(d))
  <2>1. digestOf \in [ahead -> Ahead(d)]
    BY <1>1
  <2>2. \A w, x \in ahead : digestOf[w] = digestOf[x] => w = x
    OBVIOUS
  <2> HIDE DEF digestOf, ahead
  <2> QED
    BY <2>1, <2>2 DEF Injection, IsInjective
<1>3. Cardinality(ahead) <= Cardinality(Ahead(d))
      /\ Cardinality(ahead) \in Nat /\ Cardinality(Ahead(d)) \in Nat
  <2> HIDE DEF digestOf, ahead
  <2> QED
    BY <1>2, AheadIsFinite, FS_Injection, FS_CardinalityType
<1>4. Cardinality(ahead) < Depth
  <2> HIDE DEF ahead
  <2> QED
    BY <1>3, RescanAssumption
<1> QED
  BY <1>4 DEF Selected, Newest

-----------------------------------------------------------------------------
(* The steps of the registry.                                              *)

\* A push puts one version before the others.
LEMMA PushedList ==
    ASSUME RegistryInv, NEW d \in Digests, Push(d)
    PROVE  /\ listed' \in Seq(Digests)
           /\ \A i \in DOMAIN listed' :
                 \/ i = 1 /\ listed'[i] = d
                 \/ i - 1 \in DOMAIN listed /\ listed'[i] = listed[i - 1]
           /\ Listed' = Listed \cup {d}
<1>1. listed' = <<d>> \o listed /\ listed \in Seq(Digests) /\ Len(listed) \in Nat
  BY DEF Push, RegistryInv
<1>2. Len(listed') = 1 + Len(listed) /\ listed' \in Seq(Digests)
  BY <1>1
<1>3. \A i \in 1..(1 + Len(listed)) :
         listed'[i] = IF i = 1 THEN d ELSE listed[i - 1]
  BY <1>1
<1>4. DOMAIN listed' = 1..(1 + Len(listed)) /\ DOMAIN listed = 1..Len(listed)
  BY <1>1, <1>2
<1>5. \A i \in DOMAIN listed' :
         \/ i = 1 /\ listed'[i] = d
         \/ i - 1 \in DOMAIN listed /\ listed'[i] = listed[i - 1]
  BY <1>1, <1>3, <1>4
<1>6. Listed' \subseteq Listed \cup {d}
  BY <1>5 DEF Listed
<1>7. d \in Listed'
  BY <1>1, <1>3, <1>4 DEF Listed
<1>8. Listed \subseteq Listed'
  <2> SUFFICES ASSUME NEW i \in DOMAIN listed
               PROVE  listed[i] \in Listed'
    BY DEF Listed
  <2>1. i + 1 \in DOMAIN listed' /\ listed'[i + 1] = listed[i]
    BY <1>1, <1>3, <1>4
  <2> QED
    BY <2>1 DEF Listed
<1> QED
  BY <1>2, <1>5, <1>6, <1>7, <1>8

\* Every step keeps what is known of the registry.
LEMMA RegistryStep ==
    ASSUME RegistryInv, [Next]_vars, scan' \in Scans
    PROVE  RegistryInv'
<1>1. ASSUME NEW d \in Digests, Written(d)
      PROVE  clock' \in Times /\ updated' \in [Digests -> Times]
             /\ (\A e \in Digests : updated'[e] <= clock') /\ past' \in Pasts
  <2>1. clock \in Nat /\ clock' = clock + 1 /\ clock' \in Times
    BY <1>1, RescanAssumption DEF Written, Tick, RegistryInv, Times
  <2>2. updated \in [Digests -> Times] /\ updated' = [updated EXCEPT ![d] = clock']
        /\ \A e \in Digests : updated[e] <= clock
    BY <1>1 DEF Written, RegistryInv
  <2>3. \A e \in Digests : updated'[e] <= clock'
    <3>1. \A e \in Digests : updated[e] \in Nat
      BY <2>2, RescanAssumption DEF Times
    <3> QED
      BY <2>1, <2>2, <3>1
  <2>4. past' \in Pasts
    BY <1>1 DEF Written, RegistryInv, Pasts
  <2> QED
    BY <2>1, <2>2, <2>3, <2>4
<1>2. ASSUME NEW d \in Digests, Push(d)
      PROVE  RegistryInv'
  <2>1. Written(d) /\ d \notin Listed /\ UNCHANGED <<latest, marked, writing, scan>>
    BY <1>2 DEF Push
  <2>2. \A i, j \in DOMAIN listed' : listed'[i] = listed'[j] => i = j
    <3> SUFFICES ASSUME NEW i \in DOMAIN listed', NEW j \in DOMAIN listed',
                        listed'[i] = listed'[j]
                 PROVE  i = j
      OBVIOUS
    <3>1. i \in Int /\ j \in Int
      BY <1>2, PushedList
    <3>2. \A k \in DOMAIN listed : listed[k] # d
      BY <2>1 DEF Listed
    <3> QED
      BY <1>2, <3>1, <3>2, PushedList DEF RegistryInv
  <2> QED
    BY <1>1, <1>2, <2>1, <2>2, PushedList DEF RegistryInv
<1>3. ASSUME NEW d \in Digests, Promote(d) \/ WriteLatest(d) \/ WriteMarker(d)
      PROVE  RegistryInv'
  <2>1. CASE Promote(d)
    BY <2>1 DEF Promote, RegistryInv, Listed
  <2> DEFINE Writings == [digest: SUBSET Listed, tags: SUBSET {"latest", "marker"}]
  <2>2. ASSUME WriteLatest(d) \/ WriteMarker(d)
        PROVE  RegistryInv'
    <3>1. Written(d) /\ d \in Listed /\ UNCHANGED <<listed, scan>>
      BY <2>2 DEF WriteLatest, WriteMarker, RegistryInv
    <3>2. UNCHANGED Listed
      BY <3>1 DEF Listed
    <3>3. writing' \in Writings
      BY <2>2 DEF WriteLatest, WriteMarker, RegistryInv
    <3>4. latest' \subseteq Listed /\ (\A e, f \in latest' : e = f) /\ marked' \subseteq Listed
      BY <2>2, <3>1 DEF WriteLatest, WriteMarker, RegistryInv
    <3> QED
      BY <1>1, <3>1, <3>2, <3>3, <3>4 DEF RegistryInv
  <2> QED
    BY <1>3, <2>1, <2>2
<1>4. CASE GiveUp
  BY <1>4 DEF GiveUp, NoWriting, RegistryInv, Listed
<1>5. CASE Start
  <2>1. marked \subseteq Digests
    BY DEF RegistryInv, Listed
  <2> QED
    BY <1>5, <2>1 DEF Start, RegistryInv, Listed, Pasts
<1>6. CASE ReadFails \/ (\E next \in BOOLEAN : ReadPage(next)) \/ UNCHANGED vars
  <2>1. UNCHANGED <<clock, listed, latest, marked, updated, writing, past>>
    BY <1>6 DEF ReadFails, ReadPage, vars
  <2>2. UNCHANGED Listed
    BY <2>1 DEF Listed
  <2> QED
    BY <2>1, <2>2 DEF RegistryInv
<1> QED
  BY <1>2, <1>3, <1>4, <1>5, <1>6 DEF Next

\* A tag is written: what a written version is now is not what it was.
LEMMA WriteKeepsPast ==
    ASSUME RegistryInv, PastInv, NEW d \in Digests, Written(d),
           Listed \subseteq Listed', d \in Listed',
           marked \subseteq marked', marked' \subseteq marked \cup {d}
    PROVE  PastInv'
<1>1. past'.marked = past.marked /\ past'.updated = past.updated
      /\ past'.changed = past.changed \cup {d}
  BY DEF Written, RegistryInv, Pasts
<1>2. clock \in Nat /\ clock' = clock + 1 /\ updated' = [updated EXCEPT ![d] = clock']
      /\ \A e \in Digests : updated[e] \in Nat /\ updated[e] <= clock /\ past.updated[e] \in Nat
  BY RescanAssumption DEF Written, Tick, RegistryInv, Times, Pasts
<1>3. \A e \in Digests : past.updated[e] <= updated'[e]
  BY <1>2 DEF PastInv, RegistryInv
<1> QED
  BY <1>1, <1>2, <1>3 DEF PastInv, RegistryInv

\* Neither does it disturb the rows read, of which those written are known.
LEMMA WriteKeepsRows ==
    ASSUME RegistryInv, PastInv, RowsInv, NEW d \in Digests,
           Push(d) \/ WriteLatest(d) \/ WriteMarker(d)
    PROVE  RowsInv'
<1>1. Written(d) /\ UNCHANGED scan /\ marked \subseteq marked' /\ Listed \subseteq Listed'
      /\ past'.marked = past.marked /\ past'.updated = past.updated
      /\ past'.changed = past.changed \cup {d}
  <2>1. Written(d) /\ UNCHANGED scan /\ marked \subseteq marked'
    BY DEF Push, WriteLatest, WriteMarker
  <2>2. Listed \subseteq Listed'
    BY PushedList DEF WriteLatest, WriteMarker, Listed
  <2> QED
    BY <2>1, <2>2 DEF Written, RegistryInv, Pasts
<1>2. ASSUME NEW v \in scan.rows
      PROVE  /\ v.digest \in Listed'
             /\ v.marked => v.digest \in marked'
             /\ v.digest \in past'.marked => v.marked
             /\ past'.updated[v.digest] <= v.updated
             /\ v.digest \notin past'.changed => v.updated = updated'[v.digest]
  <2>1. v.digest \notin past'.changed => updated'[v.digest] = updated[v.digest]
    BY <1>1 DEF Written, RegistryInv, Scans, Rows
  <2> QED
    BY <1>1, <2>1 DEF RowsInv, RowsGood
<1>3. Quiet' => \A v \in scan.rows : v = Row(v.digest)'
  <2>1. CASE Push(d)
    <3>1. UNCHANGED <<latest, marked>> /\ d \notin Listed
      BY <2>1 DEF Push
    <3>2. Quiet' => Quiet
      BY <1>1, <3>1 DEF Quiet
    <3>3. \A v \in scan.rows : v.digest \in Listed /\ v.digest \in Digests
      BY DEF RowsInv, RowsGood, RegistryInv, Scans, Rows
    <3>4. \A e \in Listed : Row(e)' = Row(e)
      BY <1>1, <3>1 DEF Row, Written, RegistryInv, Listed
    <3> QED
      BY <3>2, <3>3, <3>4 DEF RowsInv, RowsGood
  <2>2. CASE WriteLatest(d) \/ WriteMarker(d)
    BY <1>1, <2>2 DEF WriteLatest, WriteMarker, Quiet
  <2> QED
    BY <2>1, <2>2
<1>4. ASSUME NEW i \in DOMAIN listed'
      PROVE  \/ i > (scan.page - 1) * PageSize
             \/ \E v \in scan.rows : v.digest = listed'[i]
             \/ listed'[i] \in past'.changed \ past'.marked
  <2>1. CASE Push(d)
    <3>1. CASE i = 1 /\ listed'[i] = d
      <4>1. d \notin past.marked
        BY <2>1 DEF Push, PastInv, RegistryInv
      <4> QED
        BY <1>1, <3>1, <4>1
    <3>2. CASE i - 1 \in DOMAIN listed /\ listed'[i] = listed[i - 1]
      <4>1. (scan.page - 1) * PageSize \in Nat /\ i \in Int
        BY <2>1, RescanAssumption, PushedList DEF RowsInv, RowsGood, RegistryInv, Scans
      <4> QED
        BY <1>1, <3>2, <4>1 DEF RowsInv, RowsGood
    <3> QED
      BY <2>1, <3>1, <3>2, PushedList
  <2>2. CASE WriteLatest(d) \/ WriteMarker(d)
    BY <1>1, <2>2 DEF WriteLatest, WriteMarker, RowsInv, RowsGood
  <2> QED
    BY <2>1, <2>2
<1> QED
  BY <1>1, <1>2, <1>3, <1>4 DEF RowsInv, RowsGood

\* Neither does it disturb a plan that has been made: what is written after
\* the plan is no longer quiet, or is a candidate, or is ahead of others.
LEMMA WriteKeepsPlan ==
    ASSUME RegistryInv, PastInv, NEW d \in Digests,
           scan.state = "planned", PlanIsComplete, RecentPromotionsPlanned,
           Push(d) \/ WriteLatest(d) \/ WriteMarker(d)
    PROVE  PlanIsComplete' /\ RecentPromotionsPlanned'
<1>1. Written(d) /\ UNCHANGED scan
      /\ past'.marked = past.marked /\ past'.updated = past.updated
      /\ past'.changed = past.changed \cup {d}
  <2>1. Written(d) /\ UNCHANGED scan
    BY DEF Push, WriteLatest, WriteMarker
  <2> QED
    BY <2>1 DEF Written, RegistryInv, Pasts
<1>2. PlanIsComplete'
  <2>1. CASE Push(d)
    <3> DEFINE before == {Row(e) : e \in Listed}
               after == {Row(e)' : e \in Listed'}
    <3>1. UNCHANGED <<latest, marked>> /\ d \notin Listed /\ Listed' = Listed \cup {d}
      BY <2>1, PushedList DEF Push
    <3>2. \A e \in Listed : Row(e)' = Row(e)
      BY <1>1, <3>1 DEF Row, Written, RegistryInv, Listed
    <3>3. ~Row(d)'.latest /\ ~Row(d)'.marked
      BY <3>1 DEF Row, RegistryInv
    <3>4. \A v : (v \in before /\ (v.latest \/ v.marked))
                  <=> (v \in after /\ (v.latest \/ v.marked))
      BY <3>1, <3>2, <3>3
    <3>5. Selected(before) = Selected(after)
      <4> HIDE DEF before, after
      <4> QED
        BY <3>4, OnlyTaggedCount
    <3>6. Quiet' => Quiet
      BY <1>1, <3>1 DEF Quiet
    <3> QED
      BY <1>1, <3>5, <3>6 DEF PlanIsComplete, Quiet
  <2>2. CASE WriteLatest(d) \/ WriteMarker(d)
    BY <1>1, <2>2 DEF WriteLatest, WriteMarker, PlanIsComplete
  <2> QED
    BY <2>1, <2>2
<1>3. RecentPromotionsPlanned'
  <2> SUFFICES ASSUME NEW e \in past.marked,
                      Cardinality({f \in past.marked : past.updated[f] > past.updated[e]}
                                  \cup ((past.changed \cup {d}) \ {e})) < Depth
               PROVE  e \in scan.plan
    BY <1>1 DEF RecentPromotionsPlanned
  <2> DEFINE more == {f \in past.marked : past.updated[f] > past.updated[e]}
                     \cup ((past.changed \cup {d}) \ {e})
  <2>1. Ahead(e) \subseteq more /\ more \subseteq Ahead(e) \cup {d}
    BY DEF Ahead
  <2>2. IsFiniteSet(more)
    <3> HIDE DEF more
    <3>1. IsFiniteSet(Ahead(e) \cup {d})
      BY AheadIsFinite, FS_AddElement
    <3> QED
      BY <2>1, <3>1, FS_Subset
  <2>3. Cardinality(Ahead(e)) <= Cardinality(more) /\ Cardinality(Ahead(e)) \in Nat
        /\ Cardinality(more) \in Nat
    <3> HIDE DEF more
    <3> QED
      BY <2>1, <2>2, FS_Subset, FS_CardinalityType
  <2>4. Cardinality(Ahead(e)) < Depth
    BY <2>3, RescanAssumption
  <2> QED
    BY <2>4 DEF RecentPromotionsPlanned, Ahead
<1> QED
  BY <1>2, <1>3

-----------------------------------------------------------------------------
(* The steps of the enumeration.                                           *)

\* One more page, of versions not read before.
LEMMA PageKeepsRows ==
    ASSUME RegistryInv, PastInv, RowsInv, NEW rows,
           Page(scan.page) \cap {v.digest : v \in scan.rows} = {},
           rows = scan.rows \cup {Row(d) : d \in Page(scan.page)}
    PROVE  RowsGood(rows, scan.page) /\ rows \subseteq Rows
<1>1. Page(scan.page) \subseteq Listed
  BY DEF Page, Listed
<1>2. ASSUME NEW d \in Page(scan.page)
      PROVE  /\ Row(d) \in Rows /\ Row(d).digest = d /\ d \in Listed
             /\ Row(d).marked => d \in marked
             /\ d \in past.marked => Row(d).marked
             /\ past.updated[d] <= Row(d).updated
             /\ Row(d).updated = updated[d]
  <2>1. d \in Listed /\ d \in Digests
    BY <1>1 DEF Listed, RegistryInv
  <2>2. updated[d] \in Times
    BY <2>1 DEF RegistryInv
  <2>3. Row(d) \in Rows
    BY <2>1, <2>2 DEF Row, Rows
  <2> QED
    BY <2>1, <2>3 DEF Row, PastInv
<1>3. scan.page \in Nat /\ scan.page # 0 /\ scan.page - 1 \in Nat
      /\ PageSize \in Nat /\ scan.rows \subseteq Rows
  BY RescanAssumption DEF RowsInv, RowsGood, RegistryInv, Scans
<1>4. ASSUME NEW i \in DOMAIN listed
      PROVE  \/ i > scan.page * PageSize
             \/ \E v \in rows : v.digest = listed[i]
             \/ listed[i] \in past.changed \ past.marked
  <2>1. i \in Nat
    BY DEF RegistryInv
  <2>2. CASE i > (scan.page - 1) * PageSize /\ i <= scan.page * PageSize
    <3>1. (i - 1) \div PageSize = scan.page - 1
      BY <1>3, <2>1, <2>2, PageOfPosition
    <3>2. listed[i] \in Page(scan.page)
      BY <3>1 DEF Page
    <3> QED
      BY <1>2, <3>2
  <2>3. CASE ~(i > (scan.page - 1) * PageSize)
    BY <2>3 DEF RowsInv, RowsGood
  <2>4. scan.page * PageSize \in Nat
    BY <1>3
  <2> QED
    BY <2>1, <2>2, <2>3, <2>4
<1>5. \A v, w \in rows : v.digest = w.digest => v = w
  BY <1>2 DEF RowsInv, RowsGood
<1>6. Quiet => \A v \in rows : v = Row(v.digest)
  BY <1>2 DEF RowsInv, RowsGood
<1>7. \A v \in rows :
         /\ v.digest \in Listed
         /\ v.marked => v.digest \in marked
         /\ v.digest \in past.marked => v.marked
         /\ past.updated[v.digest] <= v.updated
         /\ v.digest \notin past.changed => v.updated = updated[v.digest]
  BY <1>2 DEF RowsInv, RowsGood
<1> QED
  BY <1>2, <1>3, <1>4, <1>5, <1>6, <1>7 DEF RowsGood

\* The last page leaves nothing unread that the plan has to have.
LEMMA AllIsRead ==
    ASSUME RegistryInv, PastInv, RowsInv, NEW rows, RowsGood(rows, scan.page),
           Cardinality(Page(scan.page)) < PageSize, NEW d \in Listed,
           d \notin past.changed \/ d \in past.marked
    PROVE  \E v \in rows : v.digest = d
<1>1. PICK i \in DOMAIN listed : listed[i] = d
  BY DEF Listed
<1>2. scan.page \in Nat /\ scan.page # 0 /\ scan.page - 1 \in Nat
      /\ scan.page * PageSize \in Nat /\ i \in Nat
  BY RescanAssumption DEF RowsInv, RowsGood, RegistryInv, Scans
<1>3. ~(i > scan.page * PageSize)
  BY <1>2, NotFullIsLast
<1>4. \/ i > scan.page * PageSize
      \/ \E v \in rows : v.digest = listed[i]
      \/ listed[i] \in past.changed \ past.marked
  BY DEF RowsGood
<1> QED
  BY <1>1, <1>3, <1>4

\* A plan made of the pages that were read is complete, and has the recent
\* promotions.
LEMMA PlanOfPages ==
    ASSUME RegistryInv, PastInv, RowsInv, NEW rows,
           RowsGood(rows, scan.page), rows \subseteq Rows,
           Cardinality(Page(scan.page)) < PageSize
    PROVE  /\ Quiet => Selected(rows) = Selected({Row(d) : d \in Listed})
           /\ \A d \in past.marked : Cardinality(Ahead(d)) < Depth => d \in Selected(rows)
           /\ Selected(rows) \subseteq Listed
<1>1. ASSUME Quiet
      PROVE  Selected(rows) = Selected({Row(d) : d \in Listed})
  <2> DEFINE now == {Row(d) : d \in Listed}
  <2>1. \A v \in rows : v \in now
    BY <1>1 DEF RowsGood
  <2>2. ASSUME NEW v \in now, v.latest \/ v.marked
        PROVE  v \in rows
    <3>1. PICK d \in Listed : v = Row(d)
      OBVIOUS
    <3>2. d \notin past.changed
      BY <1>1, <2>2, <3>1 DEF Row, Quiet
    <3>3. PICK w \in rows : w.digest = d
      BY <3>2, AllIsRead
    <3> QED
      BY <1>1, <3>1, <3>3 DEF RowsGood
  <2>3. Selected(rows) = Selected(now)
    <3> HIDE DEF now
    <3> QED
      BY <2>1, <2>2, OnlyTaggedCount
  <2> QED
    BY <2>3
<1>2. ASSUME NEW d \in past.marked, Cardinality(Ahead(d)) < Depth
      PROVE  d \in Selected(rows)
  <2>1. d \in Listed
    BY DEF PastInv, RegistryInv
  <2>2. PICK v \in rows : v.digest = d
    BY <2>1, AllIsRead
  <2>3. v.marked
    BY <2>2 DEF RowsGood
  <2> QED
    BY <1>2, <2>2, <2>3, RecentIsSelected DEF RowsGood
<1>3. Selected(rows) \subseteq Listed
  BY DEF Selected, Newest, RowsGood
<1> QED
  BY <1>1, <1>2, <1>3

\* The reading of a page keeps the invariant.
LEMMA ReadStep ==
    ASSUME IInv, NEW next \in BOOLEAN, ReadPage(next)
    PROVE  IInv'
<1> DEFINE rows == scan.rows \cup {Row(d) : d \in Page(scan.page)}
<1>1. RegistryInv /\ PastInv /\ RowsInv /\ scan \in Scans
      /\ UNCHANGED <<clock, listed, latest, marked, updated, writing, past>>
  BY DEF ReadPage, IInv, RegistryInv
<1>2. PastInv' /\ UNCHANGED Listed
  BY <1>1 DEF PastInv, Listed
<1>3. CASE Fail
  <2>1. scan' \in Scans /\ scan'.state = "failed"
    BY <1>1, <1>3 DEF Fail, Scans
  <2> QED
    BY <1>2, <2>1, RegistryStep DEF IInv, Next
<1>4. CASE ~Fail
  <2>1. Page(scan.page) \cap {v.digest : v \in scan.rows} = {}
    BY <1>4 DEF ReadPage
  <2>2. RowsGood(rows, scan.page) /\ rows \subseteq Rows
    BY <1>1, <2>1, PageKeepsRows
  <2>3. CASE ~LastPage(Page(scan.page), next)
    <3>1. scan' = [scan EXCEPT !.page = @ + 1, !.rows = rows]
      BY <1>4, <2>1, <2>3 DEF ReadPage
    <3>2. scan' \in Scans /\ scan'.rows = rows /\ scan'.page = scan.page + 1
          /\ scan'.state = "reads"
      <4>1. scan.state = "reads"
        BY DEF ReadPage
      <4> DEFINE following == scan.page + 1
      <4>2. following \in Nat /\ scan' = [scan EXCEPT !.page = following, !.rows = rows]
        BY <1>1, <3>1 DEF Scans
      <4> HIDE DEF following, rows
      <4>3. scan' \in Scans /\ scan'.rows = rows /\ scan'.page = following
            /\ scan'.state = "reads"
        BY <1>1, <2>2, <4>1, <4>2 DEF Scans
      <4> QED
        BY <4>3 DEF following
    <3>3. RowsInv'
      <4>1. scan.page \in Nat /\ scan'.page # 0 /\ scan'.page - 1 = scan.page
        BY <1>1, <3>2 DEF Scans
      <4> HIDE DEF rows
      <4>2. RowsGood(scan'.rows, scan'.page - 1)
        BY <2>2, <3>2, <4>1
      <4> QED
        BY <1>1, <1>2, <4>1, <4>2 DEF RowsInv, RowsGood, Quiet, Row
    <3> QED
      BY <1>2, <3>2, <3>3, RegistryStep DEF IInv, Next
  <2>4. CASE LastPage(Page(scan.page), next)
    <3>1. scan' = [scan EXCEPT !.state = "planned", !.rows = {}, !.plan = Selected(rows)]
      BY <1>4, <2>1, <2>4 DEF ReadPage
    <3>2. /\ Quiet => Selected(rows) = Selected({Row(d) : d \in Listed})
          /\ \A d \in past.marked : Cardinality(Ahead(d)) < Depth => d \in Selected(rows)
          /\ Selected(rows) \subseteq Listed
      <4> HIDE DEF rows
      <4> QED
        BY <1>1, <2>2, <2>4, PlanOfPages DEF LastPage
    <3> HIDE DEF rows
    <3>3. scan' \in Scans /\ scan'.plan = Selected(rows) /\ scan'.state = "planned"
      <4>1. Listed \subseteq Digests
        BY <1>1 DEF RegistryInv, Listed
      <4> QED
        BY <1>1, <3>1, <3>2, <4>1 DEF Scans
    <3>4. PlanIsComplete'
      <4>1. {Row(d) : d \in Listed}' = {Row(d) : d \in Listed}
        BY <1>1, <1>2 DEF Row
      <4> QED
        BY <1>1, <3>2, <3>3, <4>1 DEF PlanIsComplete, Quiet
    <3>5. RecentPromotionsPlanned'
      BY <1>1, <3>2, <3>3 DEF RecentPromotionsPlanned, Ahead
    <3> QED
      BY <1>2, <3>2, <3>3, <3>4, <3>5, RegistryStep DEF IInv, Next
  <2> QED
    BY <2>3, <2>4
<1> QED
  BY <1>3, <1>4

\* The other steps of the enumeration do.
LEMMA ScanSteps ==
    ASSUME IInv, Start \/ ReadFails
    PROVE  IInv'
<1>1. CASE Start
  <2>1. scan' \in Scans /\ scan'.state = "reads" /\ scan'.rows = {} /\ scan'.page = 1
    BY <1>1 DEF Start, Scans
  <2>2. UNCHANGED <<clock, listed, latest, marked, updated, writing>>
        /\ past' = [marked |-> marked, updated |-> updated, changed |-> {}]
    BY <1>1 DEF Start
  <2>3. updated \in [Digests -> Nat]
    BY RescanAssumption DEF IInv, RegistryInv, Times
  <2>4. PastInv'
    BY <2>2, <2>3 DEF PastInv
  <2>5. RowsInv'
    <3>1. \A i \in DOMAIN listed : i > (1 - 1) * PageSize
      BY RescanAssumption DEF IInv, RegistryInv
    <3> QED
      BY <2>1, <2>2, <3>1 DEF RowsInv, RowsGood
  <2> QED
    BY <1>1, <2>1, <2>4, <2>5, RegistryStep DEF IInv, Next
<1>2. CASE ReadFails
  <2>1. scan' \in Scans /\ scan'.state = "failed" /\ scan.state = "reads"
    BY <1>2 DEF ReadFails, Fail, IInv, RegistryInv, Scans
  <2>2. PastInv'
    BY <1>2, <2>1 DEF ReadFails, IInv, PastInv, Listed
  <2> QED
    BY <1>2, <2>1, <2>2, RegistryStep DEF IInv, Next
<1> QED
  BY <1>1, <1>2

\* A step that leaves the list, the tags and the scan alone keeps the rest.
LEMMA OtherSteps ==
    ASSUME IInv, [Next]_vars,
           UNCHANGED <<listed, latest, marked, updated, scan, past>>
    PROVE  IInv'
<1>1. RegistryInv'
  BY RegistryStep DEF IInv, RegistryInv
<1>2. scan.state # "none" => PastInv'
  BY DEF IInv, PastInv, Listed
<1>3. scan.state = "reads" => RowsInv'
  BY DEF IInv, RowsInv, RowsGood, Quiet, Row, Listed
<1>4. scan.state = "planned" =>
         PlanIsComplete' /\ RecentPromotionsPlanned' /\ scan.plan \subseteq Listed'
  BY DEF IInv, PlanIsComplete, RecentPromotionsPlanned, Row, Listed
<1> QED
  BY <1>1, <1>2, <1>3, <1>4 DEF IInv

\* A push or a tag keeps the invariant.
LEMMA WriteSteps ==
    ASSUME IInv, NEW d \in Digests, Push(d) \/ WriteLatest(d) \/ WriteMarker(d)
    PROVE  IInv'
<1>1. RegistryInv /\ UNCHANGED scan /\ scan \in Scans /\ Written(d)
      /\ marked \subseteq marked' /\ marked' \subseteq marked \cup {d}
  BY DEF Push, WriteLatest, WriteMarker, IInv, RegistryInv
<1>2. Listed \subseteq Listed' /\ d \in Listed'
  <2>1. CASE Push(d)
    BY <1>1, <2>1, PushedList
  <2>2. CASE WriteLatest(d) \/ WriteMarker(d)
    <3>1. UNCHANGED listed /\ writing.digest = {d}
      BY <2>2 DEF WriteLatest, WriteMarker
    <3>2. writing.digest \subseteq Listed
      BY <1>1 DEF RegistryInv
    <3> QED
      BY <3>1, <3>2 DEF Listed
  <2> QED
    BY <2>1, <2>2
<1>3. RegistryInv'
  BY <1>1, RegistryStep DEF Next
<1>4. scan.state # "none" => PastInv'
  BY <1>1, <1>2, WriteKeepsPast DEF IInv
<1>5. scan.state = "reads" => RowsInv'
  BY <1>1, WriteKeepsRows DEF IInv
<1>6. scan.state = "planned" =>
         PlanIsComplete' /\ RecentPromotionsPlanned' /\ scan.plan \subseteq Listed'
  BY <1>1, <1>2, WriteKeepsPlan DEF IInv
<1> QED
  BY <1>1, <1>3, <1>4, <1>5, <1>6 DEF IInv

-----------------------------------------------------------------------------
(* The theorems.                                                           *)

\* What the enumeration has read of the registry stays true of it, as far as
\* nothing was written, through every step of builds and promotions.
THEOREM ListingInvariant == Spec => []IInv
<1>1. Init => IInv
  BY RescanAssumption DEF Init, IInv, RegistryInv, NoWriting, Listed, Scans, Pasts, Times
<1>2. IInv /\ [Next]_vars => IInv'
  <2> SUFFICES ASSUME IInv, [Next]_vars
               PROVE  IInv'
    OBVIOUS
  <2>1. ASSUME NEW d \in Digests, Promote(d)
        PROVE  IInv'
    BY <2>1, OtherSteps DEF Promote
  <2>2. CASE GiveUp \/ UNCHANGED vars
    BY <2>2, OtherSteps DEF GiveUp, vars
  <2> QED
    BY <2>1, <2>2, WriteSteps, ReadStep, ScanSteps DEF Next
<1> QED
  BY <1>1, <1>2, PTL DEF Spec

\* A plan made while nothing is promoted has exactly :latest and the newest
\* promotions, however many candidates are pushed between two pages.
THEOREM PlansAreComplete == Spec => []PlanIsComplete
<1>1. IInv => PlanIsComplete
  BY DEF IInv, PlanIsComplete
<1> QED
  BY <1>1, ListingInvariant, PTL

\* A promotion is in the plan unless as many as are scanned were newer than it
\* or were written while the pages were read.
THEOREM RecentArePlanned == Spec => []RecentPromotionsPlanned
<1>1. IInv => RecentPromotionsPlanned
  BY DEF IInv, RecentPromotionsPlanned
<1> QED
  BY <1>1, ListingInvariant, PTL

-----------------------------------------------------------------------------
(* The audit, over a list whose rows move to the front while it is read.   *)

\* The list has every closed pull request once, the last updated first, and a
\* merged one was merged when it was updated, or before.
HistoryInv ==
    /\ auditClock \in Audit!Times
    /\ order \in Seq(Pulls)
    /\ \A i, j \in DOMAIN order : i < j => changed[order[j]] < changed[order[i]]
    /\ changed \in [Pulls -> Audit!Times] /\ \A p \in Pulls : changed[p] <= auditClock
    /\ merged \in [Pulls -> Audit!Times \cup {Audit!Never}]
    /\ \A p \in Pulls : merged[p] # Audit!Never => p \in Audit!Closed /\ merged[p] <= changed[p]

\* What an audit has to have read, of what was merged when it began: all that
\* is not behind the pages it has read.
Outstanding(p) == p \notin moved /\ merged[p] \in Audit!Cutoff..audit.now

PagesInv ==
    /\ audit.now <= auditClock
    /\ audit.page # 0
    /\ \A i \in DOMAIN order :
          Outstanding(order[i]) => i > (audit.page - 1) * PageSize \/ order[i] \in audit.rows

Audits == [state: {"none", "reads", "clean", "violations", "incomplete"},
           now: Audit!Times, page: Nat, rows: SUBSET Pulls, again: SUBSET Pulls, found: SUBSET Pulls]

AuditInv ==
    /\ HistoryInv
    /\ audit \in Audits
    /\ audit.state = "reads" => PagesInv
    /\ Audit!MissedOnlyIfMoved

\* Initially nothing is closed and no audit has begun.
LEMMA AuditInit == Audit!AuditAssumption /\ Audit!Init => AuditInv
<1> SUFFICES ASSUME Audit!AuditAssumption, Audit!Init PROVE AuditInv
  OBVIOUS
<1>1. HistoryInv
  BY DEF Audit!AuditAssumption, Audit!Init, HistoryInv, Audit!Times, Audit!Never, Audit!Closed
<1>2. audit.state = "none" /\ audit \in Audits
  BY DEF Audit!Init, Audits, Audit!Times, Audit!AuditAssumption
<1> QED
  BY <1>1, <1>2 DEF AuditInv, Audit!MissedOnlyIfMoved

\* What goes to the front is first, and every other row is where it was or one
\* further back.
LEMMA FrontAndBack ==
    ASSUME HistoryInv, NEW p \in Pulls, Audit!ToFront(p)
    PROVE  /\ order' \in Seq(Pulls) /\ 1 \in DOMAIN order' /\ order'[1] = p
           /\ \A j \in DOMAIN order' \ {1} :
                 /\ order'[j] # p
                 /\ \/ j - 1 \in DOMAIN order /\ order'[j] = order[j - 1]
                    \/ j \in DOMAIN order /\ order'[j] = order[j]
           /\ \A i, j \in DOMAIN order' \ {1} : i < j =>
                 \E k, l \in DOMAIN order : k < l /\ order'[i] = order[k] /\ order'[j] = order[l]
           /\ {order'[i] : i \in DOMAIN order'} = Audit!Closed \cup {p}
<1> DEFINE len == Len(order)
           new == IF p \in Audit!Closed THEN len ELSE len + 1
           place == Audit!Place(p)
<1>1. len \in Nat /\ DOMAIN order = 1..len /\ \A i \in 1..len : order[i] \in Pulls
  BY DEF HistoryInv
<1>2. \A i, j \in 1..len : order[i] = order[j] => i = j
  <2>1. ASSUME NEW i \in 1..len, NEW j \in 1..len, i < j PROVE order[i] # order[j]
    <3>1. changed[order[j]] < changed[order[i]]
      BY <1>1, <2>1 DEF HistoryInv
    <3>2. changed[order[j]] \in Int
      BY <1>1 DEF HistoryInv, Audit!Times
    <3> QED
      BY <3>1, <3>2
  <2> HIDE DEF len
  <2> QED
    BY <1>1, <2>1
<1>3. new = IF p \in Audit!Closed THEN len ELSE len + 1
  OBVIOUS
<1>4. IF p \in Audit!Closed THEN place \in 1..len /\ order[place] = p ELSE place = len + 1
  <2>1. CASE p \in Audit!Closed
    <3>1. \E i \in DOMAIN order : order[i] = p
      BY <2>1 DEF Audit!Closed
    <3>2. place = CHOOSE i \in DOMAIN order : order[i] = p
      BY <2>1 DEF Audit!Place
    <3> QED
      BY <1>1, <2>1, <3>1, <3>2
  <2>2. CASE p \notin Audit!Closed
    BY <2>2 DEF Audit!Place
  <2> QED
    BY <2>1, <2>2
<1>5. order' = [i \in 1..new |-> IF i = 1 THEN p ELSE order[IF i <= place THEN i - 1 ELSE i]]
  BY DEF Audit!ToFront
<1> HIDE DEF len, new, place
<1>6. /\ new \in Nat /\ place \in Nat /\ 1 <= place /\ place <= new
      /\ len <= new /\ new <= len + 1 /\ (place <= len => new = len)
  BY <1>1, <1>3, <1>4
<1>7. \A i \in 1..len : i # place => order[i] # p
  <2> TAKE i \in 1..len
  <2>1. CASE p \in Audit!Closed
    BY <1>2, <1>4, <2>1
  <2>2. CASE p \notin Audit!Closed
    BY <1>1, <2>2 DEF Audit!Closed
  <2> QED
    BY <2>1, <2>2
<1>8. DOMAIN order' = 1..new /\ order'[1] = p /\ 1 \in 1..new
  BY <1>5, <1>6
<1> DEFINE from(j) == IF j <= place THEN j - 1 ELSE j
<1>9. \A j \in 2..new : from(j) \in 1..len /\ from(j) # place /\ order'[j] = order[from(j)]
  <2> TAKE j \in 2..new
  <2>1. j \in 1..new /\ j # 1
    OBVIOUS
  <2>2. order'[j] = order[from(j)]
    BY <1>5, <2>1
  <2>3. from(j) \in 1..len /\ from(j) # place
    BY <1>1, <1>6
  <2> QED
    BY <2>2, <2>3
<1>10. \A j \in 1..new : order'[j] \in Pulls
  <2> TAKE j \in 1..new
  <2>1. CASE j = 1
    BY <1>8, <2>1
  <2>2. CASE j # 1
    BY <1>1, <1>6, <1>9, <2>2
  <2> QED
    BY <2>1, <2>2
<1>11. order' \in Seq(Pulls)
  <2>1. order' \in [1..new -> Pulls]
    BY <1>5, <1>8, <1>10
  <2> QED
    BY <1>6, <2>1, SeqDef
<1>12. \A q \in Audit!Closed \cup {p} : \E j \in 1..new : order'[j] = q
  <2> TAKE q \in Audit!Closed \cup {p}
  <2>1. CASE q = p
    BY <1>8, <2>1
  <2>2. CASE q # p
    <3>1. PICK i \in 1..len : order[i] = q
      BY <1>1, <2>2 DEF Audit!Closed
    <3>2. i # place
      BY <1>4, <1>6, <2>2, <3>1
    <3>3. CASE i < place
      <4>1. i + 1 \in 2..new /\ from(i + 1) = i
        BY <1>1, <1>6, <3>3
      <4> QED
        BY <1>6, <1>9, <3>1, <4>1
    <3>4. CASE i > place
      <4>1. i \in 2..new /\ from(i) = i
        BY <1>1, <1>6, <3>4
      <4> QED
        BY <1>6, <1>9, <3>1, <4>1
    <3> QED
      BY <1>1, <1>6, <3>2, <3>3, <3>4
  <2> QED
    BY <2>1, <2>2
<1>13. \A j \in 1..new : order'[j] \in Audit!Closed \cup {p}
  <2> TAKE j \in 1..new
  <2>1. CASE j = 1
    BY <1>8, <2>1
  <2>2. CASE j # 1
    <3>1. j \in 2..new
      BY <1>6, <2>2
    <3>2. from(j) \in DOMAIN order /\ order'[j] = order[from(j)]
      BY <1>1, <1>9, <3>1
    <3> QED
      BY <3>2 DEF Audit!Closed
  <2> QED
    BY <2>1, <2>2
<1>14. {order'[i] : i \in DOMAIN order'} = Audit!Closed \cup {p}
  BY <1>8, <1>12, <1>13
<1>15. ASSUME NEW j \in 2..new
       PROVE  /\ order'[j] # p
              /\ \/ j - 1 \in DOMAIN order /\ order'[j] = order[j - 1]
                 \/ j \in DOMAIN order /\ order'[j] = order[j]
  BY <1>1, <1>7, <1>9
<1>16. ASSUME NEW i \in 2..new, NEW j \in 2..new, i < j
       PROVE  \E k, l \in DOMAIN order : k < l /\ order'[i] = order[k] /\ order'[j] = order[l]
  <2>1. from(i) < from(j)
    BY <1>6, <1>9, <1>16
  <2>2. from(i) \in DOMAIN order /\ from(j) \in DOMAIN order
    BY <1>1, <1>9
  <2>3. order'[i] = order[from(i)] /\ order'[j] = order[from(j)]
    BY <1>9
  <2> HIDE DEF from
  <2> QED
    BY <2>1, <2>2, <2>3
<1>17. DOMAIN order' \ {1} = 2..new
  BY <1>6, <1>8
<1> QED
  BY <1>8, <1>11, <1>14, <1>15, <1>16, <1>17

\* Whatever is merged, closed or commented on: the list stays in order, and what
\* an audit has yet to read stays behind the pages it has read.
LEMMA FrontKeeps ==
    ASSUME Audit!AuditAssumption, AuditInv, NEW p \in Pulls, Audit!ToFront(p),
           merged' = merged \/ (p \notin Audit!Closed /\ merged' = [merged EXCEPT ![p] = auditClock'])
    PROVE  AuditInv'
<1>1. HistoryInv
  BY DEF AuditInv
<1>2. /\ auditClock' = auditClock + 1 /\ auditClock < AuditTime
      /\ changed' = [changed EXCEPT ![p] = auditClock']
      /\ audit' = audit /\ audit.state \in {"none", "reads"}
      /\ audit.state = "reads" => moved' = moved \cup {p}
  BY DEF Audit!ToFront
<1>3. /\ auditClock \in Nat /\ auditClock <= AuditTime /\ AuditTime \in Nat
      /\ \A q \in Pulls : changed[q] \in Nat /\ changed[q] <= auditClock
      /\ Audit!Never = AuditTime + 1
      /\ audit.now \in Nat /\ audit.page \in Nat
  BY <1>1 DEF AuditInv, Audits, HistoryInv, Audit!Times, Audit!AuditAssumption, Audit!Never
<1>4. /\ order' \in Seq(Pulls) /\ 1 \in DOMAIN order' /\ order'[1] = p
      /\ \A j \in DOMAIN order' \ {1} :
            /\ order'[j] # p
            /\ \/ j - 1 \in DOMAIN order /\ order'[j] = order[j - 1]
               \/ j \in DOMAIN order /\ order'[j] = order[j]
      /\ \A i, j \in DOMAIN order' \ {1} : i < j =>
            \E k, l \in DOMAIN order : k < l /\ order'[i] = order[k] /\ order'[j] = order[l]
      /\ {order'[i] : i \in DOMAIN order'} = Audit!Closed \cup {p}
  BY <1>1, FrontAndBack
<1>5. \A j \in DOMAIN order' : j \in Nat /\ j >= 1 /\ order'[j] \in Pulls
  BY <1>4
<1>6. auditClock' \in Audit!Times /\ changed' \in [Pulls -> Audit!Times]
      /\ \A q \in Pulls : changed'[q] <= auditClock'
  BY <1>1, <1>2, <1>3 DEF HistoryInv, Audit!Times
<1>7. ASSUME NEW i \in DOMAIN order', NEW j \in DOMAIN order', i < j
      PROVE  changed'[order'[j]] < changed'[order'[i]]
  <2>1. j # 1 /\ order'[j] # p /\ changed'[order'[j]] = changed[order'[j]]
    BY <1>1, <1>2, <1>4, <1>5, <1>7 DEF HistoryInv
  <2>2. CASE i = 1
    <3>1. changed'[order'[i]] = auditClock + 1
      BY <1>1, <1>2, <1>4, <2>2 DEF HistoryInv
    <3> QED
      BY <1>3, <1>5, <2>1, <3>1
  <2>3. CASE i # 1
    <3>1. changed'[order'[i]] = changed[order'[i]]
      BY <1>1, <1>2, <1>4, <1>5, <2>3 DEF HistoryInv
    <3>2. changed[order'[j]] < changed[order'[i]]
      BY <1>1, <1>4, <1>7, <2>1, <2>3 DEF HistoryInv
    <3> QED
      BY <2>1, <3>1, <3>2
  <2> QED
    BY <2>2, <2>3
<1>8. merged' \in [Pulls -> Audit!Times \cup {Audit!Never}]
  BY <1>1, <1>6 DEF HistoryInv
<1>9. ASSUME NEW q \in Pulls, merged'[q] # Audit!Never
      PROVE  q \in Audit!Closed \cup {p} /\ merged'[q] <= changed'[q]
  <2>1. CASE q = p
    <3>1. changed'[p] = auditClock + 1
      BY <1>1, <1>2 DEF HistoryInv
    <3>2. CASE merged' = merged
      <4>1. merged[p] <= changed[p] /\ merged[p] \in Nat
        BY <1>1, <1>9, <2>1, <3>2 DEF HistoryInv, Audit!Times
      <4> QED
        BY <1>3, <2>1, <3>1, <3>2, <4>1
    <3>3. CASE merged' = [merged EXCEPT ![p] = auditClock']
      BY <1>1, <1>2, <1>3, <2>1, <3>1, <3>3 DEF HistoryInv
    <3> QED
      BY <3>2, <3>3
  <2>2. CASE q # p
    <3>1. merged'[q] = merged[q] /\ changed'[q] = changed[q]
      BY <1>1, <1>2, <2>2 DEF HistoryInv
    <3> QED
      BY <1>1, <1>9, <3>1 DEF HistoryInv
  <2> QED
    BY <2>1, <2>2
<1>10. HistoryInv'
  <2>1. Audit!Closed' = Audit!Closed \cup {p}
    BY <1>4 DEF Audit!Closed
  <2>2. Audit!Times' = Audit!Times /\ Audit!Never' = Audit!Never
    BY DEF Audit!Times, Audit!Never
  <2> QED
    BY <1>4, <1>6, <1>7, <1>8, <1>9, <2>1, <2>2 DEF HistoryInv
<1>11. ASSUME audit.state = "reads" PROVE PagesInv'
  <2>1. PagesInv /\ moved' = moved \cup {p}
    BY <1>2, <1>11 DEF AuditInv
  <2>2. Audit!Cutoff' = Audit!Cutoff
    BY <1>2 DEF Audit!Cutoff, Audit!LastHours
  <2>3. ASSUME NEW j \in DOMAIN order', order'[j] \notin moved',
               merged'[order'[j]] \in Audit!Cutoff..audit.now
        PROVE  j > (audit.page - 1) * PageSize \/ order'[j] \in audit.rows
    <3>1. j # 1 /\ order'[j] # p
      BY <1>4, <2>1, <2>3
    <3>2. merged'[order'[j]] = merged[order'[j]]
      BY <1>1, <1>5, <3>1 DEF HistoryInv
    <3>3. PICK k \in DOMAIN order : k <= j /\ order'[j] = order[k]
      BY <1>4, <1>5, <3>1
    <3>4. Outstanding(order[k])
      BY <2>1, <2>3, <3>2, <3>3 DEF Outstanding
    <3>5. k > (audit.page - 1) * PageSize \/ order[k] \in audit.rows
      BY <2>1, <3>4 DEF PagesInv
    <3>6. (audit.page - 1) * PageSize \in Int /\ k \in Int
      BY <1>1, <1>3, <3>3 DEF HistoryInv, Audit!AuditAssumption
    <3> QED
      BY <1>5, <3>3, <3>5, <3>6
  <2>4. audit.now <= auditClock'
    BY <1>2, <1>3, <2>1 DEF PagesInv
  <2> QED
    BY <1>2, <2>1, <2>2, <2>3, <2>4 DEF PagesInv, Outstanding
<1>12. Audit!MissedOnlyIfMoved'
  BY <1>2 DEF Audit!MissedOnlyIfMoved
<1>13. audit' \in Audits'
  BY <1>2 DEF AuditInv, Audits, Audit!Times
<1> QED
  BY <1>2, <1>10, <1>11, <1>12, <1>13 DEF AuditInv

\* Where a closed pull request is in the list; it is there once.
LEMMA OnePlace ==
    ASSUME HistoryInv, NEW p \in Audit!Closed
    PROVE  /\ Audit!Place(p) \in DOMAIN order /\ order[Audit!Place(p)] = p
           /\ \A i \in DOMAIN order : i # Audit!Place(p) => order[i] # p
<1>1. Audit!Place(p) \in DOMAIN order /\ order[Audit!Place(p)] = p
  <2>1. \E i \in DOMAIN order : order[i] = p
    BY DEF Audit!Closed
  <2> QED
    BY <2>1 DEF Audit!Place
<1>2. \A i, j \in DOMAIN order : i < j => order[i] # order[j]
  <2> TAKE i, j \in DOMAIN order
  <2>1. order[i] \in Pulls /\ changed[order[i]] \in Int
    BY DEF HistoryInv, Audit!Times
  <2> QED
    BY <2>1 DEF HistoryInv
<1>3. \A i \in DOMAIN order : i \in Int
  BY DEF HistoryInv
<1> QED
  BY <1>1, <1>2, <1>3

\* What is opened again leaves the list in order, and the only one that it lets
\* move onto a page that was read is recorded as moved.
LEMMA ReopenKeeps ==
    ASSUME Audit!AuditAssumption, AuditInv, NEW p \in Pulls, Audit!Reopen(p)
    PROVE  AuditInv'
<1> DEFINE len == Len(order)
           place == Audit!Place(p)
           from(j) == IF j < place THEN j ELSE j + 1
<1>1. HistoryInv /\ p \in Audit!Closed
  BY DEF AuditInv, Audit!Reopen
<1>2. /\ auditClock' = auditClock + 1 /\ auditClock < AuditTime
      /\ changed' = [changed EXCEPT ![p] = auditClock']
      /\ audit' = audit /\ audit.state \in {"none", "reads"}
      /\ merged' = merged /\ merged[p] = Audit!Never
      /\ order' = [j \in 1..(len - 1) |-> order[from(j)]]
  BY DEF Audit!Reopen
<1>3. len \in Nat /\ DOMAIN order = 1..len /\ \A i \in 1..len : order[i] \in Pulls
  BY <1>1 DEF HistoryInv
<1>4. /\ place \in 1..len /\ order[place] = p
      /\ \A i \in 1..len : i # place => order[i] # p
  BY <1>1, <1>3, OnePlace
<1>5. /\ auditClock \in Nat /\ auditClock < AuditTime /\ AuditTime \in Nat
      /\ \A q \in Pulls : changed[q] \in Nat /\ changed[q] <= auditClock
      /\ audit.now \in Nat /\ audit.page \in Nat
  BY <1>1, <1>2 DEF AuditInv, Audits, HistoryInv, Audit!Times, Audit!AuditAssumption
<1> HIDE DEF len, place
<1>6. \A j \in 1..(len - 1) : from(j) \in 1..len /\ from(j) # place /\ order'[j] = order[from(j)]
  <2> TAKE j \in 1..(len - 1)
  <2>1. order'[j] = order[from(j)]
    BY <1>2
  <2>2. from(j) \in 1..len /\ from(j) # place
    BY <1>3, <1>4
  <2> QED
    BY <2>1, <2>2
<1>7. DOMAIN order' = 1..(len - 1)
  BY <1>2
<1>8. ASSUME NEW j \in 1..(len - 1)
      PROVE  order'[j] \in Pulls /\ order'[j] # p /\ changed'[order'[j]] = changed[order'[j]]
  <2>1. order'[j] \in Pulls /\ order'[j] # p
    BY <1>3, <1>4, <1>6
  <2> QED
    BY <1>1, <1>2, <2>1 DEF HistoryInv
<1>9. order' \in Seq(Pulls)
  <2>1. order' \in [1..(len - 1) -> Pulls]
    BY <1>2, <1>7, <1>8
  <2>2. len - 1 \in Nat
    BY <1>3, <1>4
  <2> QED
    BY <2>1, <2>2, SeqDef
<1>10. ASSUME NEW i \in 1..(len - 1), NEW j \in 1..(len - 1), i < j
       PROVE  changed'[order'[j]] < changed'[order'[i]]
  <2>1. from(i) < from(j)
    BY <1>3, <1>4, <1>10
  <2>2. /\ from(i) \in DOMAIN order /\ from(j) \in DOMAIN order
        /\ order'[i] = order[from(i)] /\ order'[j] = order[from(j)]
    BY <1>3, <1>6
  <2> HIDE DEF from
  <2>3. changed[order[from(j)]] < changed[order[from(i)]]
    BY <1>1, <2>1, <2>2 DEF HistoryInv
  <2> QED
    BY <1>8, <2>2, <2>3
<1>11. /\ auditClock' \in Audit!Times /\ changed' \in [Pulls -> Audit!Times]
       /\ \A q \in Pulls : changed'[q] <= auditClock'
  BY <1>1, <1>2, <1>5 DEF HistoryInv, Audit!Times
<1>12. ASSUME NEW q \in Pulls, merged[q] # Audit!Never
       PROVE  q \in Audit!Closed' /\ merged[q] <= changed'[q]
  <2>1. q # p /\ q \in Audit!Closed /\ merged[q] <= changed[q]
    BY <1>1, <1>2, <1>12 DEF HistoryInv
  <2>2. PICK i \in 1..len : order[i] = q
    BY <1>3, <2>1 DEF Audit!Closed
  <2>3. \E j \in 1..(len - 1) : order'[j] = q
    <3>1. CASE i < place
      <4>1. i \in 1..(len - 1) /\ from(i) = i
        BY <1>3, <1>4, <3>1
      <4> QED
        BY <1>6, <2>2, <4>1
    <3>2. CASE i > place
      <4>1. i - 1 \in 1..(len - 1) /\ from(i - 1) = i
        BY <1>3, <1>4, <3>2
      <4> QED
        BY <1>6, <2>2, <4>1
    <3> QED
      BY <1>3, <1>4, <2>1, <2>2, <3>1, <3>2
  <2>4. q \in Audit!Closed'
    BY <1>7, <2>3 DEF Audit!Closed
  <2>5. changed'[q] = changed[q]
    BY <1>1, <1>2, <2>1 DEF HistoryInv
  <2> QED
    BY <2>1, <2>4, <2>5
<1>13. HistoryInv'
  <2>1. Audit!Times' = Audit!Times /\ Audit!Never' = Audit!Never
    BY DEF Audit!Times, Audit!Never
  <2> QED
    BY <1>1, <1>2, <1>7, <1>9, <1>10, <1>11, <1>12, <2>1 DEF HistoryInv
<1>14. ASSUME audit.state = "reads" PROVE PagesInv'
  <2>1. /\ PagesInv
        /\ moved' = moved \cup {p} \cup {order[i] : i \in {j \in DOMAIN order :
                                                      j = Audit!Unread /\ place < j}}
    BY <1>14 DEF AuditInv, Audit!Reopen, place
  <2>2. Audit!Cutoff' = Audit!Cutoff
    BY <1>2 DEF Audit!Cutoff, Audit!LastHours
  <2>3. ASSUME NEW j \in 1..(len - 1), order'[j] \notin moved',
               merged[order'[j]] \in Audit!Cutoff..audit.now
        PROVE  j > (audit.page - 1) * PageSize \/ order'[j] \in audit.rows
    <3> DEFINE low == (audit.page - 1) * PageSize
    <3>1. from(j) \in DOMAIN order /\ order'[j] = order[from(j)]
      BY <1>3, <1>6
    <3>2. Outstanding(order[from(j)])
      BY <2>1, <2>3, <3>1 DEF Outstanding
    <3>3. from(j) > low \/ order'[j] \in audit.rows
      BY <2>1, <3>1, <3>2 DEF PagesInv
    <3>4. low \in Int /\ Audit!Unread = low + 1
      BY <1>5 DEF Audit!AuditAssumption, Audit!Unread
    <3>5. from(j) = Audit!Unread => ~(place < from(j))
      BY <2>1, <2>3, <3>1
    <3> HIDE DEF low
    <3>6. from(j) > low => j > low
      BY <1>3, <1>4, <3>4, <3>5
    <3> QED
      BY <3>3, <3>6 DEF low
  <2>4. audit.now <= auditClock'
    BY <1>2, <1>5, <2>1 DEF PagesInv
  <2> QED
    BY <1>2, <1>7, <2>1, <2>2, <2>3, <2>4 DEF PagesInv, Outstanding
<1>15. Audit!MissedOnlyIfMoved'
  BY <1>2 DEF Audit!MissedOnlyIfMoved
<1>16. audit' \in Audits'
  BY <1>2 DEF AuditInv, Audits, Audit!Times
<1> QED
  BY <1>2, <1>13, <1>14, <1>15, <1>16 DEF AuditInv

\* When the last page has been read, nothing is outstanding: what is behind it was
\* updated, and so merged, before the cutoff.
LEMMA NothingBehind ==
    ASSUME Audit!AuditAssumption, HistoryInv, audit \in Audits, PagesInv, Audit!LastPage(audit.page),
           NEW p \in Pulls, p \notin moved, merged[p] \in (Activation + 1)..audit.now
    PROVE  p \in audit.rows \cup Audit!Rows(Audit!Page(audit.page))
<1>1. /\ audit.now \in Nat /\ audit.now <= AuditTime /\ AuditTime \in Nat /\ PageSize \in Nat /\ PageSize >= 1
      /\ audit.page \in Nat /\ audit.page # 0 /\ Activation \in Nat
  BY DEF Audit!AuditAssumption, Audits, PagesInv, Audit!Times
<1>2. Audit!Cutoff \in Nat /\ Audit!Cutoff <= Activation
  BY <1>1 DEF Audit!Cutoff, Audit!LastHours, Audit!AuditAssumption
<1>3. merged[p] \in Audit!Cutoff..audit.now /\ merged[p] # Audit!Never /\ merged[p] \in Nat
  BY <1>1, <1>2 DEF Audit!Never
<1>4. p \in Audit!Closed /\ merged[p] <= changed[p]
  BY <1>3 DEF HistoryInv
<1>5. PICK i \in DOMAIN order : order[i] = p
  BY <1>4 DEF Audit!Closed
<1>6. i > (audit.page - 1) * PageSize \/ p \in audit.rows
  BY <1>3, <1>5 DEF PagesInv, Outstanding
<1> DEFINE low == (audit.page - 1) * PageSize
           high == audit.page * PageSize
<1>7. low \in Nat /\ high \in Nat /\ high >= 1
  BY <1>1
<1>8. i \in Nat /\ i >= 1 /\ i <= Len(order) /\ DOMAIN order = 1..Len(order) /\ Len(order) \in Nat
  BY <1>5 DEF HistoryInv
<1>9. i <= high
  <2> SUFFICES ASSUME i > high PROVE FALSE
    BY <1>7, <1>8
  <2>1. changed[order[high]] < Audit!Cutoff
    BY <1>7, <1>8 DEF Audit!LastPage
  <2>2. high \in DOMAIN order
    BY <1>7, <1>8
  <2> HIDE DEF high
  <2>3. changed[p] < changed[order[high]]
    BY <1>5, <2>2 DEF HistoryInv
  <2>4. changed[p] \in Nat /\ changed[order[high]] \in Nat
    BY <2>2 DEF HistoryInv, Audit!Times
  <2> QED
    BY <1>2, <1>3, <1>4, <2>1, <2>3, <2>4
<1>10. i > low => p \in Audit!Page(audit.page)
  <2>1. i > low => i \in (low + 1)..high
    BY <1>7, <1>8, <1>9
  <2> QED
    BY <1>5, <2>1 DEF Audit!Page
<1> QED
  BY <1>3, <1>6, <1>10 DEF Audit!Rows

\* A merge that was red or has no receipt is in the verdict, or excused.
LEMMA FoundOrExcused ==
    ASSUME Audit!AuditAssumption, NEW rows, NEW again, Audit!Verdict(rows, again) # "incomplete",
           NEW p \in rows, merged[p] \in Int, merged[p] > Activation,
           p \in red \/ p \notin receipts
    PROVE  p \in Audit!Unregistered(rows, again) \/ Audit!Excused(p)
<1>1. Audit!Required(p)
  BY DEF Audit!Required
<1>2. /\ p \in red => "red" \in Audit!Findings(p)
      /\ p \notin receipts => "receipt" \in Audit!Findings(p)
  BY <1>1 DEF Audit!Findings
<1>3. CASE Audit!Collateral(p, rows, again)
  <2>1. Audit!Admitted(commit[p])
    BY <1>3 DEF Audit!Verdict
  <2>2. commit[p] # p
    BY <1>3 DEF Audit!Collateral
  <2>3. commit[p] \notin red
    BY <2>1 DEF Audit!Admitted, Audit!Findings
  <2> QED
    BY <2>1, <2>2, <2>3 DEF Audit!Excused, Audit!Admitted
<1>4. CASE Audit!Pardoned(p)
  BY <1>1, <1>2, <1>4 DEF Audit!Pardoned, Audit!Excused
<1> QED
  BY <1>2, <1>3, <1>4 DEF Audit!Unregistered

\* A page that was read has what was outstanding on it.
LEMMA PageKeeps ==
    ASSUME Audit!AuditAssumption, AuditInv, Audit!ReadPage
    PROVE  AuditInv'
<1>1. HistoryInv /\ PagesInv /\ audit \in Audits
  BY DEF AuditInv, Audit!ReadPage
<1>2. UNCHANGED <<auditClock, order, changed, merged, commit, red, receipts, moved>>
  BY DEF Audit!ReadPage
<1>3. HistoryInv'
  BY <1>1, <1>2 DEF HistoryInv, Audit!Times, Audit!Never, Audit!Closed
<1> DEFINE batch == Audit!Rows(Audit!Page(audit.page))
           rows == audit.rows \cup batch
           again == audit.again \cup (audit.rows \cap batch)
<1>4. batch \subseteq Pulls /\ rows \subseteq Pulls /\ again \subseteq Pulls
  BY <1>1 DEF Audit!Rows, Audit!Page, HistoryInv, Audits
<1>5. CASE ~Audit!LastPage(audit.page)
  <2>1. audit' = [audit EXCEPT !.rows = rows, !.again = again, !.page = @ + 1]
    BY <1>5 DEF Audit!ReadPage
  <2>2. /\ audit' \in Audits' /\ audit'.state = "reads" /\ audit'.now = audit.now
        /\ audit'.page = audit.page + 1 /\ audit'.rows = rows /\ audit.page \in Nat
    <3>1. audit.state = "reads"
      BY DEF Audit!ReadPage
    <3>2. audit.page \in Nat /\ audit.page + 1 \in Nat
      BY <1>1 DEF Audits
    <3> HIDE DEF batch, rows, again
    <3>3. audit' = [audit EXCEPT !.rows = rows, !.again = again, !.page = audit.page + 1]
      BY <2>1
    <3>4. audit' \in Audits
      BY <1>1, <1>4, <3>2, <3>3 DEF Audits
    <3>5. audit'.state = audit.state /\ audit'.now = audit.now
          /\ audit'.page = audit.page + 1 /\ audit'.rows = rows
      BY <1>1, <3>3 DEF Audits
    <3> QED
      BY <3>1, <3>2, <3>4, <3>5 DEF Audits, Audit!Times
  <2>3. Audit!Cutoff' = Audit!Cutoff
    BY <2>2 DEF Audit!Cutoff, Audit!LastHours
  <2>4. ASSUME NEW i \in DOMAIN order, Outstanding(order[i])
        PROVE  i > audit.page * PageSize \/ order[i] \in rows
    <3>1. i > (audit.page - 1) * PageSize \/ order[i] \in audit.rows
      BY <1>1, <2>4 DEF PagesInv
    <3>2. i \in Int /\ (audit.page - 1) * PageSize \in Int /\ audit.page * PageSize \in Int
      BY <1>1, <2>2 DEF HistoryInv, Audit!AuditAssumption
    <3>3. ((audit.page - 1) * PageSize < i /\ i <= audit.page * PageSize)
             => order[i] \in Audit!Page(audit.page)
      BY <3>2 DEF Audit!Page
    <3>4. order[i] \in Audit!Page(audit.page) => order[i] \in batch
      BY <2>4 DEF Audit!Rows, Outstanding
    <3> QED
      BY <3>1, <3>2, <3>3, <3>4
  <2> HIDE DEF batch, rows, again
  <2>5. PagesInv'
    <3>1. \A q : Outstanding(q)' => Outstanding(q)
      BY <1>2, <2>2, <2>3 DEF Outstanding
    <3>2. audit'.page # 0 /\ (audit'.page - 1) * PageSize = audit.page * PageSize
      BY <2>2
    <3>3. \A i \in DOMAIN order' : order'[i] = order[i] /\ i \in DOMAIN order
      BY <1>2
    <3> QED
      BY <1>1, <1>2, <2>2, <2>4, <3>1, <3>2, <3>3 DEF PagesInv
  <2>6. Audit!MissedOnlyIfMoved'
    BY <2>2 DEF Audit!MissedOnlyIfMoved
  <2> QED
    BY <1>3, <2>2, <2>5, <2>6 DEF AuditInv
<1>6. CASE Audit!LastPage(audit.page)
  <2>1. audit' = [audit EXCEPT !.rows = {}, !.again = {}, !.page = 0,
                               !.state = Audit!Verdict(rows, again),
                               !.found = Audit!Unregistered(rows, again)]
    BY <1>6 DEF Audit!ReadPage
  <2>2. Audit!Unregistered(rows, again) \subseteq rows
    BY DEF Audit!Unregistered
  <2>3. Audit!Verdict(rows, again) \in {"clean", "violations", "incomplete"}
    BY DEF Audit!Verdict
  <2>4. /\ audit'.state = Audit!Verdict(rows, again) /\ audit'.now = audit.now
        /\ audit'.found = Audit!Unregistered(rows, again) /\ audit' \in Audits'
    <3> HIDE DEF batch, rows, again
    <3> QED
      BY <1>1, <1>4, <2>1, <2>2, <2>3 DEF Audits, Audit!Times
  <2>5. ASSUME Audit!Verdict(rows, again) # "incomplete",
               NEW p \in Pulls, p \notin moved, merged[p] \in (Activation + 1)..audit.now,
               p \in red \/ p \notin receipts
        PROVE  p \in Audit!Unregistered(rows, again) \/ Audit!Excused(p)
    <3>1. p \in rows
      BY <1>1, <1>6, <2>5, NothingBehind
    <3>2. merged[p] \in Int /\ merged[p] > Activation
      BY <1>1, <2>5 DEF Audit!AuditAssumption
    <3> HIDE DEF batch, rows, again
    <3> QED
      BY <2>5, <3>1, <3>2, FoundOrExcused
  <2>6. \A p : Audit!Excused(p) => Audit!Excused(p)'
    BY <1>2 DEF Audit!Excused
  <2> HIDE DEF batch, rows, again
  <2>7. Audit!MissedOnlyIfMoved'
    BY <1>2, <2>4, <2>5, <2>6 DEF Audit!MissedOnlyIfMoved
  <2>8. audit'.state # "reads"
    BY <2>3, <2>4
  <2> QED
    BY <1>3, <2>4, <2>7, <2>8 DEF AuditInv
<1> QED
  BY <1>5, <1>6

\* Every step keeps the invariant of the audit.
LEMMA AuditKeeps == Audit!AuditAssumption /\ AuditInv /\ [Audit!Next]_(Audit!vars) => AuditInv'
<1> SUFFICES ASSUME Audit!AuditAssumption, AuditInv, [Audit!Next]_(Audit!vars) PROVE AuditInv'
  OBVIOUS
<1>1. ASSUME NEW p \in Pulls, NEW by,
             Audit!Merge(p) \/ Audit!Close(p) \/ Audit!Comment(p) \/ Audit!Absorb(p, by)
      PROVE  AuditInv'
  <2>1. /\ Audit!ToFront(p)
        /\ merged' = merged \/ (p \notin Audit!Closed /\ merged' = [merged EXCEPT ![p] = auditClock'])
    BY <1>1 DEF Audit!Merge, Audit!Close, Audit!Comment, Audit!Absorb
  <2> QED
    BY <2>1, FrontKeeps
<1>2. CASE Audit!Start
  <2>1. UNCHANGED <<auditClock, order, changed, merged, moved>>
    BY <1>2 DEF Audit!Start
  <2>2. HistoryInv' /\ HistoryInv
    BY <2>1 DEF AuditInv, HistoryInv, Audit!Times, Audit!Never, Audit!Closed
  <2>3. audit' = [state |-> "reads", now |-> auditClock, page |-> 1, rows |-> {},
                  again |-> {}, found |-> {}]
    BY <1>2 DEF Audit!Start
  <2>4. audit' \in Audits'
    BY <2>2, <2>3 DEF Audits, HistoryInv, Audit!Times
  <2>5. \A i \in DOMAIN order' : i > (1 - 1) * PageSize
    BY <2>1, <2>2 DEF HistoryInv, Audit!AuditAssumption
  <2>6. auditClock \in Int /\ auditClock' = auditClock
    BY <2>1, <2>2 DEF HistoryInv, Audit!Times
  <2>7. PagesInv'
    BY <2>3, <2>5, <2>6 DEF PagesInv
  <2>8. Audit!MissedOnlyIfMoved'
    BY <2>3 DEF Audit!MissedOnlyIfMoved
  <2> QED
    BY <2>2, <2>4, <2>7, <2>8 DEF AuditInv
<1>3. CASE UNCHANGED Audit!vars
  <2>1. UNCHANGED <<auditClock, order, changed, merged, commit, red, receipts, audit, moved>>
    BY <1>3 DEF Audit!vars
  <2>2. HistoryInv' /\ audit' \in Audits'
    BY <2>1 DEF AuditInv, HistoryInv, Audits, Audit!Times, Audit!Never, Audit!Closed
  <2>3. audit'.state = "reads" => PagesInv'
    BY <2>1 DEF AuditInv, PagesInv, Outstanding, Audit!Cutoff, Audit!LastHours
  <2>4. Audit!MissedOnlyIfMoved'
    BY <2>1 DEF AuditInv, Audit!MissedOnlyIfMoved, Audit!Excused
  <2> QED
    BY <2>2, <2>3, <2>4 DEF AuditInv
<1> QED
  BY <1>1, <1>2, <1>3, PageKeeps, ReopenKeeps DEF Audit!Next

\* A merge that was red or has no receipt, however old and however many are merged,
\* closed, commented on or opened again meanwhile, is found by the audit unless it
\* is itself updated while the pages are read, or moved forward over the edge of a
\* page by one that is opened again, or excused (merge-hygiene-audit.py, audit()).
THEOREM MissedOnlyMoved ==
    ASSUME Audit!AuditAssumption
    PROVE  /\ Audit!Spec => []Audit!MissedOnlyIfMoved
           /\ ListingsSpec => []MissedOnlyIfMoved
<1>1. Audit!Init => AuditInv
  BY AuditInit
<1>2. AuditInv /\ [Audit!Next]_(Audit!vars) => AuditInv'
  BY AuditKeeps
<1>3. AuditInv => Audit!MissedOnlyIfMoved
  BY DEF AuditInv
<1>4. ListingsInit => AuditInv
  BY <1>1 DEF ListingsInit
<1>5. AuditInv /\ [ListingsNext]_<<vars, auditVars, reader>> => AuditInv'
  BY <1>2 DEF ListingsNext, RescanStep, AuditStep, auditVars, Audit!vars
<1>6. AuditInv => MissedOnlyIfMoved
  BY <1>3 DEF MissedOnlyIfMoved
<1> QED
  BY <1>1, <1>2, <1>3, <1>4, <1>5, <1>6, PTL DEF Audit!Spec, ListingsSpec
=============================================================================
