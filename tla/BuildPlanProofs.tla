--------------------------- MODULE BuildPlanProofs ---------------------------
(***************************************************************************)
(* All jobs of a planned run judge one commit of a repository, and only    *)
(* the reviewed board is built, for any registries, requests and moves.    *)
(*                                                                         *)
(* The sources of different rows are resolved at different moments.  What  *)
(* makes them agree is that rows of one repository have one ref all along: *)
(* whatever replaces it replaces it in all of them.                        *)
(*                                                                         *)
(* What an image is built from (BuildInputs): two fingerprints agree only  *)
(* if the builds would take the same, for any trees, Dockerfiles and       *)
(* ignore files.  The tool runs through the rules of an ignore file, and   *)
(* BuildKit asks the last one that matches; that both say the same rests   *)
(* on the least rule count at which two runs of the loop could differ.     *)
(***************************************************************************)
EXTENDS PlanInputs, Integers, FiniteSetTheorems, WellFoundedInduction, TLAPS

Rows == builds \cup checks

\* Rows of a repository have one ref and one validation.
Agree(rows) ==
    \A x, y \in rows : x.repo = y.repo => x.ref = y.ref /\ x.validation = y.validation

\* Every image is accompanied by all the jobs of its validation.
Gated(B, C) ==
    \A b \in B : \A p \in PartsOf[b.validation] :
        [repo |-> b.repo, ref |-> b.ref, validation |-> b.validation, part |-> p] \in C

Planned == pc \notin {"plan", "refused"}

\* A checkout is that of a frozen row.
CheckoutInv ==
    /\ checkouts # {} => pc = "done"
    /\ \A s \in checkouts : \E row \in Rows :
          /\ s.repo = row.repo /\ s.commit = row.ref /\ s.validation = row.validation
          /\ s.image => row \in builds

BoardInv ==
    pc \in {"ops", "freeze", "done"} =>
        \A b \in builds : b.validation = Board => b.ref = Pin

PromoteInv ==
    request.promote /\ Planned =>
        /\ request.ref \in Commits /\ request.master
        /\ \A row \in Rows : row.ref = request.ref
        /\ pc = "done" => builds # {}

IInv ==
    /\ TypeOK
    /\ Agree(Rows)
    /\ Gated(builds, checks)
    /\ pc = "done" => \A row \in Rows : row.ref \in Commits
    /\ hasBuilds = (builds # {})
    /\ CheckoutInv
    /\ BoardInv
    /\ PromoteInv

-----------------------------------------------------------------------------
(* Rows whose refs are replaced.                                           *)

AnyRows == BuildRows \cup CheckRows

\* A row with another ref is that row, but for the ref.
LEMMA NewRef ==
    ASSUME NEW row \in AnyRows, NEW ref \in Refs
    PROVE  /\ [row EXCEPT !.ref = ref].repo = row.repo
           /\ [row EXCEPT !.ref = ref].ref = ref
           /\ [row EXCEPT !.ref = ref].validation = row.validation
           /\ row \in BuildRows => [row EXCEPT !.ref = ref] \in BuildRows
           /\ row \in CheckRows => [row EXCEPT !.ref = ref] \in CheckRows
<1> DEFINE new == [row EXCEPT !.ref = ref]
<1>1. row \in BuildRows => /\ new.repo = row.repo /\ new.ref = ref
                           /\ new.validation = row.validation /\ new \in BuildRows
  <2> SUFFICES ASSUME row \in BuildRows
               PROVE  /\ new.repo = row.repo /\ new.ref = ref
                      /\ new.validation = row.validation /\ new \in BuildRows
    OBVIOUS
  <2>1. new = [service |-> row.service, repo |-> row.repo,
               ref |-> ref, validation |-> row.validation]
    BY DEF BuildRows
  <2> HIDE DEF new
  <2> QED
    BY <2>1 DEF BuildRows
<1>2. row \in CheckRows => /\ new.repo = row.repo /\ new.ref = ref
                           /\ new.validation = row.validation /\ new \in CheckRows
  <2> SUFFICES ASSUME row \in CheckRows
               PROVE  /\ new.repo = row.repo /\ new.ref = ref
                      /\ new.validation = row.validation /\ new \in CheckRows
    OBVIOUS
  <2>1. new = [repo |-> row.repo, ref |-> ref,
               validation |-> row.validation, part |-> row.part]
    BY DEF CheckRows
  <2> HIDE DEF new
  <2> QED
    BY <2>1 DEF CheckRows
<1> HIDE DEF new
<1>3. QED
  BY <1>1, <1>2 DEF AnyRows, new

\* A resolved ref is a ref.
LEMMA ResolvedRef ==
    ASSUME TypeOK, NEW r \in Repos, NEW ref \in Refs
    PROVE  /\ Resolved(r, ref) \in Refs
           /\ ref \in Commits => Resolved(r, ref) = ref
  BY RegistryAssumption DEF TypeOK, Resolved, Refs

\* Replacing the source of a validation keeps what the rows agree on.
LEMMA SourceRows ==
    ASSUME NEW rows \in SUBSET AnyRows, NEW v, NEW c \in Refs
    PROVE  /\ \A x \in WithSource(rows, v, c) : \E row \in rows :
                 /\ x.repo = row.repo /\ x.validation = row.validation
                 /\ x.ref = IF row.validation = v THEN c ELSE row.ref
           /\ rows \subseteq BuildRows => WithSource(rows, v, c) \subseteq BuildRows
           /\ rows \subseteq CheckRows => WithSource(rows, v, c) \subseteq CheckRows
<1> DEFINE new(row) == IF row.validation = v THEN c ELSE row.ref
<1>1. \A row \in rows : /\ new(row) \in Refs
                        /\ [row EXCEPT !.ref = IF row.validation = v THEN c ELSE @]
                             = [row EXCEPT !.ref = new(row)]
  BY DEF AnyRows, BuildRows, CheckRows
<1>2. \A x \in WithSource(rows, v, c) : \E row \in rows :
          /\ x.repo = row.repo /\ x.validation = row.validation /\ x.ref = new(row)
          /\ row \in BuildRows => x \in BuildRows
          /\ row \in CheckRows => x \in CheckRows
  <2> SUFFICES ASSUME NEW row \in rows
               PROVE  LET x == [row EXCEPT !.ref = IF row.validation = v THEN c ELSE @] IN
                      /\ x.repo = row.repo /\ x.validation = row.validation /\ x.ref = new(row)
                      /\ row \in BuildRows => x \in BuildRows
                      /\ row \in CheckRows => x \in CheckRows
    BY DEF WithSource
  <2> DEFINE x == [row EXCEPT !.ref = new(row)]
  <2>1. row \in AnyRows /\ new(row) \in Refs
    BY <1>1
  <2> HIDE DEF new
  <2>2. /\ x.repo = row.repo /\ x.validation = row.validation /\ x.ref = new(row)
        /\ row \in BuildRows => x \in BuildRows
        /\ row \in CheckRows => x \in CheckRows
    BY <2>1, NewRef
  <2> QED
    BY <1>1, <2>2
<1> QED
  BY <1>2

LEMMA SourceAgree ==
    ASSUME NEW rows \in SUBSET AnyRows, NEW v, NEW c \in Refs, Agree(rows)
    PROVE  Agree(WithSource(rows, v, c))
  BY SourceRows DEF Agree

LEMMA SourceGated ==
    ASSUME NEW B \in SUBSET BuildRows, NEW C \in SUBSET CheckRows,
           NEW v, NEW c \in Refs, Gated(B, C)
    PROVE  Gated(WithSource(B, v, c), WithSource(C, v, c))
<1> SUFFICES ASSUME NEW x \in WithSource(B, v, c), NEW p \in PartsOf[x.validation]
             PROVE  [repo |-> x.repo, ref |-> x.ref, validation |-> x.validation,
                     part |-> p] \in WithSource(C, v, c)
  BY DEF Gated
<1>1. PICK b \in B : /\ x.repo = b.repo /\ x.validation = b.validation
                     /\ x.ref = IF b.validation = v THEN c ELSE b.ref
  <2>1. B \in SUBSET AnyRows
    BY DEF AnyRows
  <2> QED
    BY <2>1, SourceRows
<1> DEFINE row == [repo |-> b.repo, ref |-> b.ref, validation |-> b.validation, part |-> p]
<1>2. row \in C
  BY <1>1 DEF Gated
<1>3. [row EXCEPT !.ref = IF row.validation = v THEN c ELSE @] \in WithSource(C, v, c)
  BY <1>2 DEF WithSource
<1>4. [row EXCEPT !.ref = IF row.validation = v THEN c ELSE @]
        = [repo |-> x.repo, ref |-> x.ref, validation |-> x.validation, part |-> p]
  BY <1>1
<1> QED
  BY <1>3, <1>4

\* Freezing a ref of a repository does so in all its rows.
LEMMA FrozenRows ==
    ASSUME NEW rows \in SUBSET AnyRows, NEW r, NEW ref, NEW c \in Refs
    PROVE  /\ \A x \in Frozen(rows, r, ref, c) : \E row \in rows :
                 /\ x.repo = row.repo /\ x.validation = row.validation
                 /\ x.ref = IF row.repo = r /\ row.ref = ref THEN c ELSE row.ref
           /\ rows \subseteq BuildRows => Frozen(rows, r, ref, c) \subseteq BuildRows
           /\ rows \subseteq CheckRows => Frozen(rows, r, ref, c) \subseteq CheckRows
<1> DEFINE new(row) == IF row.repo = r /\ row.ref = ref THEN c ELSE row.ref
<1>1. \A row \in rows : /\ new(row) \in Refs
                        /\ [row EXCEPT !.ref = IF row.repo = r /\ @ = ref THEN c ELSE @]
                             = [row EXCEPT !.ref = new(row)]
  BY DEF AnyRows, BuildRows, CheckRows
<1>2. \A x \in Frozen(rows, r, ref, c) : \E row \in rows :
          /\ x.repo = row.repo /\ x.validation = row.validation /\ x.ref = new(row)
          /\ row \in BuildRows => x \in BuildRows
          /\ row \in CheckRows => x \in CheckRows
  <2> SUFFICES ASSUME NEW row \in rows
               PROVE  LET x == [row EXCEPT !.ref = IF row.repo = r /\ @ = ref THEN c ELSE @] IN
                      /\ x.repo = row.repo /\ x.validation = row.validation /\ x.ref = new(row)
                      /\ row \in BuildRows => x \in BuildRows
                      /\ row \in CheckRows => x \in CheckRows
    BY DEF Frozen
  <2> DEFINE x == [row EXCEPT !.ref = new(row)]
  <2>1. row \in AnyRows /\ new(row) \in Refs
    BY <1>1
  <2> HIDE DEF new
  <2>2. /\ x.repo = row.repo /\ x.validation = row.validation /\ x.ref = new(row)
        /\ row \in BuildRows => x \in BuildRows
        /\ row \in CheckRows => x \in CheckRows
    BY <2>1, NewRef
  <2> QED
    BY <1>1, <2>2
<1> QED
  BY <1>2

LEMMA FrozenAgree ==
    ASSUME NEW rows \in SUBSET AnyRows, NEW r, NEW ref, NEW c \in Refs, Agree(rows)
    PROVE  Agree(Frozen(rows, r, ref, c))
  BY FrozenRows DEF Agree

LEMMA FrozenGated ==
    ASSUME NEW B \in SUBSET BuildRows, NEW C \in SUBSET CheckRows,
           NEW r, NEW ref, NEW c \in Refs, Gated(B, C)
    PROVE  Gated(Frozen(B, r, ref, c), Frozen(C, r, ref, c))
<1> SUFFICES ASSUME NEW x \in Frozen(B, r, ref, c), NEW p \in PartsOf[x.validation]
             PROVE  [repo |-> x.repo, ref |-> x.ref, validation |-> x.validation,
                     part |-> p] \in Frozen(C, r, ref, c)
  BY DEF Gated
<1>1. PICK b \in B : /\ x.repo = b.repo /\ x.validation = b.validation
                     /\ x.ref = IF b.repo = r /\ b.ref = ref THEN c ELSE b.ref
  <2>1. B \in SUBSET AnyRows
    BY DEF AnyRows
  <2> QED
    BY <2>1, FrozenRows
<1> DEFINE row == [repo |-> b.repo, ref |-> b.ref, validation |-> b.validation, part |-> p]
<1>2. row \in C
  BY <1>1 DEF Gated
<1>3. [row EXCEPT !.ref = IF row.repo = r /\ @ = ref THEN c ELSE @] \in Frozen(C, r, ref, c)
  BY <1>2 DEF Frozen
<1>4. [row EXCEPT !.ref = IF row.repo = r /\ @ = ref THEN c ELSE @]
        = [repo |-> x.repo, ref |-> x.ref, validation |-> x.validation, part |-> p]
  BY <1>1
<1> QED
  BY <1>3, <1>4

\* Rows of two kinds are replaced alike.
LEMMA SourceOfBoth ==
    ASSUME NEW B, NEW C, NEW v, NEW c
    PROVE  WithSource(B, v, c) \cup WithSource(C, v, c) = WithSource(B \cup C, v, c)
  BY DEF WithSource

LEMMA FrozenBoth ==
    ASSUME NEW B, NEW C, NEW r, NEW ref, NEW c
    PROVE  Frozen(B, r, ref, c) \cup Frozen(C, r, ref, c) = Frozen(B \cup C, r, ref, c)
  BY DEF Frozen

-----------------------------------------------------------------------------
(* The steps of the plan.                                                  *)

\* What is put into the plan by the planner.
LEMMA PlannedRows ==
    ASSUME TypeOK, Admissible
    PROVE  /\ PlannedBuilds \subseteq BuildRows /\ PlannedChecks \subseteq CheckRows
           /\ Agree(PlannedBuilds \cup PlannedChecks)
           /\ Gated(PlannedBuilds, PlannedChecks)
           /\ request.promote => /\ request.ref \in Commits /\ request.master
                 /\ \A x \in PlannedBuilds \cup PlannedChecks : x.ref = request.ref
<1>1. \A t \in Targets : RefOf(t) \in Refs
  BY RegistryAssumption DEF RefOf, TypeOK, Requests, Refs
<1>2. \A x \in PlannedBuilds : \E t \in Targets :
          /\ t \in Images /\ Selected(t)
          /\ x = [service |-> t.service, repo |-> t.repo, ref |-> RefOf(t),
                  validation |-> t.validation]
  BY DEF PlannedBuilds, Targets
<1>3. \A x \in PlannedChecks : \E t \in Targets : \E p \in PartsOf[t.validation] :
          x = [repo |-> t.repo, ref |-> RefOf(t), validation |-> t.validation, part |-> p]
  BY DEF PlannedChecks
<1>4. PlannedBuilds \subseteq BuildRows
  BY <1>1, <1>2 DEF BuildRows, Names, Repos, Validations
<1>5. PlannedChecks \subseteq CheckRows
  BY <1>1, <1>3 DEF CheckRows, Repos, Validations, Parts
<1>6. \A x \in PlannedBuilds \cup PlannedChecks : \E t \in Targets :
          x.repo = t.repo /\ x.ref = RefOf(t) /\ x.validation = t.validation
  BY <1>2, <1>3
<1>7. \A t, u \in Targets : t.repo = u.repo =>
          RefOf(t) = RefOf(u) /\ t.validation = u.validation
  BY RegistryAssumption DEF RefOf
<1>8. Agree(PlannedBuilds \cup PlannedChecks)
  BY <1>6, <1>7 DEF Agree
<1>9. Gated(PlannedBuilds, PlannedChecks)
  <2> SUFFICES ASSUME NEW t \in Images, Selected(t), NEW p \in PartsOf[t.validation]
               PROVE  [repo |-> t.repo, ref |-> RefOf(t), validation |-> t.validation,
                       part |-> p] \in PlannedChecks
    BY <1>2 DEF Gated
  <2> QED
    BY DEF PlannedChecks, Targets
<1>10. request.promote => \A t \in Targets : RefOf(t) = request.ref
  BY RegistryAssumption DEF RefOf, Admissible
<1> QED
  BY <1>4, <1>5, <1>6, <1>8, <1>9, <1>10 DEF Admissible

LEMMA InitInv == Init => IInv
<1> SUFFICES ASSUME Init PROVE IInv
  OBVIOUS
<1>1. moves \in 0..MaxMoves
  BY RegistryAssumption DEF Init
<1>2. TypeOK
  BY <1>1 DEF Init, TypeOK
<1> QED
  BY <1>2 DEF Init, IInv, Rows, Agree, Gated, Planned, CheckoutInv, BoardInv, PromoteInv

LEMMA PlanKeeps == IInv /\ PlanTargets => IInv'
<1> SUFFICES ASSUME IInv, PlanTargets PROVE IInv'
  OBVIOUS
<1>1. CASE ~(Admissible /\ PlannedChecks # {} /\ BaseGiven)
  <2>1. /\ pc = "plan" /\ pc' = "refused"
        /\ UNCHANGED <<request, heads, builds, checks, hasBuilds, opsSource, checkouts, moves>>
    BY <1>1 DEF PlanTargets, Refuse
  <2>2. checkouts = {}
    BY <2>1 DEF IInv, CheckoutInv
  <2>3. TypeOK' /\ Agree(Rows)' /\ Gated(builds, checks)' /\ (hasBuilds = (builds # {}))'
    BY <2>1 DEF IInv, TypeOK, Rows, Agree, Gated
  <2> QED
    BY <2>1, <2>2, <2>3 DEF IInv, CheckoutInv, BoardInv, PromoteInv, Planned
<1>2. CASE Admissible /\ PlannedChecks # {} /\ BaseGiven
  <2>1. /\ pc = "plan" /\ pc' = "board"
        /\ builds' = PlannedBuilds /\ checks' = PlannedChecks
        /\ hasBuilds' = (PlannedBuilds # {})
        /\ UNCHANGED <<request, heads, opsSource, checkouts, moves>>
    BY <1>2 DEF PlanTargets
  <2>2. checkouts = {}
    BY <2>1 DEF IInv, CheckoutInv
  <2>3. TypeOK'
    BY <1>2, <2>1, PlannedRows DEF IInv, TypeOK
  <2>4. Agree(Rows)' /\ Gated(builds, checks)' /\ PromoteInv'
    BY <1>2, <2>1, PlannedRows DEF IInv, Rows, Agree, Gated, PromoteInv
  <2> QED
    BY <2>1, <2>2, <2>3, <2>4 DEF IInv, CheckoutInv, BoardInv
<1> QED
  BY <1>1, <1>2

\* What is left of the board's images is built from the pin.
LEMMA SourcePinned ==
    ASSUME IInv, NEW row \in checks, NEW source, source = Resolved(row.repo, row.ref),
           NEW b \in Authorized(builds, source), b.validation = Board
    PROVE  b.ref = Pin
<1>1. builds \in SUBSET AnyRows /\ source \in Refs
  BY ResolvedRef DEF IInv, TypeOK, AnyRows, CheckRows
<1>2. b \in WithSource(builds, Board, source)
  BY DEF Authorized
<1>3. PICK x \in builds : b.validation = x.validation
                        /\ b.ref = IF x.validation = Board THEN source ELSE x.ref
  BY <1>1, <1>2, SourceRows
<1>4. PICK x2 \in WithSource(builds, Board, source) :
         x2 = b /\ (source = Pin \/ x2.validation # Board)
  BY DEF Authorized
<1> QED
  BY <1>3, <1>4

\* An image whose validation has jobs at all has rows that validate it.
LEMMA BoardHasGates ==
    ASSUME IInv, OfBoard = {}, NEW b \in builds
    PROVE  b.validation # Board
<1> SUFFICES ASSUME b.validation = Board PROVE FALSE
  OBVIOUS
<1>1. b.validation \in Validations
  BY DEF IInv, TypeOK, BuildRows
<1>2. PICK p : p \in PartsOf[Board]
  BY <1>1, RegistryAssumption DEF Validations
<1> DEFINE c == [repo |-> b.repo, ref |-> b.ref, validation |-> b.validation, part |-> p]
<1>3. c \in checks
  BY <1>2 DEF IInv, Gated
<1>4. c \in OfBoard
  BY <1>3 DEF OfBoard
<1> QED
  BY <1>4

\* All rows of a validation get its source.
LEMMA SourceStep ==
    ASSUME IInv, NEW row \in checks,
           NEW B \in SUBSET WithSource(builds, row.validation, Resolved(row.repo, row.ref)),
           NEW C, C = WithSource(checks, row.validation, Resolved(row.repo, row.ref))
    PROVE  /\ B \subseteq BuildRows /\ C \subseteq CheckRows
           /\ Agree(B \cup C) /\ Gated(B, C)
           /\ request.promote /\ Planned => \A x \in B \cup C : x.ref = request.ref
           /\ \A x \in B : x.validation # row.validation =>
                 \E b \in builds : x.validation = b.validation /\ x.ref = b.ref
<1> DEFINE v == row.validation
           c == Resolved(row.repo, row.ref)
           B1 == WithSource(builds, v, c)
           C1 == WithSource(checks, v, c)
<1>1. builds \in SUBSET BuildRows /\ checks \in SUBSET CheckRows
  BY DEF IInv, TypeOK
<1>2. c \in Refs /\ row.repo \in Repos /\ row.ref \in Refs
  BY <1>1, ResolvedRef DEF IInv, CheckRows
<1>3. builds \in SUBSET AnyRows /\ checks \in SUBSET AnyRows /\ Rows \in SUBSET AnyRows
  BY <1>1 DEF AnyRows, Rows
<1> HIDE DEF c, v
<1>4. B1 \subseteq BuildRows /\ C1 \subseteq CheckRows
  BY <1>1, <1>2, <1>3, SourceRows
<1>5. Agree(B1 \cup C1)
  <2>1. B1 \cup C1 = WithSource(Rows, v, c)
    BY SourceOfBoth DEF Rows
  <2>2. Agree(WithSource(Rows, v, c))
    <3>1. Agree(Rows)
      BY DEF IInv
    <3> QED
      BY <1>2, <1>3, <3>1, SourceAgree
  <2> QED
    BY <2>1, <2>2
<1>6. Gated(B1, C1)
  BY <1>1, <1>2, SourceGated DEF IInv
<1>7. request.promote /\ Planned => \A x \in B1 \cup C1 : x.ref = request.ref
  <2> SUFFICES ASSUME request.promote, Planned, NEW x \in B1 \cup C1
               PROVE  x.ref = request.ref
    OBVIOUS
  <2>1. /\ request.ref \in Commits /\ row.ref = request.ref
        /\ \A y \in Rows : y.ref = request.ref
    BY DEF IInv, PromoteInv, Rows
  <2>2. c = request.ref
    BY <1>2, <2>1, ResolvedRef DEF IInv, c
  <2>3. B1 \cup C1 = WithSource(Rows, v, c)
    BY SourceOfBoth DEF Rows
  <2>4. PICK y \in Rows : x.ref = IF y.validation = v THEN c ELSE y.ref
    <3>1. x \in WithSource(Rows, v, c)
      BY <2>3
    <3> HIDE DEF Rows
    <3> QED
      BY <1>2, <1>3, <3>1, SourceRows
  <2> QED
    BY <2>1, <2>2, <2>4
<1>8. \A x \in B1 : x.validation # v => \E b \in builds : x.validation = b.validation /\ x.ref = b.ref
  <2> SUFFICES ASSUME NEW x \in B1, x.validation # v
               PROVE  \E b \in builds : x.validation = b.validation /\ x.ref = b.ref
    OBVIOUS
  <2>1. PICK b \in builds : /\ x.validation = b.validation
                            /\ x.ref = IF b.validation = v THEN c ELSE b.ref
    BY <1>2, <1>3, SourceRows
  <2> QED
    BY <2>1
<1>9. B \subseteq B1
  BY DEF v, c
<1> HIDE DEF B1, C1
<1>10. Agree(B \cup C1) /\ Gated(B, C1)
  BY <1>5, <1>6, <1>9 DEF Agree, Gated
<1>11. C1 = C
  BY DEF C1, v, c
<1> QED
  BY <1>4, <1>7, <1>8, <1>9, <1>10, <1>11 DEF v

LEMMA BoardStep == IInv /\ AuthorizeBoard => IInv'
<1> SUFFICES ASSUME IInv, AuthorizeBoard PROVE IInv'
  OBVIOUS
<1>1. pc = "board" /\ checkouts = {} /\ UNCHANGED <<request, heads, opsSource, checkouts, moves>>
  BY DEF AuthorizeBoard, IInv, CheckoutInv
<1>2. CASE builds' = builds /\ checks' = checks /\ hasBuilds' = hasBuilds /\ pc' = "refused"
  <2>1. TypeOK' /\ Agree(Rows)' /\ Gated(builds, checks)' /\ (hasBuilds = (builds # {}))'
    BY <1>1, <1>2 DEF IInv, TypeOK, Rows, Agree, Gated
  <2> QED
    BY <1>1, <1>2, <2>1 DEF IInv, CheckoutInv, BoardInv, PromoteInv, Planned
<1>3. CASE OfBoard = {}
  <2>1. builds' = builds /\ checks' = checks /\ hasBuilds' = hasBuilds /\ pc' = "ops"
    BY <1>3 DEF AuthorizeBoard
  <2>2. TypeOK' /\ Agree(Rows)' /\ Gated(builds, checks)' /\ (hasBuilds = (builds # {}))'
    BY <1>1, <2>1 DEF IInv, TypeOK, Rows, Agree, Gated
  <2>3. \A b \in builds : b.validation # Board
    BY <1>3, BoardHasGates DEF IInv, OfBoard
  <2> QED
    BY <1>1, <2>1, <2>2, <2>3 DEF IInv, CheckoutInv, BoardInv, PromoteInv, Planned, Rows
<1>4. CASE OfBoard # {} /\ pc' # "refused"
  <2> DEFINE row == CHOOSE row \in OfBoard : TRUE
             source == Resolved(row.repo, row.ref)
  <2>1. row \in checks /\ row.validation = Board
    BY <1>4 DEF OfBoard
  <2>2. /\ builds' = Authorized(builds, source) /\ checks' = WithSource(checks, Board, source)
        /\ hasBuilds' = (builds' # {}) /\ pc' = "ops"
    BY <1>4 DEF AuthorizeBoard, Refuse
  <2> HIDE DEF row
  <2>3. builds' \in SUBSET WithSource(builds, Board, source)
    BY <2>2 DEF Authorized
  <2>4. /\ builds' \subseteq BuildRows /\ checks' \subseteq CheckRows
        /\ Agree(builds' \cup checks') /\ Gated(builds', checks')
        /\ request.promote /\ Planned => \A x \in builds' \cup checks' : x.ref = request.ref
    <3>1. /\ builds' \in SUBSET WithSource(builds, row.validation, Resolved(row.repo, row.ref))
          /\ checks' = WithSource(checks, row.validation, Resolved(row.repo, row.ref))
      BY <2>1, <2>2, <2>3
    <3> HIDE DEF source
    <3>2. row \in checks
      BY <2>1
    <3>3. \A B \in SUBSET WithSource(builds, row.validation, Resolved(row.repo, row.ref)) :
          \A C : C = WithSource(checks, row.validation, Resolved(row.repo, row.ref)) =>
             /\ B \subseteq BuildRows /\ C \subseteq CheckRows
             /\ Agree(B \cup C) /\ Gated(B, C)
             /\ request.promote /\ Planned => \A x \in B \cup C : x.ref = request.ref
      BY <3>2, SourceStep
    <3> QED
      BY <3>1, <3>3
  <2>5. \A b \in builds' : b.validation = Board => b.ref = Pin
    BY <2>1, <2>2, <1>1, SourcePinned
  <2>6. TypeOK' /\ Agree(Rows)' /\ Gated(builds, checks)'
    BY <1>1, <2>2, <2>4 DEF IInv, TypeOK, Rows, Gated
  <2>7. PromoteInv'
    BY <1>1, <2>2, <2>4 DEF IInv, PromoteInv, Planned, Rows
  <2> QED
    BY <1>1, <2>2, <2>5, <2>6, <2>7 DEF IInv, CheckoutInv, BoardInv
<1> QED
  BY <1>2, <1>3, <1>4 DEF AuthorizeBoard, Refuse

LEMMA OpsStep == IInv /\ ResolveOps => IInv'
<1> SUFFICES ASSUME IInv, ResolveOps PROVE IInv'
  OBVIOUS
<1>1. pc = "ops" /\ checkouts = {} /\ UNCHANGED <<request, heads, hasBuilds, checkouts, moves>>
  BY DEF ResolveOps, IInv, CheckoutInv
<1>2. CASE builds' = builds /\ checks' = checks /\ opsSource' = opsSource /\ pc' \in {"freeze", "refused"}
  <2>1. TypeOK' /\ Agree(Rows)' /\ Gated(builds, checks)' /\ (hasBuilds = (builds # {}))'
    BY <1>1, <1>2 DEF IInv, TypeOK, Rows, Agree, Gated
  <2> QED
    BY <1>1, <1>2, <2>1 DEF IInv, CheckoutInv, BoardInv, PromoteInv, Planned, Rows
<1>3. CASE OfOps # {} /\ pc' # "refused"
  <2> DEFINE row == CHOOSE row \in OfOps : TRUE
             source == Resolved(row.repo, row.ref)
  <2>1. row \in checks /\ row.validation = Ops
    BY <1>3 DEF OfOps
  <2>2. /\ builds' = WithSource(builds, Ops, source) /\ checks' = WithSource(checks, Ops, source)
        /\ opsSource' = source /\ pc' = "freeze"
    BY <1>3 DEF ResolveOps, Refuse
  <2> HIDE DEF row
  <2>3. /\ builds' \in SUBSET WithSource(builds, row.validation, Resolved(row.repo, row.ref))
        /\ checks' = WithSource(checks, row.validation, Resolved(row.repo, row.ref))
    BY <2>1, <2>2
  <2>4. source \in Refs
    BY <2>1, ResolvedRef DEF IInv, TypeOK, CheckRows
  <2> HIDE DEF source
  <2>5. row \in checks
    BY <2>1
  <2>6. \A B \in SUBSET WithSource(builds, row.validation, Resolved(row.repo, row.ref)) :
        \A C : C = WithSource(checks, row.validation, Resolved(row.repo, row.ref)) =>
           /\ B \subseteq BuildRows /\ C \subseteq CheckRows
           /\ Agree(B \cup C) /\ Gated(B, C)
           /\ request.promote /\ Planned => \A x \in B \cup C : x.ref = request.ref
           /\ \A x \in B : x.validation # row.validation =>
                 \E b \in builds : x.validation = b.validation /\ x.ref = b.ref
    BY <2>5, SourceStep
  <2>7. /\ builds' \subseteq BuildRows /\ checks' \subseteq CheckRows
        /\ Agree(builds' \cup checks') /\ Gated(builds', checks')
        /\ request.promote /\ Planned => \A x \in builds' \cup checks' : x.ref = request.ref
        /\ \A x \in builds' : x.validation # Ops =>
              \E b \in builds : x.validation = b.validation /\ x.ref = b.ref
    BY <2>1, <2>3, <2>6
  <2>8. TypeOK' /\ Agree(Rows)' /\ Gated(builds, checks)'
    BY <1>1, <2>2, <2>4, <2>7 DEF IInv, TypeOK, Rows, Gated
  <2>9. BoardInv'
    BY <1>1, <2>2, <2>7, RegistryAssumption DEF IInv, BoardInv
  <2>10. PromoteInv'
    BY <1>1, <2>2, <2>7 DEF IInv, PromoteInv, Planned, Rows
  <2>11. (hasBuilds = (builds # {}))'
    BY <1>1, <2>2 DEF IInv, WithSource
  <2> QED
    BY <1>1, <2>2, <2>8, <2>9, <2>10, <2>11 DEF IInv, CheckoutInv
<1> QED
  BY <1>1, <1>2, <1>3 DEF ResolveOps, Refuse

LEMMA FreezeStep == ASSUME IInv, NEW r \in Repos, NEW ref \in Refs, FreezeOne(r, ref) PROVE IInv'
<1> DEFINE c == Resolved(r, ref)
<1>1. /\ pc = "freeze" /\ pc' = "freeze" /\ checkouts = {}
      /\ builds' = Frozen(builds, r, ref, c) /\ checks' = Frozen(checks, r, ref, c)
      /\ UNCHANGED <<request, heads, hasBuilds, opsSource, checkouts, moves>>
  BY DEF FreezeOne, IInv, CheckoutInv
<1>2. ref \notin Commits
  BY DEF FreezeOne, Mutable
<1>3. c \in Refs
  BY ResolvedRef DEF IInv
<1> HIDE DEF c
<1>4. builds \in SUBSET BuildRows /\ checks \in SUBSET CheckRows
  BY DEF IInv, TypeOK
<1>5. builds \in SUBSET AnyRows /\ checks \in SUBSET AnyRows /\ Rows \in SUBSET AnyRows
  BY <1>4 DEF AnyRows, Rows
<1>6. builds' \subseteq BuildRows /\ checks' \subseteq CheckRows
  BY <1>1, <1>3, <1>4, <1>5, FrozenRows
<1>7. Agree(Rows)'
  <2>1. Rows' = Frozen(Rows, r, ref, c)
    BY <1>1, FrozenBoth DEF Rows
  <2>2. Agree(Frozen(Rows, r, ref, c))
    <3>1. Agree(Rows)
      BY DEF IInv
    <3> QED
      BY <1>3, <1>5, <3>1, FrozenAgree
  <2> QED
    BY <2>1, <2>2 DEF Agree
<1>8. Gated(builds, checks)'
  <2>1. Gated(builds, checks)
    BY DEF IInv
  <2>2. Gated(Frozen(builds, r, ref, c), Frozen(checks, r, ref, c))
    BY <1>3, <1>4, <2>1, FrozenGated
  <2> QED
    BY <1>1, <2>2 DEF Gated
<1>9. BoardInv'
  <2> SUFFICES ASSUME NEW x \in builds', x.validation = Board PROVE x.ref = Pin
    BY DEF BoardInv
  <2>1. PICK b \in builds : /\ x.validation = b.validation
                            /\ x.ref = IF b.repo = r /\ b.ref = ref THEN c ELSE b.ref
    BY <1>1, <1>3, <1>5, FrozenRows
  <2>2. b.ref = Pin
    BY <1>1, <2>1 DEF IInv, BoardInv
  <2> QED
    BY <1>2, <2>1, <2>2, RegistryAssumption
<1>10. PromoteInv'
  <2>1. request.promote => /\ request.ref \in Commits /\ request.master
                           /\ \A y \in Rows : y.ref = request.ref
    BY <1>1 DEF IInv, PromoteInv, Planned
  <2>2. Rows' = Frozen(Rows, r, ref, c)
    BY <1>1, FrozenBoth DEF Rows
  <2>3. ASSUME request.promote, NEW x \in Rows' PROVE x.ref = request.ref
    <3>1. PICK y \in Rows : x.ref = IF y.repo = r /\ y.ref = ref THEN c ELSE y.ref
      <4> HIDE DEF Rows
      <4> QED
        BY <1>3, <1>5, <2>2, FrozenRows
    <3> QED
      BY <1>2, <2>1, <2>3, <3>1
  <2>4. request.promote => \A x \in Rows' : x.ref = request.ref
    BY <2>3
  <2> QED
    BY <1>1, <2>1, <2>4 DEF PromoteInv, Planned
<1>11. (hasBuilds = (builds # {}))'
  BY <1>1 DEF IInv, Frozen
<1>12. TypeOK'
  BY <1>1, <1>6 DEF IInv, TypeOK
<1>13. PromoteInv' /\ CheckoutInv'
  BY <1>1, <1>10 DEF CheckoutInv
<1> QED
  BY <1>1, <1>7, <1>8, <1>9, <1>11, <1>12, <1>13 DEF IInv

LEMMA CheckoutStep ==
    ASSUME IInv, NEW row \in Rows, NEW image \in BOOLEAN, image => row \in builds,
           Checkout(row, image)
    PROVE  IInv'
<1>1. /\ pc = "done"
      /\ UNCHANGED <<request, pc, heads, builds, checks, hasBuilds, opsSource, moves>>
      /\ checkouts' = checkouts \cup {[repo |-> row.repo, commit |-> Resolved(row.repo, row.ref),
                                       image |-> image, validation |-> row.validation]}
  BY DEF Checkout
<1>2. row.ref \in Commits
  BY <1>1 DEF IInv
<1>3. row.repo \in Repos /\ row.validation \in Validations /\ Resolved(row.repo, row.ref) = row.ref
  <2>1. row.repo \in Repos /\ row.validation \in Validations /\ row.ref \in Refs
    BY DEF IInv, TypeOK, Rows, BuildRows, CheckRows
  <2> QED
    BY <1>2, <2>1, ResolvedRef DEF IInv
<1>4. TypeOK'
  BY <1>1, <1>2, <1>3 DEF IInv, TypeOK, Sources
<1>5. CheckoutInv'
  BY <1>1, <1>3 DEF IInv, CheckoutInv, Rows
<1> QED
  BY <1>1, <1>4, <1>5 DEF IInv, BoardInv, PromoteInv, Planned, Rows, Agree, Gated

LEMMA NextStep == IInv /\ [Next]_vars => IInv'
<1> SUFFICES ASSUME IInv, [Next]_vars PROVE IInv'
  OBVIOUS
<1>1. CASE Publish \/ CallFails
  <2>1. /\ checkouts = {} /\ pc \in {"board", "ops", "freeze"} /\ pc' \in {"done", "refused"}
        /\ UNCHANGED <<request, heads, builds, checks, hasBuilds, opsSource, checkouts, moves>>
        /\ pc' = "done" => /\ pc = "freeze" /\ Mutable = {} /\ (request.promote => hasBuilds)
    BY <1>1 DEF Publish, CallFails, Refuse, IInv, CheckoutInv
  <2>2. pc' = "done" => \A row \in Rows : row.ref \in Commits
    BY <2>1 DEF Mutable, Rows
  <2>3. TypeOK' /\ Agree(Rows)' /\ Gated(builds, checks)' /\ (hasBuilds = (builds # {}))'
    BY <2>1 DEF IInv, TypeOK, Rows, Agree, Gated
  <2> QED
    BY <2>1, <2>2, <2>3 DEF IInv, CheckoutInv, BoardInv, PromoteInv, Planned, Rows
<1>2. CASE Validate \/ Build
  BY <1>2, CheckoutStep DEF Validate, Build, Rows
<1>3. ASSUME NEW r \in Repos, NEW b \in Branches, Move(r, b) PROVE IInv'
  <2>1. /\ UNCHANGED <<request, pc, builds, checks, hasBuilds, opsSource, checkouts>>
        /\ moves < MaxMoves /\ moves' = moves + 1
    BY <1>3 DEF Move
  <2>2. heads' \in [Repos -> [Branches -> Commits]]
    <3>1. PICK c \in CommitsOf[r] : heads' = [heads EXCEPT ![r][b] = c]
      BY <1>3 DEF Move
    <3>2. c \in Commits
      BY RegistryAssumption
    <3>3. heads \in [Repos -> [Branches -> Commits]]
      BY DEF IInv, TypeOK
    <3> QED
      BY <3>1, <3>2, <3>3
  <2>3. moves' \in 0..MaxMoves
    BY <2>1, RegistryAssumption DEF IInv, TypeOK
  <2>4. TypeOK'
    BY <2>1, <2>2, <2>3 DEF IInv, TypeOK
  <2> QED
    BY <2>1, <2>4 DEF IInv, CheckoutInv, BoardInv, PromoteInv, Planned, Rows, Agree, Gated
<1>4. CASE UNCHANGED vars
  BY <1>4 DEF vars, IInv, TypeOK, CheckoutInv, BoardInv, PromoteInv, Planned, Rows, Agree, Gated
<1> QED
  BY <1>1, <1>2, <1>3, <1>4, PlanKeeps, BoardStep, OpsStep, FreezeStep DEF Next

THEOREM PlanInvariant == Spec => []IInv
<1>1. Init => IInv
  BY InitInv
<1>2. IInv /\ [Next]_vars => IInv'
  BY NextStep
<1> QED
  BY <1>1, <1>2, PTL DEF Spec

-----------------------------------------------------------------------------
\* The variables of the plan keep their types.
THEOREM PlanTypeCorrect == Spec => []TypeOK
<1>1. IInv => TypeOK
  BY DEF IInv
<1> QED
  BY <1>1, PlanInvariant, PTL

\* However branches move, what a run builds is what it validated.
THEOREM OneSource == Spec => []JobsJudgeOneSource
<1>1. IInv => JobsJudgeOneSource
  BY DEF IInv, CheckoutInv, Agree, JobsJudgeOneSource
<1> QED
  BY <1>1, PlanInvariant, PTL

\* Only the reviewed board is ever built.
THEOREM PinnedBoard == Spec => []BoardBuiltOnlyAtPin
<1>1. IInv => BoardBuiltOnlyAtPin
  BY DEF IInv, CheckoutInv, BoardInv, BoardBuiltOnlyAtPin
<1> QED
  BY <1>1, PlanInvariant, PTL

\* A promotion builds the commit that was named, and nothing else.
THEOREM NamedPromotion == Spec => []PromotesWhatWasNamed
<1>1. IInv => PromotesWhatWasNamed
  BY DEF IInv, CheckoutInv, PromoteInv, Planned, PromotesWhatWasNamed
<1> QED
  BY <1>1, PlanInvariant, PTL

\* An image is scheduled with all that validates its source.
THEOREM GatesKept == Spec => []EveryBuildHasItsGates
<1>1. IInv => EveryBuildHasItsGates
  BY DEF IInv, Gated, EveryBuildHasItsGates
<1> QED
  BY <1>1, PlanInvariant, PTL

-----------------------------------------------------------------------------
(* The rules of an ignore file, as BuildKit and as the tool read them.     *)

\* The least of some natural numbers.
LEMMA LeastNumber ==
    ASSUME NEW T, T \subseteq Nat, T # {}
    PROVE  \E x \in T : \A y \in T : x <= y
<1>1. PICK x \in T : \A y \in T : ~ (<<y, x>> \in OpToRel(<, Nat))
  BY NatLessThanWellFounded, WFMin, Zenon
<1>2. \A y \in T : ~ (y < x)
  BY <1>1 DEF OpToRel
<1> QED
  BY <1>2

\* What the last matching rule up to n says of a path.
LastSays(rules, p, n) ==
    \E k \in 1..n : /\ I!Matches(rules[k], p) /\ rules[k].negate = FALSE
                    /\ \A m \in 1..n : I!Matches(rules[m], p) => m <= k

\* One more rule: it decides if it matches, and is not asked if it would say
\* what has been said.
LEMMA OneMoreRule ==
    ASSUME NEW rules, NEW p, NEW n \in Nat, n # 0, rules[n].negate \in BOOLEAN
    PROVE  LastSays(rules, p, n)
              <=> IF I!Matches(rules[n], p) THEN rules[n].negate = FALSE
                  ELSE LastSays(rules, p, n - 1)
<1>1. 1..n = (1..(n - 1)) \cup {n}
  OBVIOUS
<1>2. CASE I!Matches(rules[n], p)
  <2>1. \A k \in 1..n : (\A m \in 1..n : I!Matches(rules[m], p) => m <= k) => k = n
    BY <1>2
  <2>2. \A m \in 1..n : m <= n
    OBVIOUS
  <2> QED
    BY <1>1, <1>2, <2>1, <2>2 DEF LastSays
<1>3. CASE ~I!Matches(rules[n], p)
  BY <1>1, <1>3 DEF LastSays
<1> QED
  BY <1>2, <1>3

\* The loop of IgnoreRules over the rules, as a function of their number.
IsRuleLoop(f, rules, p) ==
    f = [n \in 0..Len(rules) |->
           IF n = 0 THEN FALSE
           ELSE IF rules[n].negate # f[n - 1] THEN f[n - 1]
           ELSE IF I!Matches(rules[n], p) THEN ~rules[n].negate
           ELSE f[n - 1]]

RuleAnswers(rules, p) ==
    [n \in 0..Len(rules) |-> IF LastSays(rules, p, n) THEN TRUE ELSE FALSE]

LEMMA LastSaysIsLoop ==
    ASSUME NEW rules, I!IsIgnoreFile(rules), NEW p
    PROVE  IsRuleLoop(RuleAnswers(rules, p), rules, p)
<1> DEFINE g == RuleAnswers(rules, p)
<1>1. Len(rules) \in Nat /\ \A n \in 1..Len(rules) : rules[n].negate \in BOOLEAN
  BY DEF I!IsIgnoreFile
<1>2. \A n \in 0..Len(rules) : g[n] = IF LastSays(rules, p, n) THEN TRUE ELSE FALSE
  BY DEF RuleAnswers
<1>3. ~LastSays(rules, p, 0)
  BY DEF LastSays
<1>4. ASSUME NEW n \in 0..Len(rules), n # 0
      PROVE  g[n] = IF rules[n].negate # g[n - 1] THEN g[n - 1]
                    ELSE IF I!Matches(rules[n], p) THEN ~rules[n].negate
                    ELSE g[n - 1]
  <2>1. n \in Nat /\ n - 1 \in 0..Len(rules) /\ rules[n].negate \in BOOLEAN
    BY <1>1, <1>4
  <2>2. LastSays(rules, p, n) <=> IF I!Matches(rules[n], p) THEN rules[n].negate = FALSE
                                  ELSE LastSays(rules, p, n - 1)
    BY <1>4, <2>1, OneMoreRule
  <2>3. /\ g[n] = IF LastSays(rules, p, n) THEN TRUE ELSE FALSE
        /\ g[n - 1] = IF LastSays(rules, p, n - 1) THEN TRUE ELSE FALSE
    BY <1>2, <2>1
  <2> HIDE DEF g
  <2> QED
    BY <2>1, <2>2, <2>3
<1>5. g = [n \in 0..Len(rules) |-> g[n]]
  BY DEF RuleAnswers
<1>6. g[0] = FALSE
  <2>1. 0 \in 0..Len(rules)
    BY <1>1
  <2> HIDE DEF g
  <2> QED
    BY <1>2, <1>3, <2>1
<1> HIDE DEF g
<1>7. IsRuleLoop(g, rules, p)
  BY <1>4, <1>5, <1>6 DEF IsRuleLoop
<1> QED
  BY <1>7 DEF g

\* The loop has one outcome.
LEMMA OneRuleLoop ==
    ASSUME NEW rules, I!IsIgnoreFile(rules), NEW p, NEW f, NEW g,
           IsRuleLoop(f, rules, p), IsRuleLoop(g, rules, p)
    PROVE  f[Len(rules)] = g[Len(rules)]
<1> DEFINE len == Len(rules)
           apart == {n \in 0..len : f[n] # g[n]}
<1>1. len \in Nat
  BY DEF I!IsIgnoreFile
<1>2. SUFFICES ASSUME apart # {} PROVE FALSE
  BY <1>1
<1>3. PICK n \in apart : \A m \in apart : n <= m
  <2>1. apart \subseteq Nat
    BY <1>1
  <2> HIDE DEF apart
  <2> QED
    BY <1>2, <2>1, LeastNumber
<1>4. n # 0
  BY DEF IsRuleLoop
<1>5. n - 1 \in 0..len /\ f[n - 1] = g[n - 1]
  BY <1>1, <1>3, <1>4
<1> QED
  BY <1>1, <1>4, <1>5 DEF IsRuleLoop

\* IgnoreRules: the loop over the rules ends with what the last matching rule
\* says.
LEMMA IgnoredByLast ==
    ASSUME NEW rules, I!IsIgnoreFile(rules), NEW p
    PROVE  I!Ignored(rules, p) <=> LastSays(rules, p, Len(rules))
<1> DEFINE P(f) == f = [n \in 0..Len(rules) |->
                          IF n = 0 THEN FALSE
                          ELSE IF rules[n].negate # f[n - 1] THEN f[n - 1]
                          ELSE IF I!Matches(rules[n], p) THEN ~rules[n].negate
                          ELSE f[n - 1]]
           after == CHOOSE f : P(f)
<1>1. P(RuleAnswers(rules, p))
  BY LastSaysIsLoop DEF IsRuleLoop
<1>2. P(after)
  <2> HIDE DEF P
  <2> QED
    BY <1>1, Zenon
<1>3. I!Ignored(rules, p) = after[Len(rules)]
  BY Zenon DEF I!Ignored
<1>4. IsRuleLoop(after, rules, p)
  <2> HIDE DEF after
  <2> QED
    BY <1>2 DEF IsRuleLoop
<1> HIDE DEF after
<1>5. after[Len(rules)] = RuleAnswers(rules, p)[Len(rules)]
  BY <1>4, OneRuleLoop, LastSaysIsLoop
<1>6. Len(rules) \in 0..Len(rules)
  BY DEF I!IsIgnoreFile
<1> QED
  BY <1>3, <1>5, <1>6 DEF RuleAnswers

-----------------------------------------------------------------------------
(* What a build takes of the context is what was fingerprinted.            *)

\* A tree that commits make.
WellFormed(t) ==
    /\ t = [p \in Paths |-> t[p]]
    /\ t[Dockerfile] # Missing => I!IsDockerfile(t[Dockerfile].oid)
    /\ \A p \in {OwnIgnore, RootIgnore} : t[p] # Missing => I!IsIgnoreFile(t[p].oid)

\* The rules the tool reads are those that BuildKit reads.
LEMMA RulesOfTree ==
    ASSUME I!TreesAssumption, NEW t, WellFormed(t)
    PROVE  /\ I!IsIgnoreFile(I!Rules(t))
           /\ I!Rules(t) = IF t[OwnIgnore] # Missing THEN t[OwnIgnore].oid
                           ELSE IF t[RootIgnore] # Missing THEN t[RootIgnore].oid ELSE <<>>
<1>1. OwnIgnore # Missing /\ RootIgnore # Missing
  BY DEF I!TreesAssumption
<1>2. I!IsIgnoreFile(<<>>)
  BY DEF I!IsIgnoreFile
<1>3. I!Rules(t) = IF t[OwnIgnore] # Missing THEN t[OwnIgnore].oid
                   ELSE IF t[RootIgnore] # Missing THEN t[RootIgnore].oid ELSE <<>>
  BY <1>1 DEF I!Rules, I!IgnorePath
<1> QED
  BY <1>2, <1>3 DEF WellFormed

\* What the last of some rules says of a file.
Included(rules, p) ==
    LET hits == {n \in DOMAIN rules : I!Matches(rules[n], p)}
    IN hits = {} \/ rules[CHOOSE n \in hits : \A m \in hits : m <= n].negate

\* A file is part of the context unless the rules end with its exclusion.
LEMMA VisibleIsNotIgnored ==
    ASSUME I!TreesAssumption, NEW t, WellFormed(t), NEW p
    PROVE  I!Visible(t, p) <=> ~I!Ignored(I!Rules(t), p)
<1> DEFINE rules == I!Rules(t)
           hits == {n \in DOMAIN rules : I!Matches(rules[n], p)}
           last == CHOOSE n \in hits : \A m \in hits : m <= n
<1>1. /\ Len(rules) \in Nat /\ DOMAIN rules = 1..Len(rules)
      /\ \A n \in DOMAIN rules : rules[n].negate \in BOOLEAN
  BY RulesOfTree DEF I!IsIgnoreFile
<1>2. I!Ignored(I!Rules(t), p) <=> LastSays(rules, p, Len(rules))
  BY RulesOfTree, IgnoredByLast
<1>3. I!Visible(t, p) <=> (hits = {} \/ rules[last].negate)
  <2> DEFINE read == IF t[OwnIgnore] # Missing THEN t[OwnIgnore].oid
                     ELSE IF t[RootIgnore] # Missing THEN t[RootIgnore].oid ELSE <<>>
  <2>1. I!Visible(t, p) <=> Included(read, p)
    BY Zenon DEF I!Visible, Included
  <2>2. read = I!Rules(t)
    BY RulesOfTree
  <2>3. Included(I!Rules(t), p) <=> (hits = {} \/ rules[last].negate)
    BY Zenon DEF Included
  <2> HIDE DEF read
  <2> QED
    BY <2>1, <2>2, <2>3, Zenon
<1> HIDE DEF rules
<1>4. CASE hits = {}
  BY <1>1, <1>2, <1>3, <1>4 DEF LastSays
<1>5. CASE hits # {}
  <2> DEFINE below == {Len(rules) - n : n \in hits}
  <2>1. below \subseteq Nat /\ below # {}
    BY <1>1, <1>5
  <2>2. PICK x \in below : \A y \in below : x <= y
    <3> HIDE DEF below
    <3> QED
      BY <2>1, LeastNumber
  <2>3. PICK n \in hits : x = Len(rules) - n
    OBVIOUS
  <2>4. \A m \in hits : Len(rules) - n <= Len(rules) - m
    BY <2>2, <2>3
  <2>5. \A m \in hits : m <= n
    BY <1>1, <2>4
  <2>6. last \in hits /\ \A m \in hits : m <= last
    <3> HIDE DEF hits
    <3> QED
      BY <2>5
  <2> HIDE DEF last
  <2>7. \A k \in hits : (\A m \in hits : m <= k) => k = last
    BY <1>1, <2>6
  <2>8. LastSays(rules, p, Len(rules)) <=> rules[last].negate = FALSE
    BY <1>1, <2>6, <2>7 DEF LastSays
  <2> QED
    BY <1>1, <1>2, <1>3, <1>5, <2>6, <2>8
<1> QED
  BY <1>4, <1>5 DEF rules

\* compute(): what a fingerprint says, when there is one.
LEMMA FingerprintSays ==
    ASSUME NEW t, NEW unit, I!Fingerprint(t, unit) # Unknown
    PROVE  LET d == t[Dockerfile].oid
               fp == I!Fingerprint(t, unit)
               sources == I!ContextSources(d)
               attributes == {p \in Attributes : t[p] # Missing}
           IN  /\ t # Unknown /\ t[Dockerfile] # Missing
               /\ I!Problems(d) = {}
               /\ \A p \in attributes : t[p].oid # "filter"
               /\ unit # "" => \A s \in sources : s = unit \/ (s \in Paths /\ I!In(s, unit))
               /\ fp.dockerfile = d
               /\ fp.attributes = {<<p, t[p].oid>> :
                      p \in {q \in attributes : unit = "" \/ I!InUnit(q, unit)}}
               /\ fp.files = {<<p, t[p]>> :
                      p \in {q \in Paths : /\ t[q] # Missing
                                           /\ unit = "" \/ I!InUnit(q, unit)
                                           /\ I!Selected(q, sources)
                                           /\ ~I!Ignored(I!Rules(t), q)}}
BY DEF I!Fingerprint

\* The context a source names lies in the scope of the fingerprint.
LEMMA ContextIsFingerprinted ==
    ASSUME I!TreesAssumption, NEW t, WellFormed(t), NEW unit \in Scopes,
           I!Fingerprint(t, unit) # Unknown,
           NEW s \in I!ContextSources(t[Dockerfile].oid), I!Followed(t, s) = s
    PROVE  I!ContextOf(t, s)
              = {x \in I!Fingerprint(t, unit).files : s = "." \/ I!In(x[1], s)}
<1> DEFINE sources == I!ContextSources(t[Dockerfile].oid)
           files == {q \in Paths : /\ t[q] # Missing
                                   /\ unit = "" \/ I!InUnit(q, unit)
                                   /\ I!Selected(q, sources)
                                   /\ ~I!Ignored(I!Rules(t), q)}
           context == {q \in Paths : /\ t[q] # Missing /\ I!Visible(t, q)
                                     /\ s = "." \/ I!In(q, s)}
<1>1. /\ I!Fingerprint(t, unit).files = {<<p, t[p]>> : p \in files}
      /\ unit # "" => s = unit \/ (s \in Paths /\ I!In(s, unit))
  BY FingerprintSays
<1>2. I!ContextOf(t, s) = {<<p, t[p]>> : p \in context}
  BY DEF I!ContextOf
<1>3. \A q \in Paths : I!Visible(t, q) <=> ~I!Ignored(I!Rules(t), q)
  BY VisibleIsNotIgnored
<1>4. \A q \in Paths : s = "." \/ I!In(q, s) => I!Selected(q, sources)
  BY DEF I!Selected
<1>5. ASSUME NEW q \in Paths, unit # "", s = "." \/ I!In(q, s)
      PROVE  I!InUnit(q, unit)
  <2>1. s # "."
    BY <1>1, <1>5 DEF I!TreesAssumption
  <2>2. I!In(q, unit)
    BY <1>1, <1>5, <2>1 DEF I!In, I!TreesAssumption
  <2> QED
    BY <2>2 DEF I!InUnit
<1>6. context = {q \in files : s = "." \/ I!In(q, s)}
  BY <1>3, <1>4, <1>5
<1> HIDE DEF files, context
<1>7. \A q : <<q, t[q]>>[1] = q
  OBVIOUS
<1>8. ASSUME NEW x
      PROVE  x \in I!ContextOf(t, s)
                <=> x \in I!Fingerprint(t, unit).files /\ (s = "." \/ I!In(x[1], s))
  BY <1>1, <1>2, <1>6, <1>7
<1> QED
  BY <1>8

-----------------------------------------------------------------------------
(* Equal fingerprints, equal builds.                                       *)

\* What an instruction takes that cannot move: nothing, an image by its digest,
\* a download by its checksum, or files of the context.
Pinned(d, i, context) ==
    IF d[i].op = "ONBUILD" THEN {}
    ELSE IF d[i].image # "" THEN IF I!Internal(d, i) THEN {} ELSE {<<d[i].image, 0>>}
    ELSE IF d[i].src = "remote" THEN {<<"remote", 0>>}
    ELSE IF d[i].src \in {"", "heredoc"} THEN {}
    ELSE context

LEMMA TakenCannotMove ==
    ASSUME NEW t, WellFormed(t), t[Dockerfile] # Missing, I!Foreseen(t),
           I!Problems(t[Dockerfile].oid) = {}, ~I!Floating(t[Dockerfile].oid),
           NEW i \in DOMAIN t[Dockerfile].oid, NEW w
    PROVE  I!Taken(t[Dockerfile].oid, i, t, w)
              = Pinned(t[Dockerfile].oid, i, I!ContextOf(t, t[Dockerfile].oid[i].src))
<1> DEFINE d == t[Dockerfile].oid
<1>1. /\ d[i].op \in {"SYNTAX", "FROM", "COPY", "ADD", "RUN", "ONBUILD"}
      /\ d[i].op \in {"SYNTAX", "FROM"} => d[i].src = "" /\ d[i].opt = ""
      /\ d[i].op = "ONBUILD" => d[i].image = ""
      /\ d[i].opt = "secret" => d[i].op = "RUN"
      /\ d[i].src = "remote" => d[i].op \in {"COPY", "ADD"}
  BY DEF WellFormed, I!IsDockerfile
<1>2. ~I!Problem(d, i)
  BY DEF I!Problems
<1>3. /\ d[i].op = "RUN" => d[i].image = "" \/ I!Internal(d, i)
      /\ d[i].op = "ONBUILD" => ~I!Fires(d, i)
      /\ d[i].op = "SYNTAX" => d[i].image \in PinnedImages
  BY DEF I!Foreseen, I!Floating
<1>4. d[i].image # "" /\ ~I!Internal(d, i) => d[i].image \in PinnedImages
  BY <1>1, <1>2, <1>3 DEF I!Problem, I!Copies
<1>5. d[i].op # "ONBUILD" /\ d[i].image = "" => d[i].opt # "secret" /\ d[i].src # "variable"
  BY <1>1, <1>2 DEF I!Problem, I!Copies
<1>6. d[i].image = "" /\ d[i].src = "remote" => d[i].opt = "checksum"
  BY <1>1, <1>2 DEF I!Problem, I!Copies
<1>7. CASE d[i].op = "ONBUILD"
  BY <1>3, <1>7 DEF I!Taken, Pinned
<1>8. CASE d[i].op # "ONBUILD"
  BY <1>4, <1>5, <1>6, <1>8 DEF I!Taken, Pinned
<1> QED
  BY <1>7, <1>8

\* A build of a tree takes what its fingerprint says.
LEMMA SameFingerprintSameBuild ==
    ASSUME I!TreesAssumption, scope \in Scopes,
           NEW t, WellFormed(t), I!Foreseen(t), NEW u, WellFormed(u), I!Foreseen(u),
           I!Fingerprint(t, scope) # Unknown, I!Fingerprint(t, scope) = I!Fingerprint(u, scope),
           ~I!Floating(t[Dockerfile].oid), NEW w, NEW v
    PROVE  I!Build(t, w) = I!Build(u, v)
<1> DEFINE d == t[Dockerfile].oid
           fp == I!Fingerprint(t, scope)
<1>1. /\ t[Dockerfile] # Missing /\ u[Dockerfile] # Missing
      /\ I!Problems(d) = {} /\ u[Dockerfile].oid = d
  BY FingerprintSays
<1>2. ASSUME NEW i \in DOMAIN d, d[i].op # "ONBUILD", d[i].image = "",
             d[i].src \notin {"remote", "", "heredoc"}
      PROVE  I!ContextOf(t, d[i].src) = I!ContextOf(u, d[i].src)
  <2>1. d[i].op \in {"COPY", "ADD", "RUN"}
    BY <1>1, <1>2 DEF WellFormed, I!IsDockerfile
  <2>2. d[i].op # "FROM" /\ d[i].src # "variable"
    BY <1>1, <1>2, <2>1 DEF I!Problems, I!Problem, I!Copies
  <2>3. d[i].src \in I!ContextSources(d)
    BY <1>2, <2>1, <2>2 DEF I!ContextSources, I!Copies, I!Elsewhere
  <2>4. I!Followed(t, d[i].src) = d[i].src /\ I!Followed(u, d[i].src) = d[i].src
    BY <1>1, <2>3 DEF I!Foreseen
  <2>5. I!ContextOf(t, d[i].src) = {x \in fp.files : d[i].src = "." \/ I!In(x[1], d[i].src)}
    BY <2>3, <2>4, ContextIsFingerprinted
  <2>6. I!ContextOf(u, d[i].src) = {x \in fp.files : d[i].src = "." \/ I!In(x[1], d[i].src)}
    BY <1>1, <2>3, <2>4, ContextIsFingerprinted
  <2> QED
    BY <2>5, <2>6
<1>3. \A i \in DOMAIN d : I!Taken(d, i, t, w) = I!Taken(d, i, u, v)
  <2> TAKE i \in DOMAIN d
  <2>1. I!Taken(d, i, t, w) = Pinned(d, i, I!ContextOf(t, d[i].src))
    BY <1>1, TakenCannotMove
  <2>2. I!Taken(d, i, u, v) = Pinned(d, i, I!ContextOf(u, d[i].src))
    BY <1>1, TakenCannotMove
  <2>3. Pinned(d, i, I!ContextOf(t, d[i].src)) = Pinned(d, i, I!ContextOf(u, d[i].src))
    BY <1>2 DEF Pinned
  <2> QED
    BY <2>1, <2>2, <2>3
<1>4. ASSUME NEW x, WellFormed(x), I!Foreseen(x), I!Fingerprint(x, scope) = fp, NEW y
      PROVE  {<<p, x[p].oid, IF x[p].oid = "filter" THEN y ELSE 0>> :
                  p \in {a \in Attributes : x[a] # Missing}}
                = {<<r[1], r[2], 0>> : r \in fp.attributes}
  <2> DEFINE attributes == {a \in Attributes : x[a] # Missing}
  <2>1. \A p \in attributes : x[p].oid # "filter"
    BY <1>4, FingerprintSays
  <2>2. I!Fingerprint(x, scope).attributes = {<<p, x[p].oid>> :
            p \in {q \in attributes : scope = "" \/ I!InUnit(q, scope)}}
    BY <1>4, FingerprintSays
  <2>3. {q \in attributes : scope = "" \/ I!InUnit(q, scope)} = attributes
    BY <1>4 DEF I!Foreseen
  <2>4. fp.attributes = {<<p, x[p].oid>> : p \in attributes}
    BY <1>4, <2>2, <2>3
  <2> HIDE DEF attributes, fp
  <2>5. \A p \in attributes :
            <<p, x[p].oid, IF x[p].oid = "filter" THEN y ELSE 0>> = <<p, x[p].oid, 0>>
    BY <2>1
  <2>6. {<<p, x[p].oid, IF x[p].oid = "filter" THEN y ELSE 0>> : p \in attributes}
           = {<<p, x[p].oid, 0>> : p \in attributes}
    BY <2>5
  <2>7. {<<p, x[p].oid, 0>> : p \in attributes} = {<<r[1], r[2], 0>> : r \in fp.attributes}
    <3>1. \A p \in attributes : <<p, x[p].oid>>[1] = p /\ <<p, x[p].oid>>[2] = x[p].oid
      OBVIOUS
    <3>2. \A p \in attributes : <<p, x[p].oid>> \in fp.attributes
      BY <2>4
    <3>3. \A p \in attributes :
              \E r \in fp.attributes : <<p, x[p].oid, 0>> = <<r[1], r[2], 0>>
      BY <3>1, <3>2
    <3>4. \A r \in fp.attributes : \E p \in attributes : r = <<p, x[p].oid>>
      BY <2>4
    <3>5. \A r \in fp.attributes :
              \E p \in attributes : <<r[1], r[2], 0>> = <<p, x[p].oid, 0>>
      BY <3>1, <3>4
    <3> QED
      BY <3>3, <3>5
  <2> QED
    BY <2>6, <2>7 DEF attributes
<1>5. I!Build(t, w) = [dockerfile |-> d,
                       taken |-> [i \in DOMAIN d |-> I!Taken(d, i, t, w)],
                       checkout |-> {<<r[1], r[2], 0>> : r \in fp.attributes}]
  BY <1>4 DEF I!Build
<1>6. I!Build(u, v) = [dockerfile |-> d,
                       taken |-> [i \in DOMAIN d |-> I!Taken(d, i, u, v)],
                       checkout |-> {<<r[1], r[2], 0>> : r \in fp.attributes}]
  BY <1>1, <1>4 DEF I!Build
<1>7. [i \in DOMAIN d |-> I!Taken(d, i, t, w)] = [i \in DOMAIN d |-> I!Taken(d, i, u, v)]
  <2> HIDE DEF d
  <2> QED
    BY <1>3
<1> QED
  BY <1>5, <1>6, <1>7

-----------------------------------------------------------------------------
(* The answers of the tools.                                               *)

\* Each answer that spares a build compared the two revisions, and two of them
\* asked about the frontend.
Compared == /\ promoted # Missing
            /\ I!Fingerprint(tree, scope) # Unknown
            /\ I!Fingerprint(promoted.tree, scope) = I!Fingerprint(tree, scope)

LEMMA SkipIsCompared ==
    ASSUME I!TreesAssumption, NEW fault
    PROVE  /\ I!Shadow(fault) = "would-skip" =>
                  /\ Compared /\ promoted.recipe = recipe
                  /\ I!Floating(tree[Dockerfile].oid) => I!HasCaveat(fault)
           /\ I!PollImage(fault) = "skip" =>
                  /\ Compared /\ promoted.recipe = recipe
                  /\ ~I!Floating(tree[Dockerfile].oid)
           /\ I!PollUnit(fault) = "skip" => Compared
<1>1. Unknown \notin {"unchanged", "changed"}
  BY DEF I!TreesAssumption
<1>2. \A b, h : I!Compare(b, h) = "unchanged" => b = h /\ h # Unknown
  BY <1>1 DEF I!Compare
<1>3. \A t : I!Fingerprint(I!Entries(t, fault), scope) # Unknown
                => I!Entries(t, fault) = t /\ fault # "truncated" /\ t[Dockerfile] # Missing
  BY DEF I!Entries, I!Fingerprint
<1>4. ASSUME I!Compare(I!AtPromoted(fault), I!AtHead(fault)) = "unchanged"
      PROVE  /\ I!Fingerprint(tree, scope) # Unknown
             /\ I!Fingerprint(promoted.tree, scope) = I!Fingerprint(tree, scope)
             /\ I!HasCaveat(fault) <=> I!Floating(tree[Dockerfile].oid)
  <2>1. I!AtHead(fault) # Unknown /\ I!AtPromoted(fault) = I!AtHead(fault)
    BY <1>2, <1>4
  <2>2. fault # "head" /\ I!AtHead(fault) = I!Fingerprint(I!Entries(tree, fault), scope)
    BY <2>1 DEF I!AtHead
  <2>3. /\ I!Entries(tree, fault) = tree /\ I!Entries(promoted.tree, fault) = promoted.tree
        /\ fault # "truncated" /\ tree[Dockerfile] # Missing
    BY <1>3, <2>1, <2>2 DEF I!AtPromoted
  <2> QED
    BY <2>1, <2>2, <2>3 DEF I!AtPromoted, I!HasCaveat
<1>5. \A b, h : I!Compare(b, h) \in {"unchanged", "changed", Unknown}
  BY DEF I!Compare
<1>6. ASSUME I!Shadow(fault) = "would-skip"
      PROVE  /\ promoted # Missing /\ promoted.recipe = recipe
             /\ I!Compare(I!AtPromoted(fault), I!AtHead(fault)) = "unchanged"
  BY <1>2, <1>6 DEF I!Shadow, I!Verdict
<1>7. ASSUME I!PollUnit(fault) = "skip"
      PROVE  /\ promoted # Missing
             /\ I!Compare(I!AtPromoted(fault), I!AtHead(fault)) = "unchanged"
  BY <1>5, <1>7 DEF I!PollUnit, I!DecideUnit
<1>8. ASSUME I!PollImage(fault) = "skip"
      PROVE  /\ promoted # Missing /\ promoted.recipe = recipe /\ ~I!HasCaveat(fault)
             /\ I!Compare(I!AtPromoted(fault), I!AtHead(fault)) = "unchanged"
  BY <1>2, <1>8 DEF I!PollImage
<1> QED
  BY <1>4, <1>6, <1>7, <1>8 DEF Compared

-----------------------------------------------------------------------------
TreesInv ==
    /\ WellFormed(tree)
    /\ promoted # Missing => WellFormed(promoted.tree)
    /\ scope \in Scopes

InputsInv == TreesInv /\ I!SkipMeansSameBuild

\* A commit leaves a well-formed tree.
LEMMA CommitIsWellFormed ==
    ASSUME I!TreesAssumption, NEW t, WellFormed(t), NEW p \in Paths,
           NEW o \in Contents[p] \cup {Missing}
    PROVE  WellFormed([t EXCEPT ![p] = o])
<1> DEFINE u == [t EXCEPT ![p] = o]
<1>1. /\ u = [q \in Paths |-> u[q]]
      /\ u[p] = o /\ \A q \in Paths \ {p} : u[q] = t[q]
  BY DEF WellFormed
<1> HIDE DEF u
<1>2. \A q \in {Dockerfile, OwnIgnore, RootIgnore} : q \in Paths
  BY DEF I!TreesAssumption
<1>3. \A q \in {Dockerfile, OwnIgnore, RootIgnore} :
          \A c \in Contents[q] : c # Missing =>
              IF q = Dockerfile THEN I!IsDockerfile(c.oid) ELSE I!IsIgnoreFile(c.oid)
  BY DEF I!TreesAssumption
<1>4. u[Dockerfile] # Missing => I!IsDockerfile(u[Dockerfile].oid)
  BY <1>1, <1>2, <1>3 DEF WellFormed
<1>5. \A q \in {OwnIgnore, RootIgnore} : u[q] # Missing => I!IsIgnoreFile(u[q].oid)
  BY <1>1, <1>2, <1>3 DEF WellFormed, I!TreesAssumption
<1> QED
  BY <1>1, <1>4, <1>5 DEF WellFormed, u

LEMMA InputsInitially == ASSUME I!TreesAssumption, I!Init PROVE InputsInv
<1>1. WellFormed(tree)
  BY DEF I!Init, I!TreesAssumption, WellFormed
<1> QED
  BY <1>1 DEF I!Init, InputsInv, TreesInv, I!SkipMeansSameBuild, I!Unanswered

\* Nothing is said until the tools are asked again.
LEMMA UnansweredIsSafe ==
    ASSUME answer' = I!Unanswered
    PROVE  I!SkipMeansSameBuild'
BY DEF I!SkipMeansSameBuild, I!Unanswered

LEMMA InputsPreserved ==
    ASSUME I!TreesAssumption, InputsInv, [I!Next]_(I!vars) PROVE InputsInv'
<1> USE DEF InputsInv
<1>1. CASE I!Commit
  <2>1. PICK p \in Paths : \E o \in Contents[p] \cup {Missing} : tree' = [tree EXCEPT ![p] = o]
    BY <1>1 DEF I!Commit
  <2>2. PICK o \in Contents[p] \cup {Missing} : tree' = [tree EXCEPT ![p] = o]
    BY <2>1
  <2>3. WellFormed([tree EXCEPT ![p] = o])
    BY CommitIsWellFormed DEF TreesInv
  <2> QED
    BY <1>1, <2>2, <2>3, UnansweredIsSafe DEF I!Commit, TreesInv
<1>2. CASE I!Move
  BY <1>2, UnansweredIsSafe DEF I!Move, TreesInv
<1>3. CASE I!Promote
  <2>1. promoted'.tree = tree
    BY <1>3 DEF I!Promote
  <2> QED
    BY <1>3, <2>1, UnansweredIsSafe DEF I!Promote, TreesInv
<1>4. CASE I!Report
  <2>1. PICK fault \in I!Faults :
            answer' = [shadow |-> I!Shadow(fault), caveat |-> I!HasCaveat(fault),
                       poll |-> IF scope = "" THEN I!PollImage(fault) ELSE "none",
                       unit |-> IF scope # "" THEN I!PollUnit(fault) ELSE "none"]
    BY <1>4 DEF I!Report
  <2>2. UNCHANGED <<tree, world, recipe, commits, promoted, scope>>
    BY <1>4 DEF I!Report
  <2>3. ASSUME I!Foreseen(tree), I!Foreseen(promoted.tree), Compared,
               ~I!Floating(tree[Dockerfile].oid)
        PROVE  I!SameInputs
    <3>1. I!Fingerprint(tree, scope) # Unknown
      BY <2>3 DEF Compared
    <3>2. tree[Dockerfile].oid = promoted.tree[Dockerfile].oid
      <4>1. I!Fingerprint(promoted.tree, scope) # Unknown
        BY <2>3, <3>1 DEF Compared
      <4>2. /\ I!Fingerprint(tree, scope).dockerfile = tree[Dockerfile].oid
            /\ I!Fingerprint(promoted.tree, scope).dockerfile = promoted.tree[Dockerfile].oid
        BY <3>1, <4>1, FingerprintSays
      <4> QED
        BY <2>3, <4>2 DEF Compared
    <3>3. I!Build(promoted.tree, promoted.world) = I!Build(tree, world)
      BY <2>3, <3>1, <3>2, SameFingerprintSameBuild DEF Compared, TreesInv
    <3> QED
      BY <3>3 DEF I!SameInputs
  <2>4. I!SkipMeansSameBuild'
    <3>1. /\ I!Foreseen(tree)' = I!Foreseen(tree)
          /\ I!Foreseen(promoted.tree)' = I!Foreseen(promoted.tree)
          /\ I!SameInputs' = I!SameInputs
      BY <2>2 DEF I!Foreseen, I!SameInputs
    <3>2. CASE I!Foreseen(tree) /\ I!Foreseen(promoted.tree)
      <4>1. /\ answer'.poll = "skip" => I!SameInputs /\ promoted.recipe = recipe
            /\ answer'.shadow = "would-skip" /\ ~answer'.caveat
                  => I!SameInputs /\ promoted.recipe = recipe
            /\ answer'.unit = "skip" /\ ~I!Floating(tree[Dockerfile].oid) => I!SameInputs
        BY <2>1, <2>3, <3>2, SkipIsCompared
      <4> QED
        BY <2>2, <3>1, <4>1 DEF I!SkipMeansSameBuild
    <3>3. CASE ~(I!Foreseen(tree) /\ I!Foreseen(promoted.tree))
      BY <3>1, <3>3 DEF I!SkipMeansSameBuild
    <3> QED
      BY <3>2, <3>3
  <2> QED
    BY <2>2, <2>4 DEF TreesInv
<1>5. CASE UNCHANGED I!vars
  <2>1. TreesInv'
    BY <1>5 DEF I!vars, TreesInv, WellFormed
  <2>2. I!SkipMeansSameBuild'
    BY <1>5 DEF I!vars, I!SkipMeansSameBuild, I!Foreseen, I!SameInputs
  <2> QED
    BY <2>1, <2>2
<1> QED
  BY <1>1, <1>2, <1>3, <1>4, <1>5 DEF I!Next

\* Well-formed trees stay well formed, and what the answers mean is inductive
\* with them.
THEOREM InputsInvariant ==
    ASSUME I!TreesAssumption
    PROVE  /\ I!Spec => []InputsInv
           /\ InputsSpec => [](subject = "inputs" => InputsInv)
<1>1. I!Init => InputsInv
  BY InputsInitially
<1>2. InputsInv /\ [I!Next]_(I!vars) => InputsInv'
  BY InputsPreserved
<1>3. InputsInit => (subject = "inputs" => InputsInv)
  BY <1>1 DEF InputsInit
<1>4. (subject = "inputs" => InputsInv) /\ [InputsNext]_allVars
         => (subject = "inputs" => InputsInv)'
  BY <1>2 DEF InputsNext, PlanStep, BaseStep, InputStep, allVars, inputVars, I!vars
<1> QED
  BY <1>1, <1>2, <1>3, <1>4, PTL DEF I!Spec, InputsSpec

\* An image that the poll skips would be built from what the promoted one was
\* built from, and so would one that the shadow verdict could skip and that has
\* no caveat, and a UI unit that is left alone and names its frontend by digest:
\* whatever the Dockerfile and the ignore files say, and however trees, floating
\* tags and the builder move, outside of what Foreseen names
\* (input-fingerprint.py, compute(), compare(), verdict();
\* poll-skip-decision.py, decide(); ui_static_units.py, decide_unit()).
THEOREM SkipsAreSound ==
    ASSUME I!TreesAssumption
    PROVE  /\ I!Spec => []I!SkipMeansSameBuild
           /\ InputsSpec => []SkipMeansSameBuild
<1>1. InputsInv => I!SkipMeansSameBuild
  BY DEF InputsInv
<1>2. (subject = "inputs" => InputsInv) => SkipMeansSameBuild
  BY <1>1 DEF SkipMeansSameBuild
<1> QED
  BY <1>1, <1>2, InputsInvariant, PTL

-----------------------------------------------------------------------------
(* The base of the SQL validation.  The loop of migration_base() is a      *)
(* recursive function that runs through the revisions in the order of      *)
(* their numbers; what holds after each of them is proved by induction on  *)
(* these.                                                                  *)

\* What holds of 0, and of n + 1 if of n, holds of every number.
LEMMA EveryNumber ==
    ASSUME NEW Q, 0 \in Q, \A n \in Nat : n \in Q => n + 1 \in Q
    PROVE  \A n \in Nat : n \in Q
<1> SUFFICES ASSUME Nat \ Q # {} PROVE FALSE
  OBVIOUS
<1>1. PICK n \in Nat \ Q : \A m \in Nat \ Q : n <= m
  BY LeastNumber
<1>2. n - 1 \in Nat /\ ~(n <= n - 1) /\ (n - 1) + 1 = n
  BY <1>1
<1> QED
  BY <1>1, <1>2

\* The commits of Line have one history.
IsHistory ==
    /\ history \in [Line -> SUBSET Line]
    /\ \A c \in Line : D!Reaches(c, c)
    /\ \A a, b, c \in Line : D!Reaches(a, b) /\ D!Reaches(b, c) => D!Reaches(a, c)

BaseInv == IsHistory /\ bases \in Seq(Line \cup {NoCommit})

\* A finite set of numbers has an upper bound.
LEMMA Bounded ==
    ASSUME NEW S, S \subseteq Nat, IsFiniteSet(S)
    PROVE  \E b \in Nat : \A x \in S : x <= b
<1>1. PICK m \in Nat : ExistsBijection(1..m, S)
  BY FS_NatBijection
<1>2. PICK f \in [1..m -> S] : \A x \in S : \E i \in 1..m : f[i] = x
  BY <1>1 DEF ExistsBijection, Bijection, Surjection
<1> DEFINE Q == {k \in Nat : k <= m => \E b \in Nat : \A i \in 1..k : f[i] <= b}
<1>3. 0 \in Q
  <2>1. \A i \in 1..0 : f[i] <= 0
    OBVIOUS
  <2> QED
    BY <2>1
<1>4. ASSUME NEW k \in Nat, k \in Q PROVE k + 1 \in Q
  <2> SUFFICES ASSUME k + 1 <= m PROVE \E b \in Nat : \A i \in 1..(k + 1) : f[i] <= b
    OBVIOUS
  <2>1. PICK b \in Nat : \A i \in 1..k : f[i] <= b
    BY <1>4
  <2>2. \A i \in 1..(k + 1) : f[i] \in Nat
    <3> TAKE i \in 1..(k + 1)
    <3>1. i \in 1..m
      OBVIOUS
    <3> QED
      BY <3>1
  <2>3. PICK v \in Nat : v = f[k + 1]
    BY <2>2
  <2>4. \A i \in 1..(k + 1) : i \in 1..k \/ i = k + 1
    OBVIOUS
  <2>5. \A i \in 1..(k + 1) : f[i] <= b + v
    BY <2>1, <2>2, <2>3, <2>4
  <2>6. b + v \in Nat
    OBVIOUS
  <2> QED
    BY <2>5, <2>6
<1> HIDE DEF Q
<1>5. m \in Q
  BY <1>3, <1>4, EveryNumber
<1>6. PICK b \in Nat : \A i \in 1..m : f[i] <= b
  BY <1>5 DEF Q
<1> QED
  BY <1>2, <1>6

\* A finite set of positive numbers that is not empty has a greatest.
LEMMA MaxIsGreatest ==
    ASSUME NEW S, S \subseteq Nat \ {0}, S # {}, IsFiniteSet(S)
    PROVE  D!Max(S) \in S /\ \A x \in S : x <= D!Max(S)
<1> DEFINE bounds == {b \in Nat : \A x \in S : x <= b}
<1>1. bounds # {}
  BY Bounded
<1>2. PICK b \in bounds : \A c \in bounds : b <= c
  BY <1>1, LeastNumber
<1>3. b \in S
  <2> SUFFICES ASSUME b \notin S PROVE FALSE
    OBVIOUS
  <2>1. PICK x \in S : TRUE
    OBVIOUS
  <2>2. b >= 1
    BY <2>1
  <2>3. b - 1 \in bounds
    BY <2>2
  <2> QED
    BY <1>2, <2>3
<1>4. \E x \in S : \A y \in S : x >= y
  BY <1>3
<1>5. D!Max(S) \in S /\ \A y \in S : D!Max(S) >= y
  BY <1>4 DEF D!Max
<1> QED
  BY <1>5

\* One turn of the loop, at the revision numbered n.
Turn(f, first, given, n) ==
    IF n = 0 THEN first ELSE IF n \in given THEN D!OlderOf(f[n - 1], n) ELSE f[n - 1]

\* The runs of the loop, up to the revision numbered m.
IsLoop(f, first, given, m) == f = [n \in 0..m |-> Turn(f, first, given, n)]

\* The loop has a run.
LEMMA LoopRuns ==
    ASSUME NEW first, NEW given, NEW m \in Nat
    PROVE  \E f : IsLoop(f, first, given, m)
<1> DEFINE Q == {k \in Nat : \E f : IsLoop(f, first, given, k)}
<1>1. 0 \in Q
  <2> DEFINE g == [n \in 0..0 |-> first]
  <2>1. g = [n \in 0..0 |-> Turn(g, first, given, n)]
    BY DEF Turn
  <2> QED
    BY <2>1 DEF IsLoop
<1>2. ASSUME NEW k \in Nat, k \in Q PROVE k + 1 \in Q
  <2>1. PICK f : f = [n \in 0..k |-> Turn(f, first, given, n)]
    BY <1>2 DEF IsLoop
  <2> DEFINE g == [n \in 0..(k + 1) |->
                     IF n = k + 1 THEN Turn(f, first, given, k + 1) ELSE f[n]]
  <2>2. \A n \in 0..(k + 1) : g[n] = Turn(g, first, given, n)
    <3> TAKE n \in 0..(k + 1)
    <3>1. n # 0 => n - 1 \in 0..k /\ g[n - 1] = f[n - 1]
      OBVIOUS
    <3>2. Turn(g, first, given, n) = Turn(f, first, given, n)
      BY <3>1 DEF Turn
    <3>3. CASE n = k + 1
      BY <3>2, <3>3
    <3>4. CASE n # k + 1
      <4>1. n \in 0..k
        BY <3>4
      <4>2. f[n] = Turn(f, first, given, n)
        BY <2>1, <4>1
      <4> QED
        BY <3>2, <3>4, <4>2
    <3> QED
      BY <3>3, <3>4
  <2>3. g = [n \in 0..(k + 1) |-> Turn(g, first, given, n)]
    BY <2>2
  <2> HIDE DEF g
  <2>4. IsLoop(g, first, given, k + 1)
    BY <2>3 DEF IsLoop
  <2> QED
    BY <2>4
<1> HIDE DEF Q
<1>3. m \in Q
  BY <1>1, <1>2, EveryNumber
<1> QED
  BY <1>3 DEF Q

\* One line of history.
OneLine(given) == \A a, b \in given : D!Reaches(a, b) \/ D!Reaches(b, a)

\* Where the loop is after the revisions up to n: at a baseline that the first
\* one and all up to n reach, or nowhere, and then history diverges.
GoodTurn(oldest, first, given, n) ==
    \/ oldest = NoCommit /\ ~OneLine(given)
    \/ /\ oldest \in given
       /\ D!Reaches(first, oldest)
       /\ \A c \in given : c <= n => D!Reaches(c, oldest)

\* One turn keeps to that.
LEMMA TurnKeeps ==
    ASSUME IsHistory, NEW given \in SUBSET Line, NEW first \in given,
           NEW n \in Nat \ {0}, NEW oldest, GoodTurn(oldest, first, given, n - 1)
    PROVE  GoodTurn(IF n \in given THEN D!OlderOf(oldest, n) ELSE oldest, first, given, n)
<1>1. \A c \in given : c <= n => c = n \/ c <= n - 1
  BY LineAssumption
<1>2. CASE n \notin given
  BY <1>1, <1>2 DEF GoodTurn
<1>3. CASE n \in given /\ oldest = NoCommit
  BY <1>3, LineAssumption DEF D!OlderOf, GoodTurn
<1>4. CASE n \in given /\ oldest # NoCommit
  <2>1. oldest \in given /\ D!Reaches(first, oldest)
        /\ \A c \in given : c <= n - 1 => D!Reaches(c, oldest)
    BY <1>4 DEF GoodTurn
  <2>2. CASE D!Reaches(oldest, n)
    <3>1. D!OlderOf(oldest, n) = n
      BY <1>4, <2>2 DEF D!OlderOf
    <3>2. \A c \in given : D!Reaches(c, oldest) => D!Reaches(c, n)
      BY <1>4, <2>1, <2>2 DEF IsHistory
    <3>3. D!Reaches(n, n)
      BY <1>4 DEF IsHistory
    <3> QED
      BY <1>1, <1>4, <2>1, <3>1, <3>2, <3>3 DEF GoodTurn
  <2>3. CASE ~D!Reaches(oldest, n) /\ D!Reaches(n, oldest)
    <3>1. D!OlderOf(oldest, n) = oldest
      BY <1>4, <2>3 DEF D!OlderOf
    <3> QED
      BY <1>1, <1>4, <2>1, <2>3, <3>1 DEF GoodTurn
  <2>4. CASE ~D!Reaches(oldest, n) /\ ~D!Reaches(n, oldest)
    <3>1. D!OlderOf(oldest, n) = NoCommit
      BY <1>4, <2>4 DEF D!OlderOf
    <3>2. ~OneLine(given)
      BY <1>4, <2>1, <2>4 DEF OneLine
    <3> QED
      BY <1>4, <3>1, <3>2 DEF GoodTurn
  <2> QED
    BY <2>2, <2>3, <2>4
<1> QED
  BY <1>2, <1>3, <1>4

\* All turns do.
LEMMA LoopIsGood ==
    ASSUME IsHistory, NEW given \in SUBSET Line, NEW first \in given,
           NEW m \in Nat, NEW f, IsLoop(f, first, given, m)
    PROVE  GoodTurn(f[m], first, given, m)
<1>1. \A n \in 0..m : f[n] = Turn(f, first, given, n)
  BY DEF IsLoop
<1> DEFINE Q == {n \in Nat : n <= m => GoodTurn(f[n], first, given, n)}
<1>2. 0 \in Q
  <2>1. D!Reaches(first, first)
    BY DEF IsHistory
  <2>2. \A c \in given : ~(c <= 0)
    BY LineAssumption
  <2>3. f[0] = first
    BY <1>1 DEF Turn
  <2> QED
    BY <2>1, <2>2, <2>3 DEF GoodTurn
<1>3. ASSUME NEW k \in Nat, k \in Q PROVE k + 1 \in Q
  <2> SUFFICES ASSUME k + 1 <= m PROVE GoodTurn(f[k + 1], first, given, k + 1)
    OBVIOUS
  <2>1. /\ k + 1 \in Nat \ {0} /\ k + 1 \in 0..m /\ k + 1 # 0 /\ (k + 1) - 1 = k
        /\ GoodTurn(f[k], first, given, k)
    BY <1>3
  <2>2. f[k + 1] = IF k + 1 \in given THEN D!OlderOf(f[k], k + 1) ELSE f[k]
    BY <1>1, <2>1 DEF Turn
  <2> QED
    BY <2>1, <2>2, TurnKeeps
<1> HIDE DEF Q
<1>4. m \in Q
  BY <1>2, <1>3, EveryNumber
<1> QED
  BY <1>4 DEF Q

\* What migration_base() returns is where its loop ends.
LEMMA BaseIsLastTurn ==
    ASSUME NEW first, NEW given, given # {}, NoCommit \notin given, D!Max(given) \in Nat
    PROVE  \E f : /\ IsLoop(f, first, given, D!Max(given))
                  /\ D!MigrationBase(first, given) = f[D!Max(given)]
<1> DEFINE m == D!Max(given)
           P(f) == f = [n \in 0..m |->
                          IF n = 0 THEN first
                          ELSE IF n \in given THEN D!OlderOf(f[n - 1], n) ELSE f[n - 1]]
           last == CHOOSE f : P(f)
<1>1. \E f : P(f)
  <2>1. PICK f : IsLoop(f, first, given, m)
    BY LoopRuns
  <2>2. P(f)
    BY <2>1 DEF IsLoop, Turn
  <2> QED
    BY <2>2
<1>2. P(last)
  <2> HIDE DEF P
  <2> QED
    BY <1>1, Zenon
<1>3. D!MigrationBase(first, given) = last[m]
  BY Zenon DEF D!MigrationBase
<1>4. IsLoop(last, first, given, m)
  <2> HIDE DEF last
  <2> QED
    BY <1>2 DEF IsLoop, Turn
<1> QED
  BY <1>3, <1>4

\* So the answer is the oldest of the baselines, if these are all there.
LEMMA BaseIsOldest ==
    ASSUME IsHistory, NEW given \in SUBSET Line, NEW first \in given
    PROVE  LET base == D!MigrationBase(first, given)
           IN  /\ base # NoCommit => base \in given /\ \A c \in given : D!Reaches(c, base)
               /\ OneLine(given) => base # NoCommit
<1>1. given \subseteq Nat \ {0} /\ NoCommit \notin given /\ given # {}
  BY LineAssumption
<1>2. IsFiniteSet(given)
  BY LineAssumption, FS_Subset
<1>3. D!Max(given) \in given /\ \A c \in given : c <= D!Max(given)
  BY <1>1, <1>2, MaxIsGreatest
<1>4. D!Max(given) \in Nat
  BY <1>1, <1>3
<1>5. PICK f : /\ IsLoop(f, first, given, D!Max(given))
              /\ D!MigrationBase(first, given) = f[D!Max(given)]
  BY <1>1, <1>4, BaseIsLastTurn
<1>6. GoodTurn(D!MigrationBase(first, given), first, given, D!Max(given))
  BY <1>4, <1>5, LoopIsGood
<1> QED
  BY <1>1, <1>3, <1>6 DEF GoodTurn

LEMMA BaseFromHistory == BaseInv => BaseIsCommonAncestor
<1> SUFFICES ASSUME BaseInv PROVE BaseIsCommonAncestor
  OBVIOUS
<1> DEFINE given == {bases[i] : i \in DOMAIN bases}
           base == D!MigrationBase(bases[1], given)
<1>1. CASE NoCommit \in given \/ given = {}
  <2>1. base = NoCommit
    BY <1>1 DEF D!MigrationBase
  <2>2. given = {} => bases = <<>>
    <3>1. bases \in Seq(Line \cup {NoCommit}) /\ DOMAIN bases = 1..Len(bases) /\ Len(bases) \in Nat
      BY DEF BaseInv
    <3>2. Len(bases) # 0 => bases[1] \in given
      BY <3>1
    <3> HIDE DEF given
    <3>3. Len(bases) = 0 => bases = <<>>
      BY <3>1
    <3> QED
      BY <3>2, <3>3
  <2> QED
    BY <1>1, <2>1, <2>2 DEF BaseIsCommonAncestor
<1>2. CASE NoCommit \notin given /\ given # {}
  <2>1. given \subseteq Line
    BY <1>2 DEF BaseInv
  <2>2. 1 \in DOMAIN bases
    BY <1>2 DEF BaseInv
  <2>3. bases[1] \in given
    BY <2>2
  <2> HIDE DEF given
  <2>4. /\ base # NoCommit => base \in given /\ \A c \in given : D!Reaches(c, base)
        /\ OneLine(given) => base # NoCommit
    BY <2>1, <2>3, BaseIsOldest DEF BaseInv
  <2> USE DEF given
  <2> QED
    BY <1>2, <2>4 DEF BaseIsCommonAncestor, OneLine
<1> QED
  BY <1>1, <1>2

LEMMA BaseInitially == BaseInit => BaseInv
<1> SUFFICES ASSUME BaseInit PROVE BaseInv
  OBVIOUS
<1>1. PICK R \in Orders : history = [c \in Line |-> {a \in Line : <<a, c>> \in R}]
  BY DEF BaseInit
<1>2. /\ \A a \in Line : <<a, a>> \in R
      /\ \A p, q \in R : p[2] = q[1] => <<p[1], q[2]>> \in R
  BY DEF Orders
<1>3. \A a, b \in Line : D!Reaches(a, b) <=> <<b, a>> \in R
  BY <1>1 DEF D!Reaches
<1>4. ASSUME NEW a \in Line, NEW b \in Line, NEW c \in Line, <<b, a>> \in R, <<c, b>> \in R
      PROVE  <<c, a>> \in R
  BY <1>2, <1>4
<1>5. IsHistory
  BY <1>1, <1>2, <1>3, <1>4 DEF IsHistory
<1>6. bases \in Seq(Line \cup {NoCommit})
  BY DEF BaseInit
<1> QED
  BY <1>5, <1>6 DEF BaseInv

\* The migration base of any choice of baselines, on any history, is one of
\* them and an ancestor of them all, and baselines on one line of history have
\* one (poll-skip-decision.py, migration_base()).
THEOREM BaseIsSound == InputsSpec => []BaseIsCommonAncestor
<1>1. InputsInit => (subject = "base" => BaseInv)
  BY BaseInitially DEF InputsInit
<1>2. (subject = "base" => BaseInv) /\ [InputsNext]_allVars => (subject = "base" => BaseInv)'
  <2> SUFFICES ASSUME subject = "base" => BaseInv, [InputsNext]_allVars, subject' = "base"
               PROVE  BaseInv'
    OBVIOUS
  <2>1. subject = "base" /\ UNCHANGED history
        /\ (UNCHANGED bases \/ \E c \in Line \cup {NoCommit} : bases' = Append(bases, c))
    BY DEF InputsNext, PlanStep, BaseStep, InputStep, Consider, allVars, baseVars
  <2>2. (bases \in Seq(Line \cup {NoCommit}))'
    BY <2>1 DEF BaseInv
  <2>3. IsHistory'
    BY <2>1 DEF BaseInv, IsHistory, D!Reaches
  <2> QED
    BY <2>2, <2>3 DEF BaseInv
<1>3. (subject = "base" => BaseInv) => BaseIsCommonAncestor
  BY BaseFromHistory DEF BaseIsCommonAncestor
<1> QED
  BY <1>1, <1>2, <1>3, PTL DEF InputsSpec
=============================================================================
