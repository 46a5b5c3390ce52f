------------------------------ MODULE PollProofs ------------------------------
(***************************************************************************)
(* The poller never repeats itself, and never validates migrations from    *)
(* beyond a promoted image, for any groups, histories and bounds.          *)
(*                                                                         *)
(* PollNeverRepeats says nothing of a dispatch still to be sent, and of    *)
(* those the list of runs says nothing.  What carries it over the gap is   *)
(* that one round decides at most once for a group, that all dispatches    *)
(* of a round find no run there, and that only the poller sends them.      *)
(*                                                                         *)
(* Of the runs' publishing the proofs use the promise of RevisionLedger    *)
(* and nothing else, and PublicationAdmitted shows that Poll has every     *)
(* step the promise allows.                                                *)
(***************************************************************************)
EXTENDS Poll, Integers, FiniteSetTheorems, WellFoundedInduction, TLAPS

\* The registry of one image, as queries for revisions see it.
Registry(s) ==
    INSTANCE RevisionLedger WITH carried <- latest[s],
                                 marked <- {c \in Commits : <<s, c>> \in built}

\* No image in two of the poller's runs, whatever their commits.
Apart(R) ==
    \A r, q \in R : r # q /\ r.by = 0 /\ q.by = 0
        => ServicesIn(r.target) \cap ServicesIn(q.target) = {}

\* The groups the round may still decide on.
Undecided == IF pc = "probe" THEN todo \cup {group} ELSE todo

\* A round decides on each group once, and for images of that group.
RoundInv ==
    /\ todo \subseteq Groups /\ group \in Groups /\ releases \in Nat
    /\ pc = "probe" => /\ group \notin todo
                       /\ probes \subseteq ServicesOf[group]
                       /\ missing \subseteq ServicesOf[group]
    /\ pc \in {"scan", "probe"} => \A r \in pending : \A g \in Undecided :
          ServicesIn(r.target) \cap ServicesOf[g] = {}

RunsInv ==
    /\ Apart(running \cup waiting)
    /\ Apart(pending)
    /\ pc = "send" => Apart(running \cup waiting \cup pending)

IInv == RoundInv /\ RunsInv

-----------------------------------------------------------------------------
\* A dispatch builds images of the group that was scanned.
LEMMA DispatchInGroup ==
    ASSUME RoundInv, pc = "probe", Dispatch.build # {}
    PROVE  Dispatch.by = 0 /\ ServicesIn(Dispatch.target) \subseteq ServicesOf[group]
<1> DEFINE build == {s \in missing : ~Skips(facts[s], sha)}
<1>1. /\ Dispatch.by = 0
      /\ Dispatch.target = Target(group, build, missing)
      /\ build # {}
  BY DEF Dispatch
<1>2. Dispatch.target \in {group} \cup build
  BY <1>1 DEF Target
<1>3. build \subseteq ServicesOf[group]
  BY DEF RoundInv
<1>4. \A s \in ServicesOf[group] : ServicesIn(s) = {s}
  BY GroupAssumption DEF ServicesIn, Services, RoundInv
<1>5. ServicesIn(group) = ServicesOf[group]
  BY DEF ServicesIn, RoundInv
<1> QED
  BY <1>1, <1>2, <1>3, <1>4, <1>5

\* A run that starts is added to the others, of which at most one goes.
LEMMA StartAdds ==
    ASSUME NEW r, Start(r)
    PROVE  running' \cup waiting' \subseteq running \cup waiting \cup {r}
  BY DEF Start

\* A run that ends takes itself away.
LEMMA EndRunRemoves ==
    ASSUME NEW r, r \in running, EndRun(r)
    PROVE  /\ running' \cup waiting' \subseteq running \cup waiting
           /\ UNCHANGED <<world, pc, scan, pending>>
  BY DEF EndRun

\* What a run does by itself: it ends, or it publishes an image.
LEMMA RunSteps ==
    ASSUME NEW r \in running, Proceed(r) \/ Fail(r) \/ \E s \in Services : Promote(r, s)
    PROVE  /\ running' \cup waiting' \subseteq running \cup waiting
           /\ UNCHANGED <<head, pc, scan, pending, releases>>
  BY EndRunRemoves
  DEF Proceed, Fail, Succeed, MarkBuilt, Promote, Publishes, queues, counters, world

-----------------------------------------------------------------------------
\* Initially nothing has been dispatched.
LEMMA InitInv == Init => IInv
  BY DEF Init, IInv, RoundInv, RunsInv, Apart, Undecided

\* The scan keeps a group's images and dispatches to that group.
LEMMA RoundStep == IInv /\ [Next]_vars => RoundInv'
<1> SUFFICES ASSUME IInv, [Next]_vars PROVE RoundInv'
  OBVIOUS
<1> USE DEF IInv, RoundInv, Undecided, ServicesIn
<1>1. CASE StartRound
  BY <1>1 DEF StartRound, counters
<1>2. CASE NothingMissing
  BY <1>2 DEF NothingMissing, scan, counters
<1>3. CASE Decide
  <2>1. pc = "probe" /\ UNCHANGED <<todo, group, releases, probes>> /\ pc' = "scan"
    BY <1>3 DEF Decide, Asked, counters
  <2>2. pending' = pending \/ (Dispatch.build # {} /\ pending' = pending \cup {Dispatch})
    BY <1>3 DEF Decide
  <2>3. CASE pending' = pending
    BY <2>1, <2>3
  <2>4. CASE Dispatch.build # {} /\ pending' = pending \cup {Dispatch}
    <3>1. ServicesIn(Dispatch.target) \subseteq ServicesOf[group]
      BY <2>1, <2>4, DispatchInGroup
    <3>2. \A g \in todo : ServicesOf[group] \cap ServicesOf[g] = {}
      BY <2>1, GroupAssumption
    <3>3. \A g \in todo : ServicesIn(Dispatch.target) \cap ServicesOf[g] = {}
      BY <3>1, <3>2
    <3> QED
      BY <2>1, <2>4, <3>3
  <2> QED
    BY <2>2, <2>3, <2>4
<1>4. CASE RefuseOps
  BY <1>4 DEF RefuseOps, EndRound, counters
<1>5. CASE ScanEnds
  BY <1>5 DEF ScanEnds, EndRound, counters, scan
<1>6. CASE ListRuns
  BY <1>6 DEF ListRuns, EndRound, counters, scan
<1>7. ASSUME NEW g \in Groups, ReadHead(g) PROVE RoundInv'
  BY <1>7 DEF ReadHead, counters
<1>8. ASSUME NEW s \in Services, Probe(s) PROVE RoundInv'
  BY <1>8 DEF Probe, counters
<1>9. ASSUME NEW s \in Services, Ask(s) \/ AskInVain(s) PROVE RoundInv'
  BY <1>9 DEF Ask, AskInVain, Asks, counters
<1>10. ASSUME NEW r \in pending, Send(r) PROVE RoundInv'
  BY <1>10 DEF Send, counters, scan
<1>11. CASE PollFails
  BY <1>11 DEF PollFails, EndRound
<1>12. ASSUME NEW r \in running, Proceed(r) \/ Fail(r) \/ \E s \in Services : Promote(r, s)
       PROVE  RoundInv'
  <2>1. UNCHANGED <<pc, scan, pending, releases>>
    BY <1>12, RunSteps
  <2> QED
    BY <2>1 DEF scan
<1>13. ASSUME NEW g \in Groups, Push(g) \/ Release(g) PROVE RoundInv'
  BY <1>13 DEF Push, Release, scan
<1>14. CASE UNCHANGED vars
  BY <1>14 DEF vars, scan, counters
<1> QED
  BY <1>1, <1>2, <1>3, <1>4, <1>5, <1>6, <1>7, <1>8, <1>9, <1>10, <1>11, <1>12,
     <1>13, <1>14 DEF Next, Round

\* No step brings two runs of the poller together on an image.
LEMMA RunsStep == IInv /\ [Next]_vars => RunsInv'
<1> SUFFICES ASSUME IInv, [Next]_vars PROVE RunsInv'
  OBVIOUS
<1> USE DEF IInv, RunsInv
<1>1. CASE UNCHANGED <<running, waiting, pending>> /\ pc' # "send"
  BY <1>1 DEF Apart, ServicesIn
<1>2. CASE EndRound
  BY <1>2 DEF EndRound, queues, Apart, ServicesIn
<1>3. CASE StartRound
  BY <1>3 DEF StartRound, queues, Apart, ServicesIn
<1>4. CASE Decide
  <2>1. pc = "probe" /\ pc' = "scan" /\ UNCHANGED <<running, waiting>>
    BY <1>4 DEF Decide, Asked, queues
  <2>2. pending' = pending \/ (Dispatch.build # {} /\ pending' = pending \cup {Dispatch})
    BY <1>4 DEF Decide
  <2>3. Dispatch.build # {} => \A r \in pending :
            ServicesIn(r.target) \cap ServicesIn(Dispatch.target) = {}
    BY <2>1, DispatchInGroup DEF RoundInv, Undecided
  <2>4. Apart(pending')
    BY <2>2, <2>3 DEF Apart
  <2> QED
    BY <2>1, <2>4 DEF Apart, ServicesIn
<1>5. CASE ScanEnds
  BY <1>1, <1>2, <1>5 DEF ScanEnds, queues
<1>6. CASE ListRuns
  <2>1. CASE ActiveRuns # {}
    BY <1>2, <1>6, <2>1 DEF ListRuns
  <2>2. CASE ActiveRuns = {}
    BY <1>6, <2>2 DEF ListRuns, ActiveRuns, queues, Apart, ServicesIn
  <2> QED
    BY <2>1, <2>2
<1>7. ASSUME NEW r \in pending, Send(r) PROVE RunsInv'
  <2>1. pc = "send" /\ Start(r) /\ pending' = pending \ {r}
    BY <1>7 DEF Send
  <2>2. running' \cup waiting' \cup pending' \subseteq running \cup waiting \cup pending
    BY <2>1, StartAdds
  <2>3. Apart(running \cup waiting \cup pending)
    BY <2>1
  <2> HIDE DEF IInv, RunsInv
  <2>4. Apart(running' \cup waiting') /\ Apart(pending')
        /\ Apart(running' \cup waiting' \cup pending')
    BY <2>2, <2>3 DEF Apart
  <2> QED
    BY <2>4 DEF RunsInv, Apart, ServicesIn
<1>8. ASSUME NEW r \in running, Proceed(r) \/ Fail(r) \/ \E s \in Services : Promote(r, s)
      PROVE  RunsInv'
  <2>1. running' \cup waiting' \subseteq running \cup waiting /\ UNCHANGED <<pc, pending>>
    BY <1>8, RunSteps
  <2> QED
    BY <2>1 DEF Apart, ServicesIn
<1>9. ASSUME NEW g \in Groups, Release(g) PROVE RunsInv'
  <2>1. PICK r : r.by = releases + 1 /\ Start(r)
    BY <1>9 DEF Release
  <2>2. r.by # 0
    BY <2>1 DEF RoundInv
  <2>3. running' \cup waiting' \subseteq running \cup waiting \cup {r}
    BY <2>1, StartAdds
  <2>4. UNCHANGED <<pc, pending>>
    BY <1>9 DEF Release
  <2>5. Apart(running' \cup waiting')
    BY <2>2, <2>3 DEF Apart
  <2>6. pc = "send" => Apart(running' \cup waiting' \cup pending')
    BY <2>2, <2>3, <2>4 DEF Apart
  <2> QED
    BY <2>4, <2>5, <2>6 DEF Apart, ServicesIn
<1>10. CASE UNCHANGED <<running, waiting, pending, pc>>
  BY <1>10 DEF Apart, ServicesIn
<1>11. CASE NothingMissing \/ \E g \in Groups : ReadHead(g)
  BY <1>1, <1>11 DEF NothingMissing, ReadHead, queues
<1>12. CASE \E s \in Services : Probe(s) \/ Ask(s) \/ AskInVain(s)
  BY <1>10, <1>12 DEF Probe, Ask, AskInVain, Asks, queues
<1>13. CASE \E g \in Groups : Push(g)
  BY <1>10, <1>13 DEF Push, queues
<1>14. CASE RefuseOps \/ PollFails
  BY <1>2, <1>14 DEF RefuseOps, PollFails
<1>15. CASE UNCHANGED vars
  BY <1>10, <1>15 DEF vars, queues
<1> QED
  BY <1>3, <1>4, <1>5, <1>6, <1>7, <1>8, <1>9, <1>11, <1>12, <1>13, <1>14, <1>15
  DEF Next, Round

\* No image is in two runs that the poller dispatched, although it keeps no
\* record of them: poll-sources.yml scans, lists the runs and dispatches.
THEOREM NeverRepeats == Spec => []PollNeverRepeats
<1>1. IInv /\ [Next]_vars => IInv'
  BY RoundStep, RunsStep DEF IInv
<1>2. IInv => PollNeverRepeats
  BY DEF IInv, RunsInv, Apart, PollNeverRepeats
<1> QED
  BY InitInv, <1>1, <1>2, PTL DEF Spec
-----------------------------------------------------------------------------
(* The base of the SQL validation, for any history and any baselines: it   *)
(* is the oldest of them all, and baselines on one line of history have    *)
(* one.  The loop of migration_base() is a recursive function here; what   *)
(* holds of every turn is proved by a least turn for which it fails.       *)

\* A set of numbers that is not empty has a least one.
LEMMA LeastNumber ==
    ASSUME NEW T, T \subseteq Nat, T # {}
    PROVE  \E x \in T : \A y \in T : x <= y
<1>1. PICK x \in T : \A y \in T : ~ (<<y, x>> \in OpToRel(<, Nat))
  BY NatLessThanWellFounded, WFMin, Zenon
<1>2. \A y \in T : ~ (y < x)
  BY <1>1 DEF OpToRel
<1> QED
  BY <1>2

\* The first k values of f are bounded.
BoundedTo(f, k) == \E b \in Nat : \A i \in 1..k : f[i] <= b

\* One more value, and they still are.
LEMMA OneMoreBounded ==
    ASSUME NEW f, NEW k \in Nat, k # 0, f[k] \in Nat,
           \A i \in 1..(k - 1) : f[i] \in Nat, BoundedTo(f, k - 1)
    PROVE  BoundedTo(f, k)
<1>1. PICK b \in Nat : \A i \in 1..(k - 1) : f[i] <= b
  BY DEF BoundedTo
<1>2. PICK v \in Nat : f[k] = v
  OBVIOUS
<1>3. b + v \in Nat
  OBVIOUS
<1>4. \A i \in 1..k : f[i] <= b + v
  <2> TAKE i \in 1..k
  <2>1. CASE i = k
    BY <1>2, <2>1
  <2>2. CASE i # k
    <3>1. i \in 1..(k - 1)
      BY <2>2
    <3>2. f[i] \in Nat /\ f[i] <= b
      BY <1>1, <3>1
    <3> QED
      BY <3>2
  <2> QED
    BY <2>1, <2>2
<1> QED
  BY <1>3, <1>4, Zenon DEF BoundedTo

\* A finite set of numbers has an upper bound.
LEMMA Bounded ==
    ASSUME NEW S, S \subseteq Nat, IsFiniteSet(S)
    PROVE  \E b \in Nat : \A x \in S : x <= b
<1>1. PICK m \in Nat : ExistsBijection(1..m, S)
  BY FS_NatBijection
<1>2. PICK f \in [1..m -> S] : \A x \in S : \E i \in 1..m : f[i] = x
  BY <1>1 DEF ExistsBijection, Bijection, Surjection
<1>3. \A i \in 1..m : f[i] \in Nat
  BY <1>2
<1>4. BoundedTo(f, m)
  <2> DEFINE open == {k \in Nat : k <= m /\ ~BoundedTo(f, k)}
  <2> SUFFICES ASSUME open # {} PROVE FALSE
    OBVIOUS
  <2>1. PICK k \in open : \A j \in open : k <= j
    BY LeastNumber
  <2>2. k \in Nat /\ k <= m /\ ~BoundedTo(f, k)
    OBVIOUS
  <2>3. k # 0
    <3>1. \A i \in 1..0 : f[i] <= 0
      OBVIOUS
    <3>2. BoundedTo(f, 0)
      BY <3>1, 0 \in Nat, Zenon DEF BoundedTo
    <3> QED
      BY <2>2, <3>2
  <2>4. k - 1 \in Nat /\ k - 1 <= m /\ ~(k <= k - 1)
    BY <2>2, <2>3
  <2>5. BoundedTo(f, k - 1)
    BY <2>1, <2>4
  <2>6. f[k] \in Nat /\ \A i \in 1..(k - 1) : f[i] \in Nat
    BY <1>3, <2>2, <2>3
  <2> QED
    BY <2>2, <2>3, <2>5, <2>6, OneMoreBounded
<1>5. PICK b \in Nat : \A i \in 1..m : f[i] <= b
  BY <1>4 DEF BoundedTo
<1> QED
  BY <1>2, <1>5

\* A finite set of positive numbers that is not empty has a greatest.
LEMMA MaxIsGreatest ==
    ASSUME NEW S, S \subseteq Nat \ {0}, S # {}, IsFiniteSet(S)
    PROVE  Max(S) \in S /\ \A x \in S : x <= Max(S)
<1> DEFINE bounds == {b \in Nat : \A x \in S : x <= b}
<1>1. bounds # {}
  BY Bounded
<1>2. PICK b \in bounds : \A c \in bounds : b <= c
  BY <1>1, LeastNumber
<1>3. b \in S
  <2> SUFFICES ASSUME b \notin S PROVE FALSE
    OBVIOUS
  <2>1. PICK x \in S : TRUE
    OBVIOUS
  <2>2. b >= 1
    BY <2>1
  <2>3. b - 1 \in bounds
    BY <2>2
  <2> QED
    BY <1>2, <2>3
<1>4. \E x \in S : \A y \in S : x >= y
  BY <1>3
<1>5. Max(S) \in S /\ \A y \in S : Max(S) >= y
  BY <1>4 DEF Max
<1> QED
  BY <1>5

\* One turn of the loop, over the number of a revision.
Turn(f, first, bases, n) ==
    IF n = 0 THEN first ELSE IF n \in bases THEN OlderOf(f[n - 1], n) ELSE f[n - 1]

\* The runs of the loop, up to the revision numbered m.
IsLoop(f, first, bases, m) == f = [n \in 0..m |-> Turn(f, first, bases, n)]

\* The loop has a run.
LEMMA LoopRuns ==
    ASSUME NEW first, NEW bases, NEW m \in Nat
    PROVE  \E f : IsLoop(f, first, bases, m)
<1> DEFINE Runs(k) == \E f : IsLoop(f, first, bases, k)
           stuck == {k \in Nat : ~Runs(k)}
<1> SUFFICES ASSUME stuck # {} PROVE FALSE
  OBVIOUS
<1>1. PICK k \in stuck : \A j \in stuck : k <= j
  BY LeastNumber
<1>2. k # 0
  <2>1. Runs(0)
    <3> DEFINE g == [n \in 0..0 |-> first]
    <3>1. g = [n \in 0..0 |-> Turn(g, first, bases, n)]
      BY DEF Turn
    <3> QED
      BY <3>1 DEF IsLoop
  <2> QED
    BY <2>1
<1>3. k - 1 \in Nat /\ Runs(k - 1)
  BY <1>1, <1>2
<1>4. PICK f : f = [n \in 0..(k - 1) |-> Turn(f, first, bases, n)]
  BY <1>3 DEF IsLoop
<1> DEFINE g == [n \in 0..k |-> IF n = k THEN Turn(f, first, bases, k) ELSE f[n]]
<1>5. \A n \in 0..k : g[n] = Turn(g, first, bases, n)
  <2> TAKE n \in 0..k
  <2>1. n # 0 => n - 1 \in 0..(k - 1) /\ g[n - 1] = f[n - 1]
    BY <1>1
  <2>2. Turn(g, first, bases, n) = Turn(f, first, bases, n)
    BY <2>1 DEF Turn
  <2>3. CASE n = k
    BY <2>2, <2>3
  <2>4. CASE n # k
    <3>1. n \in 0..(k - 1)
      BY <1>1, <2>4
    <3>2. f[n] = Turn(f, first, bases, n)
      BY <1>4, <3>1
    <3> QED
      BY <2>2, <2>4, <3>2
  <2> QED
    BY <2>3, <2>4
<1>6. g = [n \in 0..k |-> Turn(g, first, bases, n)]
  BY <1>5
<1> QED
  BY <1>1, <1>6 DEF IsLoop

-----------------------------------------------------------------------------
\* One line of history.
OneLine(bases) == \A a, b \in bases : Reaches(a, b) \/ Reaches(b, a)

\* Where the loop is after the revisions up to n: at a baseline that the first
\* one and all up to n reach, or nowhere, and then history diverges.
GoodTurn(oldest, first, bases, n) ==
    \/ oldest = NoCommit /\ ~OneLine(bases)
    \/ /\ oldest \in bases
       /\ Reaches(first, oldest)
       /\ \A c \in bases : c <= n => Reaches(c, oldest)

\* One turn keeps to that.
LEMMA TurnKeeps ==
    ASSUME NEW bases \in SUBSET Commits, NEW first \in bases,
           NEW n \in Nat, n # 0, NEW oldest, GoodTurn(oldest, first, bases, n - 1)
    PROVE  GoodTurn(IF n \in bases THEN OlderOf(oldest, n) ELSE oldest, first, bases, n)
<1>1. \A c \in bases : c <= n => c = n \/ c <= n - 1
  BY CommitAssumption
<1>2. CASE n \notin bases
  BY <1>1, <1>2 DEF GoodTurn
<1>3. CASE n \in bases /\ oldest = NoCommit
  <2>1. OlderOf(oldest, n) = NoCommit
    BY <1>3 DEF OlderOf
  <2>2. ~OneLine(bases)
    BY <1>3, CommitAssumption DEF GoodTurn
  <2> QED
    BY <1>3, <2>1, <2>2 DEF GoodTurn
<1>4. CASE n \in bases /\ oldest # NoCommit
  <2>1. oldest \in bases /\ Reaches(first, oldest)
        /\ \A c \in bases : c <= n - 1 => Reaches(c, oldest)
    BY <1>4 DEF GoodTurn
  <2>2. CASE Reaches(oldest, n)
    <3>1. OlderOf(oldest, n) = n
      BY <1>4, <2>2 DEF OlderOf
    <3>2. \A c \in bases : Reaches(c, oldest) => Reaches(c, n)
      BY <1>4, <2>1, <2>2, CommitAssumption DEF Reaches
    <3>3. Reaches(n, n)
      BY <1>4, CommitAssumption DEF Reaches
    <3> QED
      BY <1>1, <1>4, <2>1, <3>1, <3>2, <3>3 DEF GoodTurn
  <2>3. CASE ~Reaches(oldest, n) /\ Reaches(n, oldest)
    <3>1. OlderOf(oldest, n) = oldest
      BY <1>4, <2>3 DEF OlderOf
    <3> QED
      BY <1>1, <1>4, <2>1, <2>3, <3>1 DEF GoodTurn
  <2>4. CASE ~Reaches(oldest, n) /\ ~Reaches(n, oldest)
    <3>1. OlderOf(oldest, n) = NoCommit
      BY <1>4, <2>4 DEF OlderOf
    <3>2. ~OneLine(bases)
      BY <1>4, <2>1, <2>4 DEF OneLine
    <3> QED
      BY <1>4, <3>1, <3>2 DEF GoodTurn
  <2> QED
    BY <2>2, <2>3, <2>4
<1> QED
  BY <1>2, <1>3, <1>4

\* All turns do.
LEMMA LoopIsGood ==
    ASSUME NEW bases \in SUBSET Commits, NEW first \in bases,
           NEW m \in Nat, NEW f, IsLoop(f, first, bases, m)
    PROVE  \A n \in 0..m : GoodTurn(f[n], first, bases, n)
<1>1. \A n \in 0..m : f[n] = Turn(f, first, bases, n)
  BY DEF IsLoop
<1> DEFINE bad == {n \in 0..m : ~GoodTurn(f[n], first, bases, n)}
<1> SUFFICES ASSUME bad # {} PROVE FALSE
  OBVIOUS
<1>2. bad \subseteq Nat
  OBVIOUS
<1>3. PICK n \in bad : \A k \in bad : n <= k
  BY <1>2, LeastNumber
<1>4. n \in 0..m /\ ~GoodTurn(f[n], first, bases, n)
  OBVIOUS
<1>5. n # 0
  <2>1. Reaches(first, first)
    BY CommitAssumption DEF Reaches
  <2>2. \A c \in bases : ~(c <= 0)
    BY CommitAssumption
  <2>3. GoodTurn(first, first, bases, 0)
    BY <2>1, <2>2 DEF GoodTurn
  <2>4. f[0] = first
    BY <1>1 DEF Turn
  <2> QED
    BY <1>4, <2>3, <2>4
<1>6. n \in Nat /\ n - 1 \in 0..m /\ ~(n <= n - 1)
  BY <1>4, <1>5
<1>7. GoodTurn(f[n - 1], first, bases, n - 1)
  BY <1>3, <1>6
<1>8. f[n] = IF n \in bases THEN OlderOf(f[n - 1], n) ELSE f[n - 1]
  BY <1>1, <1>4, <1>5 DEF Turn
<1> QED
  BY <1>4, <1>5, <1>6, <1>7, <1>8, TurnKeeps

\* What migration_base() returns is where its loop ends.
LEMMA BaseIsLastTurn ==
    ASSUME NEW first, NEW bases, bases # {}, NoCommit \notin bases, Max(bases) \in Nat
    PROVE  \E f : /\ IsLoop(f, first, bases, Max(bases))
                  /\ MigrationBase(first, bases) = f[Max(bases)]
<1> DEFINE m == Max(bases)
           P(f) == f = [n \in 0..m |->
                          IF n = 0 THEN first
                          ELSE IF n \in bases THEN OlderOf(f[n - 1], n) ELSE f[n - 1]]
           last == CHOOSE f : P(f)
<1>1. \E f : P(f)
  <2>1. PICK f : IsLoop(f, first, bases, m)
    BY LoopRuns
  <2>2. P(f)
    BY <2>1 DEF IsLoop, Turn
  <2> QED
    BY <2>2
<1>2. P(last)
  <2> HIDE DEF P
  <2> QED
    BY <1>1, Zenon
<1>3. MigrationBase(first, bases) = last[m]
  BY Zenon DEF MigrationBase
<1>4. IsLoop(last, first, bases, m)
  <2> HIDE DEF last
  <2> QED
    BY <1>2 DEF IsLoop, Turn
<1> QED
  BY <1>3, <1>4

\* The answer of migration_base() is one of the baselines and an ancestor of
\* them all, so that the SQL validation from there covers every considered
\* image; baselines on one line of history always have one.
THEOREM BaseIsOldest ==
    ASSUME NEW bases \in SUBSET Commits, NEW first \in bases
    PROVE  LET base == MigrationBase(first, bases)
           IN  /\ base # NoCommit => base \in bases /\ \A c \in bases : Reaches(c, base)
               /\ OneLine(bases) => base # NoCommit
<1>1. bases \subseteq Nat \ {0} /\ NoCommit \notin bases /\ bases # {}
  BY CommitAssumption
<1>2. IsFiniteSet(bases)
  BY CommitAssumption, FS_Subset
<1>3. Max(bases) \in bases /\ \A c \in bases : c <= Max(bases)
  BY <1>1, <1>2, MaxIsGreatest
<1>4. Max(bases) \in Nat
  BY <1>1, <1>3
<1>5. PICK f : /\ IsLoop(f, first, bases, Max(bases))
              /\ MigrationBase(first, bases) = f[Max(bases)]
  BY <1>1, <1>4, BaseIsLastTurn
<1>6. \A n \in 0..Max(bases) : GoodTurn(f[n], first, bases, n)
  BY <1>4, <1>5, LoopIsGood
<1>7. GoodTurn(MigrationBase(first, bases), first, bases, Max(bases))
  BY <1>4, <1>5, <1>6
<1> QED
  BY <1>1, <1>3, <1>7 DEF GoodTurn

-----------------------------------------------------------------------------
(* The base of a dispatch: what was found out about an image stays true    *)
(* while :latest moves on, and the base is older than all of it.           *)

\* The revision at :latest of image s is, or has, commit c.
Carries(s, c) == latest[s] # NoCommit /\ Reaches(latest[s], c)

WorldInv ==
    /\ head \in [Groups -> Commits]
    /\ latest \in [Services -> Commits \cup {NoCommit}]
    /\ sha \in Commits

\* A dispatch whose images all carry its base.
Covered(r) ==
    /\ r.ref \in Commits /\ r.base \in Commits \cup {NoCommit} /\ r.wanted \subseteq Services
    /\ r.base # NoCommit => \A s \in r.wanted : Carries(s, r.base)

DispatchInv == \A r \in pending \cup running \cup waiting : Covered(r)

\* A baseline that was found stays one: :latest of its image has moved only to
\* descendants.
FactsInv ==
    /\ missing \subseteq Services
    /\ DOMAIN facts \subseteq missing
    /\ pc # "probe" => DOMAIN facts = {}
    /\ \A s \in DOMAIN facts :
          /\ facts[s].promoted \in Commits \cup {NoCommit}
          /\ Baseline(facts[s], sha) => Carries(s, facts[s].promoted)

BaseInv == WorldInv /\ FactsInv /\ DispatchInv

\* Who reaches a commit reaches its ancestors.
LEMMA ReachesOn ==
    ASSUME NEW a \in Commits, NEW b \in Commits, NEW c \in Commits,
           Reaches(a, b), Reaches(b, c)
    PROVE  Reaches(a, c)
  BY CommitAssumption DEF Reaches

\* A run that marks an image gives it one more revision.
LEMMA MarkIsPromised ==
    ASSUME NEW r, r.ref \in Commits, NEW s, MarkBuilt(r, s)
    PROVE  /\ Registry(s)!Mark(r.ref)
           /\ \A t \in Services : t # s => UNCHANGED Registry(t)!seen
<1>1. built' = built \cup {<<s, r.ref>>} /\ UNCHANGED latest
  BY DEF MarkBuilt
<1>2. {c \in Commits : <<s, c>> \in built'} = {c \in Commits : <<s, c>> \in built} \cup {r.ref}
  BY <1>1
<1>3. \A t : t # s =>
         {c \in Commits : <<t, c>> \in built'} = {c \in Commits : <<t, c>> \in built}
  BY <1>1
<1> QED
  BY <1>1, <1>2, <1>3 DEF Registry!Mark, Registry!seen

\* A run that promotes an image moves its :latest to a marked descendant.
LEMMA PromoteIsPromised ==
    ASSUME WorldInv, NEW r, r.ref \in Commits, NEW s \in Services, Promote(r, s)
    PROVE  /\ Registry(s)!Advance(r.ref)
           /\ \A t \in Services : t # s => UNCHANGED Registry(t)!seen
<1>1. /\ latest' = [latest EXCEPT ![s] = r.ref] /\ UNCHANGED built
      /\ <<s, r.ref>> \in built
      /\ latest[s] # NoCommit => Reaches(r.ref, latest[s])
  BY DEF Promote, Promotable
<1>2. latest'[s] = r.ref /\ \A t \in Services : t # s => latest'[t] = latest[t]
  BY <1>1 DEF WorldInv
<1> QED
  BY <1>1, <1>2 DEF Registry!Advance, Registry!seen, Reaches

\* Whatever a step does, no image sees more than its registry promises.
Promised == \A s \in Services : Registry(s)!Next \/ UNCHANGED Registry(s)!seen

LEMMA RegistryStep == WorldInv /\ DispatchInv /\ [Next]_vars => Promised
<1> SUFFICES ASSUME WorldInv, DispatchInv, [Next]_vars PROVE Promised
  OBVIOUS
<1>1. CASE UNCHANGED <<built, latest>>
  BY <1>1 DEF Promised, Registry!seen
<1>2. ASSUME NEW r \in running, NEW s \in Services, MarkBuilt(r, s) \/ Promote(r, s)
      PROVE  Promised
  <2>1. r.ref \in Commits
    BY DEF DispatchInv, Covered
  <2>2. Registry(s)!Next
    BY <1>2, <2>1, MarkIsPromised, PromoteIsPromised DEF Registry!Next
  <2>3. \A t \in Services : t # s => UNCHANGED Registry(t)!seen
    BY <1>2, <2>1, MarkIsPromised, PromoteIsPromised
  <2> QED
    BY <2>2, <2>3 DEF Promised
<1>3. ASSUME NEW r \in running, Proceed(r) \/ Fail(r) \/ \E s \in Services : Promote(r, s)
      PROVE  Promised
  <2>1. CASE Succeed(r) \/ Fail(r)
    BY <1>1, <2>1 DEF Succeed, Fail, EndRun, world
  <2> QED
    BY <1>2, <1>3, <2>1 DEF Proceed
<1>4. CASE Round \/ PollFails \/ (\E s \in Services : AskInVain(s)) \/ UNCHANGED vars
  BY <1>1, <1>4
  DEF Round, StartRound, NothingMissing, Decide, RefuseOps, ScanEnds, ListRuns, EndRound,
      ReadHead, Probe, Ask, Asks, AskInVain, Send, PollFails, vars, world
<1>5. ASSUME NEW g \in Groups, Push(g) \/ Release(g) PROVE Promised
  BY <1>1, <1>5 DEF Push, Release, world
<1> QED
  BY <1>3, <1>4, <1>5 DEF Next

\* By that promise alone, an image keeps what it carries.
LEMMA PromiseKeeps ==
    ASSUME WorldInv, Promised
    PROVE  /\ \A s \in Services : latest'[s] \in Commits \cup {NoCommit}
           /\ \A s \in Services : \A c \in Commits : Carries(s, c) => Carries(s, c)'
<1> SUFFICES ASSUME NEW s \in Services
             PROVE  /\ latest'[s] \in Commits \cup {NoCommit}
                    /\ \A c \in Commits : Carries(s, c) => Carries(s, c)'
  OBVIOUS
<1>1. latest[s] \in Commits \cup {NoCommit}
  BY DEF WorldInv
<1>2. CASE latest'[s] = latest[s]
  BY <1>1, <1>2 DEF Carries
<1>3. ASSUME NEW d \in Commits, Registry(s)!Advance(d)
      PROVE  /\ latest'[s] \in Commits \cup {NoCommit}
             /\ \A c \in Commits : Carries(s, c) => Carries(s, c)'
  <2>1. latest'[s] = d /\ (latest[s] # NoCommit => Reaches(d, latest[s]))
    BY <1>3 DEF Registry!Advance, Reaches
  <2>2. d # NoCommit
    BY CommitAssumption
  <2>3. ASSUME NEW c \in Commits, Carries(s, c) PROVE Carries(s, c)'
    <3>1. latest[s] \in Commits /\ latest[s] # NoCommit /\ Reaches(latest[s], c)
      BY <1>1, <2>3 DEF Carries
    <3>2. Reaches(d, c)
      BY <2>1, <3>1, ReachesOn
    <3> QED
      BY <2>1, <2>2, <3>2 DEF Carries
  <2> QED
    BY <2>1, <2>3
<1>4. latest'[s] = latest[s] \/ \E d \in Commits : Registry(s)!Advance(d)
  BY DEF Promised, Registry!Next, Registry!Mark, Registry!seen
<1> QED
  BY <1>2, <1>3, <1>4

\* A dispatch with a base covers what it was decided for.
LEMMA DispatchCovers ==
    ASSUME WorldInv, FactsInv, Asked
    PROVE  /\ Dispatch.ref \in Commits /\ Dispatch.wanted = missing
           /\ Dispatch.base \in Commits \cup {NoCommit}
           /\ Dispatch.base # NoCommit => \A s \in missing : Carries(s, Dispatch.base)
<1> DEFINE bases == {facts[s].promoted : s \in missing}
           first == facts[CHOOSE s \in missing : TRUE].promoted
<1>1. /\ Dispatch.ref = sha /\ Dispatch.wanted = missing
      /\ Dispatch.base =
           IF group \in OpsGroups /\ \A s \in missing : Baseline(facts[s], sha)
           THEN MigrationBase(first, bases) ELSE NoCommit
  BY DEF Dispatch
<1>2. sha \in Commits
  BY DEF WorldInv
<1>3. CASE Dispatch.base = NoCommit
  BY <1>1, <1>2, <1>3
<1>4. CASE Dispatch.base # NoCommit
  <2>1. /\ \A s \in missing : Baseline(facts[s], sha)
        /\ Dispatch.base = MigrationBase(first, bases)
    BY <1>1, <1>4
  <2>2. \A s \in missing : facts[s].promoted \in Commits /\ Carries(s, facts[s].promoted)
    BY <2>1 DEF FactsInv, Asked, Baseline
  <2>3. bases \in SUBSET Commits
    BY <2>2
  <2>4. first \in bases
    BY DEF Asked
  <2>5. Dispatch.base \in bases /\ \A c \in bases : Reaches(c, Dispatch.base)
    <3> HIDE DEF bases, first
    <3> QED
      BY <1>4, <2>1, <2>3, <2>4, BaseIsOldest
  <2>6. ASSUME NEW s \in missing PROVE Carries(s, Dispatch.base)
    <3>1. s \in Services /\ facts[s].promoted \in bases
      BY DEF FactsInv
    <3>2. latest[s] \in Commits /\ Reaches(latest[s], facts[s].promoted)
      BY <2>2, <3>1 DEF Carries, WorldInv
    <3>3. Reaches(latest[s], Dispatch.base)
      BY <2>3, <2>5, <3>1, <3>2, ReachesOn
    <3> QED
      BY <2>2, <3>3 DEF Carries
  <2> QED
    BY <1>1, <1>2, <2>3, <2>5, <2>6
<1> QED
  BY <1>3, <1>4

\* What is found out about an image is what it carries.
LEMMA AnswerIsCarried ==
    ASSUME WorldInv, FactsInv, NEW s \in missing, NEW provenance, NEW unread,
           facts' = WithAnswer(s, FactsAbout(s, provenance, unread)),
           UNCHANGED <<latest, sha, missing, pc>>, pc = "probe"
    PROVE  FactsInv'
<1>1. FactsAbout(s, provenance, unread).promoted = latest[s]
  BY DEF FactsAbout
<1>2. s \in Services
  BY DEF FactsInv
<1>3. facts'[s] = FactsAbout(s, provenance, unread)
  BY DEF WithAnswer
<1>4. DOMAIN facts' = DOMAIN facts \cup {s} /\ \A t \in DOMAIN facts \ {s} : facts'[t] = facts[t]
  BY DEF WithAnswer
<1>5. latest[s] \in Commits => Reaches(latest[s], latest[s])
  BY CommitAssumption DEF Reaches
<1>6. /\ facts'[s].promoted \in Commits \cup {NoCommit}
      /\ Baseline(facts'[s], sha') => Carries(s, facts[s].promoted)'
  BY <1>1, <1>2, <1>3, <1>5 DEF WorldInv, Baseline, Carries
<1>7. \A t \in DOMAIN facts \ {s} :
          /\ facts'[t].promoted \in Commits \cup {NoCommit}
          /\ Baseline(facts'[t], sha') => Carries(t, facts[t].promoted)'
  BY <1>4 DEF FactsInv, Carries
<1> QED
  BY <1>4, <1>6, <1>7 DEF FactsInv

\* Dispatches stay covered as long as images keep what they carry.
LEMMA CoveredStays ==
    ASSUME DispatchInv,
           \A s \in Services : \A c \in Commits : Carries(s, c) => Carries(s, c)',
           \A r \in (pending \cup running \cup waiting)' :
              r \in pending \cup running \cup waiting \/ Covered(r)
    PROVE  DispatchInv'
<1>1. ASSUME NEW r, Covered(r) PROVE Covered(r)'
  BY <1>1, CommitAssumption DEF Covered
<1> QED
  BY <1>1 DEF DispatchInv

\* Initially nothing is known and nothing dispatched.
LEMMA InitBase == Init => BaseInv
<1> SUFFICES ASSUME Init PROVE BaseInv
  OBVIOUS
<1>1. head \in [Groups -> Commits] /\ group \in Groups /\ sha = head[group]
  BY DEF Init
<1>2. DOMAIN facts = {} /\ missing = {}
  BY DEF Init
<1>3. pending = {} /\ running = {} /\ waiting = {}
      /\ latest \in [Services -> Commits \cup {NoCommit}]
  BY DEF Init
<1> QED
  BY <1>1, <1>2, <1>3 DEF BaseInv, WorldInv, FactsInv, DispatchInv

\* The end of a round forgets what it found out.
LEMMA EndRoundForgets ==
    ASSUME BaseInv, EndRound
    PROVE  BaseInv'
<1>1. UNCHANGED <<head, latest, sha, running, waiting>>
  BY DEF EndRound, world, queues
<1>2. pc' # "probe" /\ DOMAIN facts' = {} /\ missing' = {} /\ pending' = {}
  BY DEF EndRound
<1>3. FactsInv'
  BY <1>2 DEF FactsInv
<1>4. DispatchInv'
  BY <1>1, <1>2, CoveredStays DEF BaseInv, Carries
<1> QED
  BY <1>1, <1>3, <1>4 DEF BaseInv, WorldInv

\* Steps that leave :latest and the dispatches alone need only keep the facts.
LEMMA OnlyFacts ==
    ASSUME BaseInv, UNCHANGED <<latest, sha>>, head' \in [Groups -> Commits],
           (pending \cup running \cup waiting)' \subseteq pending \cup running \cup waiting,
           FactsInv'
    PROVE  BaseInv'
<1>1. DispatchInv'
  BY CoveredStays DEF BaseInv, Carries
<1> QED
  BY <1>1 DEF BaseInv, WorldInv

\* No step makes a dispatch lose an image from its base.
LEMMA BaseStep == BaseInv /\ [Next]_vars => BaseInv'
<1> SUFFICES ASSUME BaseInv, [Next]_vars PROVE BaseInv'
  OBVIOUS
<1>1. WorldInv /\ FactsInv /\ DispatchInv /\ head \in [Groups -> Commits]
  BY DEF BaseInv, WorldInv
<1>2. CASE StartRound \/ UNCHANGED vars \/ \E g \in Groups : Push(g)
  <2>1. UNCHANGED <<latest, sha, missing, facts, running, waiting>>
        /\ (pending' = pending \/ pending' = {})
    BY <1>2 DEF StartRound, Push, vars, world, queues, scan
  <2>2. pc' = pc \/ (pc = "idle" /\ pc' = "scan")
    BY <1>2 DEF StartRound, Push, vars
  <2>3. head' \in [Groups -> Commits]
    BY <1>1, <1>2 DEF StartRound, Push, vars, world
  <2>4. FactsInv'
    BY <1>1, <2>1, <2>2 DEF FactsInv, Carries
  <2> QED
    BY <2>1, <2>3, <2>4, OnlyFacts
<1>3. CASE NothingMissing
  <2>1. /\ UNCHANGED <<head, latest, sha, missing, facts, pending, running, waiting>>
        /\ missing = {} /\ pc' = "scan"
    BY <1>3 DEF NothingMissing, world, queues, scan
  <2>2. FactsInv'
    BY <1>1, <2>1 DEF FactsInv
  <2> QED
    BY <1>1, <2>1, <2>2, OnlyFacts
<1>4. CASE Decide
  <2>1. /\ Asked /\ UNCHANGED <<head, latest, sha, running, waiting>>
        /\ pc' = "scan" /\ missing' = {} /\ DOMAIN facts' = {}
    BY <1>4 DEF Decide, world, queues
  <2>2. pending' \subseteq pending \cup {Dispatch}
    BY <1>4 DEF Decide
  <2>3. Covered(Dispatch)
    BY <1>1, <2>1, DispatchCovers DEF Covered, FactsInv
  <2>4. DispatchInv'
    BY <1>1, <2>1, <2>2, <2>3, CoveredStays DEF Carries
  <2> QED
    BY <1>1, <2>1, <2>4 DEF BaseInv, WorldInv, FactsInv
<1>5. CASE RefuseOps \/ PollFails
  BY <1>5, EndRoundForgets DEF RefuseOps, PollFails
<1>6. CASE ScanEnds \/ ListRuns
  <2>1. CASE EndRound
    BY <2>1, EndRoundForgets
  <2>2. CASE ~EndRound
    <3>1. UNCHANGED <<head, latest, sha, missing, facts, pending, running, waiting>>
          /\ pc # "probe" /\ pc' # "probe"
      BY <1>6, <2>2 DEF ScanEnds, ListRuns, world, queues, scan
    <3>2. FactsInv'
      BY <1>1, <3>1 DEF FactsInv
    <3> QED
      BY <1>1, <3>1, <3>2, OnlyFacts
  <2> QED
    BY <2>1, <2>2
<1>7. ASSUME NEW g \in Groups, ReadHead(g) PROVE BaseInv'
  <2>1. /\ UNCHANGED <<head, latest, facts, pending, running, waiting>>
        /\ pc = "scan" /\ sha' = head[g] /\ missing' = {}
    BY <1>7 DEF ReadHead, world, queues
  <2>2. FactsInv'
    BY <1>1, <2>1 DEF FactsInv
  <2>3. DispatchInv'
    BY <1>1, <2>1, CoveredStays DEF Carries
  <2> QED
    BY <1>1, <2>1, <2>2, <2>3 DEF BaseInv, WorldInv
<1>8. ASSUME NEW s \in Services, Probe(s) PROVE BaseInv'
  <2>1. /\ UNCHANGED <<head, latest, sha, facts, pending, running, waiting, pc>>
        /\ missing' \in {missing, missing \cup {s}}
    BY <1>8 DEF Probe, world, queues
  <2>2. FactsInv'
    BY <1>1, <2>1 DEF FactsInv, Carries
  <2> QED
    BY <1>1, <2>1, <2>2, OnlyFacts
<1>9. ASSUME NEW s \in Services, Ask(s) \/ AskInVain(s) PROVE BaseInv'
  <2>1. /\ UNCHANGED <<head, latest, sha, missing, pending, running, waiting, pc>>
        /\ pc = "probe" /\ s \in missing
    BY <1>9 DEF Ask, AskInVain, Asks, world, queues
  <2>2. PICK provenance, unread : facts' = WithAnswer(s, FactsAbout(s, provenance, unread))
    BY <1>9 DEF Ask, AskInVain
  <2>3. FactsInv'
    BY <1>1, <2>1, <2>2, AnswerIsCarried
  <2> QED
    BY <1>1, <2>1, <2>3, OnlyFacts
<1>10. ASSUME NEW r \in pending, Send(r) PROVE BaseInv'
  <2>1. /\ UNCHANGED <<head, latest, sha, missing, facts>> /\ Start(r)
        /\ pending' = pending \ {r} /\ pc = "send" /\ pc' # "probe"
    BY <1>10 DEF Send, world, scan
  <2>2. running' \cup waiting' \subseteq running \cup waiting \cup {r}
    BY <2>1, StartAdds
  <2>3. FactsInv'
    BY <1>1, <2>1 DEF FactsInv
  <2> QED
    BY <1>1, <2>1, <2>2, <2>3, OnlyFacts
<1>11. ASSUME NEW g \in Groups, Release(g) PROVE BaseInv'
  <2>1. UNCHANGED <<head, latest, sha, missing, facts, pending, pc>>
    BY <1>11 DEF Release, world, scan
  <2>2. PICK r : r.ref = head[g] /\ r.base = NoCommit /\ r.wanted = {} /\ Start(r)
    BY <1>11 DEF Release
  <2>3. running' \cup waiting' \subseteq running \cup waiting \cup {r}
    BY <2>2, StartAdds
  <2>4. Covered(r)
    BY <1>1, <2>2 DEF Covered
  <2>5. DispatchInv'
    BY <1>1, <2>1, <2>3, <2>4, CoveredStays DEF Carries
  <2>6. FactsInv'
    BY <1>1, <2>1 DEF FactsInv, Carries
  <2> QED
    BY <1>1, <2>1, <2>5, <2>6 DEF BaseInv, WorldInv
<1>12. ASSUME NEW r \in running, Proceed(r) \/ Fail(r) \/ \E s \in Services : Promote(r, s)
       PROVE  BaseInv'
  <2>1. UNCHANGED <<head, sha, missing, facts, pending, pc>>
        /\ running' \cup waiting' \subseteq running \cup waiting
    BY <1>12, RunSteps DEF scan
  <2>2. Promised
    BY <1>1, RegistryStep
  <2>3. latest' \in [Services -> Commits \cup {NoCommit}]
    <3>1. UNCHANGED latest
          \/ \E s \in Services : latest' = [latest EXCEPT ![s] = r.ref]
      BY <1>12 DEF Proceed, Succeed, Fail, EndRun, MarkBuilt, Promote, world
    <3>2. r.ref \in Commits
      BY <1>1 DEF DispatchInv, Covered
    <3> QED
      BY <1>1, <3>1, <3>2 DEF WorldInv
  <2>4. \A s \in Services : \A c \in Commits : Carries(s, c) => Carries(s, c)'
    BY <1>1, <2>2, PromiseKeeps
  <2>5. DispatchInv'
    BY <1>1, <2>1, <2>4, CoveredStays
  <2>6. ASSUME NEW s \in DOMAIN facts, Baseline(facts[s], sha)
        PROVE  Carries(s, facts[s].promoted)'
    <3>1. s \in Services /\ facts[s].promoted \in Commits /\ Carries(s, facts[s].promoted)
      BY <1>1, <2>6 DEF FactsInv, Baseline
    <3> QED
      BY <2>1, <2>4, <3>1 DEF Carries
  <2>7. FactsInv'
    BY <1>1, <2>1, <2>6 DEF FactsInv
  <2> QED
    BY <2>1, <2>3, <2>5, <2>7, <1>1 DEF BaseInv, WorldInv
<1> QED
  BY <1>2, <1>3, <1>4, <1>5, <1>6, <1>7, <1>8, <1>9, <1>10, <1>11, <1>12
  DEF Next, Round

\* What an ops run validates starts at or before what each image it was decided
\* for has promoted, when the poll decides (migration_base) and ever after,
\* although releases move :latest under it.
THEOREM BaseStaysCovered == Spec => []BaseCoversConsidered
<1>1. BaseInv => BaseCoversConsidered
  BY DEF BaseInv, DispatchInv, Covered, Carries, BaseCoversConsidered
<1> QED
  BY InitBase, BaseStep, <1>1, PTL DEF Spec

-----------------------------------------------------------------------------
(* Types, and the other direction: whatever the registry's promise lets an *)
(* active run do, the runs of Poll may do, at any time.                    *)

\* The poller promotes nothing, and a release was started at a HEAD of its
\* group, which the branch has kept.
BranchInv ==
    /\ \A r \in pending : ~r.promote
    /\ \A r \in running \cup waiting : r.promote =>
          r.target \in Groups /\ Reaches(head[r.target], r.ref)

FullInv == TypeOK /\ RoundInv /\ BaseInv /\ BranchInv

\* A dispatch with something to build is a run.
LEMMA DispatchIsRun ==
    ASSUME TypeOK, WorldInv, FactsInv, Asked, Dispatch.build # {}
    PROVE  Dispatch \in Run
<1> DEFINE build == {s \in missing : ~Skips(facts[s], sha)}
<1>1. PICK base :
          Dispatch = [by |-> 0, target |-> Target(group, build, missing), ref |-> sha,
                      promote |-> FALSE, base |-> base, wanted |-> missing, build |-> build]
  BY DEF Dispatch
<1>2. missing \subseteq Services /\ build \subseteq Services /\ build # {}
  BY <1>1 DEF FactsInv
<1>3. base \in Commits \cup {NoCommit} /\ sha \in Commits
  BY <1>1, DispatchCovers DEF WorldInv
<1> HIDE DEF build
<1>4. Target(group, build, missing) \in Groups \cup Services
  <2>1. Target(group, build, missing) \in {group} \cup build
    BY <1>2 DEF Target
  <2> QED
    BY <1>2, <2>1 DEF TypeOK
<1>5. 0 \in 0..MaxReleases
  BY GroupAssumption
<1> QED
  BY <1>1, <1>2, <1>3, <1>4, <1>5 DEF Run

\* What decide() finds out has the type of an answer.
LEMMA AnswerIsFacts ==
    ASSUME WorldInv, NEW s \in Services, NEW provenance \in {"verified", "unknown"}, NEW unread
    PROVE  FactsAbout(s, provenance, unread) \in Facts
<1> DEFINE inputs == CASE unread -> "unknown"
                       [] ~unread /\ SameInputs(s, latest[s], sha) -> "unchanged"
                       [] ~unread /\ ~SameInputs(s, latest[s], sha) -> "changed"
<1>1. latest[s] \in Commits \cup {NoCommit}
  BY DEF WorldInv
<1>2. inputs \in Three
  BY DEF Three
<1>3. FactsAbout(s, provenance, unread)
        = [promoted |-> latest[s], provenance |-> provenance, recipe |-> "unchanged",
           inputs |-> inputs, floating |-> FALSE]
  BY DEF FactsAbout
<1> HIDE DEF inputs
<1> QED
  BY <1>1, <1>2, <1>3 DEF Facts, Three

\* A run that starts is queued with runs.
LEMMA StartTyped ==
    ASSUME running \subseteq Run, waiting \subseteq Run, NEW r \in Run, Start(r)
    PROVE  running' \subseteq Run /\ waiting' \subseteq Run
  BY DEF Start

\* What the invariants above do not say of the types.
Typed ==
    /\ built \subseteq Services \X Commits
    /\ running \subseteq Run /\ waiting \subseteq Run /\ pending \subseteq Run
    /\ pc \in {"idle", "scan", "probe", "list", "send"}
    /\ probes \subseteq Services
    /\ \A s \in DOMAIN facts : facts[s] \in Facts
    /\ pushes \in 0..MaxPushes /\ releases \in 0..MaxReleases /\ failures \in 0..MaxFailures

\* With these, the types are complete.
LEMMA TypeParts == TypeOK <=> /\ Typed
                              /\ todo \subseteq Groups /\ group \in Groups
                              /\ head \in [Groups -> Commits] /\ sha \in Commits
                              /\ latest \in [Services -> Commits \cup {NoCommit}]
                              /\ missing \subseteq Services /\ DOMAIN facts \subseteq missing
  BY DEF TypeOK, Typed

\* The number of failures stays below its bound.
LEMMA OneMoreFailure ==
    ASSUME MaxFailures \in Nat, failures \in 0..MaxFailures,
           UNCHANGED failures \/ (failures < MaxFailures /\ failures' = failures + 1)
    PROVE  failures' \in 0..MaxFailures
  OBVIOUS

\* Every step keeps the types.
LEMMA TypedStep == TypeOK /\ RoundInv /\ BaseInv /\ [Next]_vars => Typed'
<1> SUFFICES ASSUME TypeOK, RoundInv, BaseInv, [Next]_vars PROVE Typed'
  OBVIOUS
<1>1. Typed /\ WorldInv /\ FactsInv /\ group \in Groups /\ todo \subseteq Groups
  BY TypeParts DEF BaseInv, RoundInv
<1>2. MaxPushes \in Nat /\ MaxReleases \in Nat /\ MaxFailures \in Nat
  BY GroupAssumption
<1> USE DEF Typed
<1>3. CASE EndRound /\ pushes' = pushes /\ releases' = releases /\ failures' \in 0..MaxFailures
  BY <1>1, <1>3 DEF EndRound, world, queues
<1>4. CASE StartRound \/ NothingMissing
  BY <1>1, <1>4 DEF StartRound, NothingMissing, world, queues, scan, counters
<1>5. ASSUME NEW g \in Groups, ReadHead(g) PROVE Typed'
  <2>1. ServicesOf[g] \subseteq Services
    BY DEF Services
  <2> QED
    BY <1>1, <1>5, <2>1 DEF ReadHead, world, queues, counters
<1>6. ASSUME NEW s \in Services, Probe(s) PROVE Typed'
  BY <1>1, <1>6 DEF Probe, world, queues, counters
<1>7. ASSUME NEW s \in Services, Ask(s) \/ AskInVain(s) PROVE Typed'
  <2>1. UNCHANGED <<built, running, waiting, pending, pc, probes, pushes, releases>>
    BY <1>7 DEF Ask, AskInVain, Asks, world, queues, counters
  <2>2. failures' \in 0..MaxFailures
    <3>1. UNCHANGED failures \/ (failures < MaxFailures /\ failures' = failures + 1)
      BY <1>7 DEF Ask, AskInVain, counters
    <3> QED
      BY <1>1, <1>2, <3>1, OneMoreFailure
  <2>3. PICK provenance \in {"verified", "unknown"}, unread \in BOOLEAN :
            facts' = WithAnswer(s, FactsAbout(s, provenance, unread))
    BY <1>7 DEF Ask, AskInVain
  <2>4. FactsAbout(s, provenance, unread) \in Facts
    BY <1>1, AnswerIsFacts
  <2>5. \A t \in DOMAIN facts' : facts'[t] \in Facts
    <3> HIDE DEF Typed
    <3> DEFINE answer == FactsAbout(s, provenance, unread)
    <3>1. facts' = [t \in DOMAIN facts \cup {s} |-> IF t = s THEN answer ELSE facts[t]]
      BY <2>3 DEF WithAnswer
    <3>2. \A t \in DOMAIN facts : facts[t] \in Facts
      BY <1>1 DEF Typed
    <3>3. answer \in Facts
      BY <2>4
    <3> HIDE DEF answer
    <3> QED
      BY <3>1, <3>2, <3>3
  <2> QED
    BY <1>1, <2>1, <2>2, <2>5
<1>8. CASE Decide
  <2>1. /\ UNCHANGED <<built, running, waiting, probes, pushes, releases, failures>>
        /\ pc' = "scan" /\ DOMAIN facts' = {} /\ Asked
    BY <1>8 DEF Decide, world, queues, counters
  <2>2. pending' = pending \/ (Dispatch.build # {} /\ pending' = pending \cup {Dispatch})
    BY <1>8 DEF Decide
  <2>3. pending' \subseteq Run
    BY <1>1, <2>1, <2>2, DispatchIsRun
  <2> QED
    BY <1>1, <2>1, <2>3
<1>9. CASE RefuseOps \/ PollFails
  BY <1>1, <1>2, <1>3, <1>9 DEF RefuseOps, PollFails, counters
<1>10. CASE ScanEnds \/ ListRuns
  <2>1. CASE EndRound
    BY <1>1, <1>3, <1>10, <2>1 DEF ScanEnds, ListRuns, counters
  <2>2. CASE ~EndRound
    BY <1>1, <1>10, <2>2 DEF ScanEnds, ListRuns, world, queues, scan, counters
  <2> QED
    BY <2>1, <2>2
<1>11. ASSUME NEW r \in pending, Send(r) PROVE Typed'
  <2>1. r \in Run /\ Start(r) /\ pending' = pending \ {r} /\ pc' \in {"idle", "send"}
        /\ UNCHANGED <<built, probes, facts, pushes, releases, failures>>
    BY <1>1, <1>11 DEF Send, world, scan, counters
  <2>2. running' \subseteq Run /\ waiting' \subseteq Run
    BY <1>1, <2>1, StartTyped
  <2> QED
    BY <1>1, <2>1, <2>2
<1>12. ASSUME NEW r \in running, Proceed(r) \/ Fail(r) \/ \E s \in Services : Promote(r, s)
       PROVE  Typed'
  <2>1. UNCHANGED <<pc, probes, facts, pending, pushes, releases>>
    BY <1>12, RunSteps DEF Proceed, Succeed, Fail, MarkBuilt, Promote, Publishes, scan, counters
  <2>2. failures' \in 0..MaxFailures
    <3>1. UNCHANGED failures \/ (failures < MaxFailures /\ failures' = failures + 1)
      BY <1>12 DEF Proceed, Succeed, Fail, MarkBuilt, Promote, Publishes, counters
    <3> QED
      BY <1>1, <1>2, <3>1, OneMoreFailure
  <2>3. r \in Run /\ r.ref \in Commits
    BY <1>1 DEF Run
  <2>4. built' \subseteq Services \X Commits
    <3>1. UNCHANGED built \/ \E s \in Services : built' = built \cup {<<s, r.ref>>}
      BY <1>12 DEF Proceed, Succeed, Fail, EndRun, MarkBuilt, Promote, world
    <3> QED
      BY <1>1, <2>3, <3>1
  <2>5. running' \subseteq Run /\ waiting' \subseteq Run
    BY <1>1, <1>12
    DEF Proceed, Succeed, Fail, EndRun, MarkBuilt, Promote, Publishes, queues
  <2> QED
    BY <1>1, <2>1, <2>2, <2>4, <2>5
<1>13. ASSUME NEW g \in Groups, Push(g) PROVE Typed'
  BY <1>1, <1>2, <1>13 DEF Push, queues, scan
<1>14. ASSUME NEW g \in Groups, Release(g) PROVE Typed'
  <2>1. releases' \in 0..MaxReleases /\ head[g] \in Commits
    BY <1>1, <1>2, <1>14 DEF Release, WorldInv
  <2> DEFINE run == [by |-> releases', target |-> g, ref |-> head[g], promote |-> TRUE,
                     base |-> NoCommit, wanted |-> {}, build |-> {}]
  <2>2. run \in Run
    BY <2>1 DEF Run
  <2>3. /\ Start(run)
        /\ UNCHANGED <<built, pending, pc, probes, facts, pushes, failures>>
    BY <1>14 DEF Release, world, scan
  <2> HIDE DEF run
  <2>4. running' \subseteq Run /\ waiting' \subseteq Run
    BY <1>1, <2>2, <2>3, StartTyped
  <2> QED
    BY <1>1, <2>1, <2>3, <2>4
<1>15. CASE UNCHANGED vars
  BY <1>1, <1>15 DEF vars, world, queues, scan, counters
<1> QED
  BY <1>4, <1>5, <1>6, <1>7, <1>8, <1>9, <1>10, <1>11, <1>12, <1>13, <1>14, <1>15
  DEF Next, Round

\* A branch keeps what it had, and only a release starts a run that promotes.
LEMMA BranchStep == TypeOK /\ RoundInv /\ BranchInv /\ [Next]_vars => BranchInv'
<1> SUFFICES ASSUME TypeOK, RoundInv, BranchInv, [Next]_vars PROVE BranchInv'
  OBVIOUS
<1>1. CASE UNCHANGED head /\ running' \cup waiting' \subseteq running \cup waiting \cup pending
           /\ \A r \in pending' : ~r.promote
  BY <1>1 DEF BranchInv
<1>2. CASE Decide
  <2>1. UNCHANGED <<head, running, waiting>>
    BY <1>2 DEF Decide, world, queues
  <2>2. pending' \subseteq pending \cup {Dispatch}
    BY <1>2 DEF Decide
  <2>3. ~Dispatch.promote
    BY DEF Dispatch
  <2> QED
    BY <1>1, <2>1, <2>2, <2>3 DEF BranchInv
<1>3. ASSUME NEW r \in pending, Send(r) PROVE BranchInv'
  <2>1. Start(r) /\ UNCHANGED head /\ pending' \subseteq pending
    BY <1>3 DEF Send, world
  <2> QED
    BY <1>1, <2>1, StartAdds DEF BranchInv
<1>4. ASSUME NEW r \in running, Proceed(r) \/ Fail(r) \/ \E s \in Services : Promote(r, s)
      PROVE  BranchInv'
  BY <1>1, <1>4, RunSteps DEF BranchInv
<1>5. ASSUME NEW g \in Groups, Release(g) PROVE BranchInv'
  <2>1. UNCHANGED <<head, pending>>
    BY <1>5 DEF Release, world
  <2>2. PICK r : r.target = g /\ r.ref = head[g] /\ Start(r)
    BY <1>5 DEF Release
  <2>3. Reaches(head[g], head[g])
    BY CommitAssumption DEF TypeOK, Reaches
  <2> QED
    BY <2>1, <2>2, <2>3, StartAdds DEF BranchInv
<1>6. ASSUME NEW g \in Groups, Push(g) PROVE BranchInv'
  <2>1. PICK c \in Commits : Reaches(c, head[g]) /\ head' = [head EXCEPT ![g] = c]
    BY <1>6 DEF Push
  <2>2. UNCHANGED <<running, waiting, pending>>
    BY <1>6 DEF Push, queues
  <2>3. ASSUME NEW r \in running \cup waiting, r.promote
        PROVE  r.target \in Groups /\ Reaches(head'[r.target], r.ref)
    <3>1. r.target \in Groups /\ Reaches(head[r.target], r.ref) /\ r.ref \in Commits
      BY <2>3 DEF BranchInv, TypeOK, Run
    <3>2. CASE r.target = g
      BY <2>1, <3>1, <3>2, ReachesOn DEF TypeOK
    <3>3. CASE r.target # g
      BY <2>1, <3>1, <3>3 DEF TypeOK
    <3> QED
      BY <3>2, <3>3
  <2> QED
    BY <2>2, <2>3 DEF BranchInv
<1>7. CASE \/ StartRound \/ NothingMissing \/ RefuseOps \/ ScanEnds \/ ListRuns
           \/ PollFails \/ UNCHANGED vars
  <2>1. UNCHANGED <<head, running, waiting>> /\ pending' \subseteq pending
    BY <1>7 DEF StartRound, NothingMissing, RefuseOps, ScanEnds, ListRuns, EndRound,
                PollFails, vars, world, queues
  <2> QED
    BY <1>1, <2>1 DEF BranchInv
<1>8. CASE (\E g \in Groups : ReadHead(g)) \/ \E s \in Services : Probe(s) \/ Ask(s) \/ AskInVain(s)
  <2>1. UNCHANGED <<head, running, waiting, pending>>
    BY <1>8 DEF ReadHead, Probe, Ask, AskInVain, Asks, world, queues
  <2> QED
    BY <1>1, <2>1 DEF BranchInv
<1> QED
  BY <1>2, <1>3, <1>4, <1>5, <1>6, <1>7, <1>8 DEF Next, Round

\* All of this is invariant: what a round knows, decides and dispatches, and the
\* runs, have their types, a dispatch covers what it was decided for, and what is
\* promoted is on its branch (poll-sources.yml, poll-skip-decision.py).
THEOREM FullInvariant == Spec => []FullInv
<1>1. Init => FullInv
  <2> SUFFICES ASSUME Init PROVE FullInv
    OBVIOUS
  <2>1. RoundInv /\ BaseInv
    BY InitInv, InitBase DEF IInv
  <2>2. Typed /\ BranchInv
    BY GroupAssumption DEF Init, Typed, BranchInv
  <2>3. TypeOK
    BY <2>1, <2>2, TypeParts DEF Init, BaseInv, RoundInv, WorldInv, FactsInv
  <2> QED
    BY <2>1, <2>2, <2>3 DEF FullInv
<1>2. FullInv /\ IInv /\ [Next]_vars => FullInv'
  <2> SUFFICES ASSUME FullInv, IInv, [Next]_vars PROVE FullInv'
    OBVIOUS
  <2>1. RoundInv' /\ BaseInv' /\ BranchInv' /\ Typed'
    BY RoundStep, BaseStep, BranchStep, TypedStep DEF FullInv
  <2>2. TypeOK'
    BY <2>1, TypeParts, PTL DEF BaseInv, RoundInv, WorldInv, FactsInv
  <2> QED
    BY <2>1, <2>2 DEF FullInv
<1>3. Spec => []IInv
  BY InitInv, RoundStep, RunsStep, PTL DEF Spec, IInv
<1> QED
  BY <1>1, <1>2, <1>3, PTL DEF Spec

\* The types of the poller's state, of its dispatches and of the runs.
THEOREM PollTypeCorrect == Spec => []TypeOK
<1>1. FullInv => TypeOK
  BY DEF FullInv
<1> QED
  BY <1>1, FullInvariant, PTL

\* Only image s changes in the registry, and by what is promised of it.
OnlyPublishes(r, s) ==
    /\ Registry(s)!Mark(r.ref) \/ (r.promote /\ Registry(s)!Advance(r.ref))
    /\ \A t \in Services : t # s => UNCHANGED Registry(t)!seen
    /\ UNCHANGED <<head, queues, pc, scan, pending, counters>>

\* Poll leaves out nothing that publication may do to the registry: whatever an
\* active run does to one of its images within the promise, which the pipeline
\* keeps (KeepsRevisions of ImageReleaseProofs), is a step of Poll, in every
\* reachable state, however a round is reading the registry at that moment
\* (build.yml publish, poll-sources.yml).
THEOREM PublicationAdmitted ==
    ASSUME FullInv, TypeOK', NEW r \in running, NEW s \in ServicesIn(r.target),
           OnlyPublishes(r, s)
    PROVE  [Next]_vars
<1>1. /\ TypeOK /\ r \in Run /\ r.ref \in Commits /\ r.target \in Groups \cup Services
      /\ ~(r.ref = NoCommit)
  BY CommitAssumption DEF FullInv, TypeOK, Run
<1>2. s \in Services
  BY <1>1 DEF ServicesIn, Services
<1>3. Publishes(r, s)
  BY DEF OnlyPublishes, Publishes
<1>4. CASE Registry(s)!Mark(r.ref)
  <2>1. \A t \in Services : latest'[t] = latest[t]
    BY <1>4 DEF OnlyPublishes, Registry!Mark, Registry!seen
  <2>2. latest' = latest
    BY <1>1, <2>1 DEF TypeOK
  <2>3. \A t \in Services : \A c \in Commits : t # s =>
            (<<t, c>> \in built' <=> <<t, c>> \in built)
    BY DEF OnlyPublishes, Registry!seen
  <2>4. \A c \in Commits : <<s, c>> \in built' <=> (<<s, c>> \in built \/ c = r.ref)
    BY <1>1, <1>4 DEF Registry!Mark
  <2>5. built' = built \cup {<<s, r.ref>>}
    <3>1. built \subseteq Services \X Commits /\ built' \subseteq Services \X Commits
      BY <1>1 DEF TypeOK
    <3> QED
      BY <1>1, <1>2, <2>3, <2>4, <3>1
  <2>6. CASE <<s, r.ref>> \in built
    BY <2>2, <2>5, <2>6 DEF OnlyPublishes, vars, world
  <2>7. CASE <<s, r.ref>> \notin built
    BY <1>2, <1>3, <2>2, <2>5, <2>7 DEF MarkBuilt, Proceed, Next
  <2> QED
    BY <2>6, <2>7
<1>5. CASE r.promote /\ Registry(s)!Advance(r.ref)
  <2>1. /\ <<s, r.ref>> \in built
        /\ latest[s] # NoCommit => Reaches(r.ref, latest[s])
        /\ latest'[s] = r.ref
    BY <1>5 DEF Registry!Advance, Reaches
  <2>2. \A t \in Services : \A c \in Commits : <<t, c>> \in built' <=> <<t, c>> \in built
    BY <1>5 DEF OnlyPublishes, Registry!Advance, Registry!seen
  <2>3. built' = built
    <3>1. built \subseteq Services \X Commits /\ built' \subseteq Services \X Commits
      BY <1>1 DEF TypeOK
    <3> QED
      BY <2>2, <3>1
  <2>4. \A t \in Services : t # s => latest'[t] = latest[t]
    BY DEF OnlyPublishes, Registry!seen
  <2>5. latest' = [latest EXCEPT ![s] = r.ref]
    BY <1>1, <1>2, <2>1, <2>4 DEF TypeOK
  <2>6. r.target \in Groups /\ Reaches(head[r.target], r.ref)
    BY <1>5 DEF FullInv, BranchInv
  <2>7. \A g \in Groups : s \in ServicesOf[g] => g = r.target
    BY <2>6, GroupAssumption DEF ServicesIn
  <2>8. Reaches(r.ref, r.ref) /\ SameInputs(s, r.ref, r.ref)
    BY <1>1, CommitAssumption DEF Reaches, SameInputs
  <2>9. Promotable(s, r.ref)
    BY <1>1, <2>1, <2>6, <2>7, <2>8 DEF Promotable
  <2> QED
    BY <1>2, <1>3, <1>5, <2>1, <2>3, <2>5, <2>9 DEF Promote, Next
<1> QED
  BY <1>4, <1>5 DEF OnlyPublishes
=============================================================================
