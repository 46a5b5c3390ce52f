---------------------------- MODULE MCImageRelease ----------------------------
(***************************************************************************)
(* Small instances of ImageRelease.  History: c1 <- c2 <- c3, and x, a     *)
(* commit that left the branch after c1 (a force-push victim or an         *)
(* unmerged branch).  c1 and c2 do not differ in this image's inputs.      *)
(***************************************************************************)
EXTENDS ImageRelease, TLC

CONSTANTS c1, c2, c3, x, d1, d2, e2, d3, dx, A, B

MCCommits == {c1, c2, c3, x}
MCAncestors == c1 :> {c1} @@ c2 :> {c1, c2} @@ c3 :> {c1, c2, c3}
               @@ x :> {c1, x}
MCInputs == c1 :> A @@ c2 :> A @@ c3 :> B @@ x :> Unknown
\* d2 and e2 are two builds of the same source c2.
MCDigests == {d1, d2, e2, d3, dx}
MCLabel == d1 :> c1 @@ d2 :> c2 @@ e2 :> c2 @@ d3 :> c3 @@ dx :> x

\* No tag, or the marks of an earlier promotion of c1, or a sha-<c2> and a
\* promoted-* tag pushed by hand onto another source's image.
NoSha == [c \in MCCommits |-> None]
NoPromoted == [d \in MCDigests |-> None]
MCRegistry ==
    /\ latest \in {None, d1}
    /\ \/ sha = NoSha /\ promoted = NoPromoted
       \/ /\ sha = [NoSha EXCEPT ![c2] = d1]
          /\ promoted = [NoPromoted EXCEPT ![d3] = d1]

\* Two runs of any commits of the branch or x, promoting or not.
TwoInit == head \in {c2, x} /\ MCRegistry /\ Init
TwoSpec == TwoInit /\ [][Next]_vars

\* Three runs, so that a waiter can be evicted, and fairness: a shorter
\* history, one run that promotes c2 and two that only build it.
ThreeCommits == {c1, c2}
ThreeDigests == {d2}
ThreeAncestors == c1 :> {c1} @@ c2 :> {c1, c2}
ThreeInputs == c1 :> A @@ c2 :> A
ThreeLabel == d2 :> c2
ThreeInit ==
    /\ head = c2
    /\ latest = None
    /\ sha = [c \in ThreeCommits |-> None]
    /\ promoted = [d \in ThreeDigests |-> None]
    /\ src = [r \in Runs |-> c2]
    /\ \E r \in Runs : promote = [q \in Runs |-> q = r]
    /\ Init
ThreeSpec == ThreeInit /\ [][Next]_vars /\ \A r \in Runs : WF_vars(Proceed(r))

RunSymmetry == Permutations(Runs)
=============================================================================
