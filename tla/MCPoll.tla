-------------------------------- MODULE MCPoll --------------------------------
(***************************************************************************)
(* Small instances of Poll: the group of two images that need a migration  *)
(* base, perhaps a second group of one image, and a history of commits     *)
(* 1 <- 2 <- 3.  Commits 1 and 2 do not differ in the inputs of image web. *)
(***************************************************************************)
EXTENDS Poll

CONSTANTS ops, node, web, api, core

MCCommits == 1..3
MCAncestors == [c \in MCCommits |-> 1..c]
MCOps == {ops}
MCBoth == {ops, node}
MCServices == [g \in MCBoth |-> IF g = ops THEN {web, api} ELSE {core}]
OpsServices == [g \in MCOps |-> {web, api}]
MCInputs == [s \in {web, api, core} |->
                [c \in MCCommits |-> IF s = web /\ c = 2 THEN 1 ELSE c]]

\* Every image has been promoted before.
Promoted == \A s \in Services : latest[s] # NoCommit

PromotedSpec == Init /\ Promoted /\ [][Next]_vars

\* The branch of ops has moved on since some of its images were promoted.
LiveInit == Init /\ Promoted /\ head = [g \in Groups |-> IF g = ops THEN 2 ELSE 1]
LiveSpec == LiveInit /\ [][Next]_vars /\ Fairness
=============================================================================
