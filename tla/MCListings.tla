------------------------------ MODULE MCListings ------------------------------
(***************************************************************************)
(* Three versions of an image, and three pull requests of which two are a  *)
(* stack (Listings).                                                       *)
(***************************************************************************)
EXTENDS Listings, TLC

CONSTANTS p1, p2, p3

\* One stack of two, and one merge that is accepted to have no receipt.
Stack == {<<p1, p2>>}
History == {<<p3, "receipt">>}

ASSUME InstanceAssumption == Audit!AuditAssumption

\* The lower one of the stack has no receipt, nor has the one of which that is
\* accepted; the upper one may be red.
MCInit ==
    /\ ListingsInit
    /\ reader = "rescan" => receipts = {} /\ red = {}
    /\ receipts \subseteq {p2} /\ red \subseteq {p2}

MCSpec == MCInit /\ [][ListingsNext]_<<vars, auditVars, reader>>

Symmetry == Permutations(Digests)
=============================================================================
