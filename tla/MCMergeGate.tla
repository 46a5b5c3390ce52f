----------------------------- MODULE MCMergeGate -----------------------------
(***************************************************************************)
(* A small instance of each of the five verdicts (Verdicts).               *)
(*                                                                         *)
(* MergeGate has one head with code and one with evidence, and one check   *)
(* whose runs do or do not show when they were created.                    *)
(***************************************************************************)
EXTENDS Verdicts

CONSTANTS code, receipts, main, other, r1

OnlyReceipts == {<<main, receipts>>}

\* EvidenceReuse: one earlier run of two jobs; it differs from this one in at
\* most one input.
ThisRun == [policy |-> 1, event |-> 1, branch |-> 1, service |-> 1, ref |-> 1, contract |-> 0,
            base |-> 1]
AnyInputs == {ThisRun} \cup {[ThisRun EXCEPT ![f] = 2] : f \in DOMAIN ThisRun}

\* BoardPostgres: one package of each kind, one only obligatory to a capable
\* source, one that no plan knows; the commands have a test with and one
\* without privileges.
Packages == [p \in {"integration", "yueboard", "order", "subscribe", "db", "new"} |->
    IF p = "yueboard" THEN {"Issuer", "Traffic"} ELSE {p}]
Checkouts == {[found |-> {"integration", "order", "db"} \cup more, capable |-> able, gate |-> demanded] :
    more \in SUBSET {"yueboard", "subscribe"} \cup {{"new"}},
    able \in SUBSET {"subscribe"}, demanded \in BOOLEAN}

\* Attestation: two architectures; the registry may start with statements of
\* another image, of two architectures at once or of one and an unknown one,
\* malformed ones, and good ones.
Platform == {{"amd64"}, {"amd64", "arm64"}}
Old(subjectOf, format, archs, bad) ==
    [subject |-> subjectOf, format |-> format, archs |-> archs, malformed |-> bad]
Leftover == {Old("other", "cyclonedx", {"amd64"}, FALSE),
             Old("built", "spdxjson", {"amd64", "arm64"}, FALSE),
             Old("built", "cyclonedx", {"arm64"}, FALSE), Old("built", "spdxjson", {"arm64"}, TRUE),
             Old("built", "cyclonedx", {"riscv"}, FALSE), Old("built", "spdxjson", {"amd64"}, FALSE),
             Old("built", "cyclonedx", {"amd64", "riscv"}, FALSE)}

\* Deadman: a clock that lags, agrees, leads by less and by more than a receipt
\* may.
Clocks == {-1, 0, 1, 3}

\* The instances are such as the theorems are about.
ASSUME InstancesAreSuch == InstanceAssumption
=============================================================================
