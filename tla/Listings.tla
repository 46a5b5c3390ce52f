------------------------------- MODULE Listings -------------------------------
(***************************************************************************)
(* Two readers of a list that changes between its pages: the enumeration   *)
(* of Rescan and the audit of MergeAudit, with pages of the same size.     *)
(* They share nothing, so one behaviour is one of the two.                 *)
(***************************************************************************)
EXTENDS Rescan

CONSTANTS Pulls, AuditTime, Hours, Activation, Below, Registered, Accepted, Frozen, ByPush

VARIABLES reader, auditClock, order, changed, merged, commit, red, receipts, audit, moved

auditVars == <<auditClock, order, changed, merged, commit, red, receipts, audit, moved>>

Audit == INSTANCE MergeAudit WITH
            clock <- auditClock, updated <- changed, MaxTime <- AuditTime

-----------------------------------------------------------------------------
ListingsInit == Init /\ Audit!Init /\ reader \in {"rescan", "audit"}

RescanStep == reader = "rescan" /\ Next /\ UNCHANGED <<auditVars, reader>>
AuditStep == reader = "audit" /\ Audit!Next /\ UNCHANGED <<vars, reader>>

ListingsNext == RescanStep \/ AuditStep

ListingsSpec == ListingsInit /\ [][ListingsNext]_<<vars, auditVars, reader>>

-----------------------------------------------------------------------------
\* A merge that was red or has no receipt is found, but for one that is itself
\* updated during the audit or that a reopening moves over the edge of a page
\* (merge-hygiene-audit.py, audit()).
MissedOnlyIfMoved == Audit!MissedOnlyIfMoved
=============================================================================
